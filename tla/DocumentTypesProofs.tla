-------------------------- MODULE DocumentTypesProofs --------------------------
(***************************************************************************)
(* Theorems about document types, for any types, documents, requests that  *)
(* run at the same time, starting containers, bodies and files.            *)
(***************************************************************************)
EXTENDS DocumentTypes, TLAPS

-----------------------------------------------------------------------------
(* What the validator accepts.                                             *)

Rows == TypeRow \cup {NoType, DeletedType}

\* Each extension has a content type, unless the row has those of the seed.
Usable(r) ==
    \/ r.content_types = SeedRecord.content_types
    \/ \A e \in r.extensions :
          EXTENSION_CONTENT_TYPES[e] \cap DocumentTypeContentTypes(r) # {}

RowOK(r) == r \in Rows /\ (r.present => Usable(r))

LEMMA ExtensionsAre ==
    /\ AvailableExtensions = {"csv", "docx", "jpg", "jpeg", "pdf", "png", "webp", "xlsx"}
    /\ EXTENSION_CONTENT_TYPES["csv"] = {"text/csv"}
    /\ EXTENSION_CONTENT_TYPES["docx"] = {"application/wordprocessingml"}
    /\ EXTENSION_CONTENT_TYPES["jpg"] = {"image/jpeg"}
    /\ EXTENSION_CONTENT_TYPES["jpeg"] = {"image/jpeg"}
    /\ EXTENSION_CONTENT_TYPES["pdf"] = {"application/pdf"}
    /\ EXTENSION_CONTENT_TYPES["png"] = {"image/png"}
    /\ EXTENSION_CONTENT_TYPES["webp"] = {"image/webp"}
    /\ EXTENSION_CONTENT_TYPES["xlsx"] = {"application/spreadsheetml"}
  BY DEF AvailableExtensions, EXTENSION_CONTENT_TYPES

LEMMA ContentTypesAvailable ==
    ASSUME NEW extensions
    PROVE  ContentTypesForExtensions(extensions) \subseteq AvailableContentTypes
  BY DEF ContentTypesForExtensions, AvailableContentTypes

LEMMA RowsAre ==
    ASSUME NEW r \in Rows
    PROVE  /\ r.present \in BOOLEAN
           /\ r.present => r \in TypeRow
           /\ ~r.present => r.extensions = {} /\ r.content_types = {} /\ ~r.is_active
           /\ r.extensions \subseteq AvailableExtensions
           /\ DocumentTypeContentTypes(r) \subseteq AvailableContentTypes
  <1>1. DocumentTypeContentTypes(r) \in
          {r.content_types, ContentTypesForExtensions(r.extensions)}
    BY DEF DocumentTypeContentTypes
  <1>2. CASE r \in TypeRow
    <2>1. /\ r.present = TRUE /\ r.content_types \subseteq AvailableContentTypes
          /\ r.extensions \subseteq AvailableExtensions
      BY <1>2 DEF TypeRow
    <2> QED BY <1>1, <1>2, <2>1, ContentTypesAvailable
  <1>3. CASE r \in {NoType, DeletedType}
    <2>1. /\ r.present = FALSE /\ r.extensions = {} /\ r.content_types = {}
          /\ r.is_active = FALSE
      BY <1>3 DEF NoType, DeletedType
    <2> QED BY <1>1, <2>1, ContentTypesAvailable
  <1> QED BY <1>2, <1>3 DEF Rows

\* An absent row is not of images.
LEMMA AbsentNotImage ==
    ~IsImageDocumentType(NoType)
  BY DEF NoType, IsImageDocumentType, DocumentTypeContentTypes, ContentTypesForExtensions

LEMMA AcceptedContent ==
    ASSUME NEW f, NEW r \in Rows, Accepts(f, r)
    PROVE  /\ Detected(f).content_type \in AvailableContentTypes
           /\ Detected(f).content_type \in DocumentTypeContentTypes(r)
           /\ IsImageDocumentType(r) => Detected(f).content_type \in IMAGE_CONTENT_TYPES
  BY RowsAre DEF Accepts, IsImageDocumentType

LEMMA ValidUsable ==
    ASSUME NEW r, r.extensions \subseteq AvailableExtensions, ValidType(r)
    PROVE  Usable(r)
  <1> SUFFICES ASSUME NEW e \in r.extensions
               PROVE  EXTENSION_CONTENT_TYPES[e] \cap DocumentTypeContentTypes(r) # {}
    BY DEF Usable
  <1>1. CASE r.content_types # {}
    BY <1>1 DEF ValidType, DocumentTypeContentTypes
  <1>2. CASE r.content_types = {}
    <2>1. EXTENSION_CONTENT_TYPES[e] \subseteq ContentTypesForExtensions(r.extensions)
      BY DEF ContentTypesForExtensions
    <2>2. EXTENSION_CONTENT_TYPES[e] # {}
      BY ExtensionsAre
    <2> QED BY <1>2, <2>1, <2>2 DEF DocumentTypeContentTypes
  <1> QED BY <1>1, <1>2

\* A body that passes the serializer makes a row that can be used.
LEMMA MergedOK ==
    ASSUME NEW r, NEW b \in Bodies, ValidType(Merged(r, b))
    PROVE  Merged(r, b) \in TypeRow /\ RowOK(Merged(r, b))
  <1> DEFINE m == Merged(r, b)
  <1>1. /\ m.present = TRUE /\ m.code = b.code /\ m.extensions = b.extensions
        /\ m.max_size = b.max_size /\ m.is_active = b.is_active
    BY DEF Merged
  <1>2. /\ m.extensions \in (SUBSET AvailableExtensions) \ {{}} /\ m.max_size \in Nat \ {0}
        /\ m.is_active \in BOOLEAN /\ m.code \in Codes
    BY <1>1, BodiesAssumption DEF ValidType, Codes
  <1>3. m.content_types \subseteq AvailableContentTypes
    <2>1. \/ m.content_types = {}
          \/ m.content_types \subseteq ContentTypesForExtensions(m.extensions)
      BY DEF ValidType
    <2> QED BY <2>1, ContentTypesAvailable
  <1>4. m \in TypeRow
    BY <1>1, <1>2, <1>3 DEF Merged, TypeRow
  <1>5. Usable(m)
    BY <1>2, ValidUsable
  <1> QED BY <1>4, <1>5 DEF RowOK, Rows

LEMMA SeedTypes ==
    /\ SeedRecord \in TypeRow
    /\ SeedRecord.content_types \subseteq AvailableContentTypes
  <1>1. SeedRecord.content_types \subseteq AvailableContentTypes
    BY ExtensionsAre DEF SeedRecord, IMAGE_CONTENT_TYPES, AvailableContentTypes
  <1>2. SeedRecord.extensions \in (SUBSET AvailableExtensions) \ {{}}
    BY ExtensionsAre DEF SeedRecord
  <1>3. SeedRecord.code \in Codes
    BY DEF SeedRecord, Codes
  <1>4. /\ SeedRecord.present = TRUE /\ SeedRecord.max_size \in Nat \ {0}
        /\ SeedRecord.is_active \in BOOLEAN
    BY DEF SeedRecord
  <1>5. SeedRecord = [present |-> SeedRecord.present, code |-> SeedRecord.code,
                      extensions |-> SeedRecord.extensions,
                      content_types |-> SeedRecord.content_types,
                      max_size |-> SeedRecord.max_size, is_active |-> SeedRecord.is_active]
    BY DEF SeedRecord
  <1> QED BY <1>1, <1>2, <1>3, <1>4, <1>5 DEF TypeRow

\* A row whose extension has one of its content types accepts a file with it.
LEMMA UsableAccepts ==
    ASSUME NEW r \in TypeRow, NEW e \in r.extensions,
           EXTENSION_CONTENT_TYPES[e] \cap DocumentTypeContentTypes(r) # {}
    PROVE  \E f \in Samples(e) : Accepts(f, r)
  <1>1. PICK t : t \in EXTENSION_CONTENT_TYPES[e] /\ t \in DocumentTypeContentTypes(r)
    OBVIOUS
  <1>2. e \in AvailableExtensions /\ r.max_size \in Nat /\ 1 <= r.max_size
    BY DEF TypeRow
  <1>3. CASE e = "csv"
    <2> DEFINE f == [suffix |-> e, size |-> 1, signature |-> NoSignature, text |-> TRUE]
    <2>1. Extension(f) = e
      BY <1>3 DEF Extension
    <2>2. Detected(f) = [extension |-> "csv", content_type |-> "text/csv"] /\ t = "text/csv"
      BY <1>1, <1>3, <2>1, ExtensionsAre DEF Detected, TEXT_EXTENSIONS
    <2>3. Detected(f) # NoSignature
      BY <2>2 DEF NoSignature
    <2>4. ExtensionsMatch(Extension(f), Detected(f).extension)
      <3>1. Detected(f).extension = "csv"
        BY <2>2
      <3>2. Extension(f) = "csv"
        BY <1>3, <2>1
      <3>3. ExtensionsMatch("csv", "csv")
        BY DEF ExtensionsMatch, ExtensionAliases
      <3> QED BY <3>1, <3>2, <3>3
    <2>5. Detected(f).content_type \in DocumentTypeContentTypes(r)
      BY <1>1, <2>2
    <2>6. f.size > 0 /\ f.size <= r.max_size /\ e # ""
      BY <1>2, <1>3
    <2>7. Accepts(f, r)
      BY <2>1, <2>3, <2>4, <2>5, <2>6 DEF Accepts
    <2> QED BY <2>7 DEF Samples
  <1>4. CASE e # "csv"
    <2> DEFINE x == IF e = "jpeg" THEN "jpg" ELSE e
               g == [extension |-> x, content_type |-> t]
               f == [suffix |-> e, size |-> 1, signature |-> g, text |-> TRUE]
    <2>1. x \in AvailableExtensions \ ({"jpeg"} \cup TEXT_EXTENSIONS)
          /\ t \in EXTENSION_CONTENT_TYPES[x]
      BY <1>1, <1>2, <1>4, ExtensionsAre DEF TEXT_EXTENSIONS
    <2>2. g \in Signatures
      BY <2>1 DEF Signatures
    <2>3. g # NoSignature
      BY <2>1, ExtensionsAre DEF NoSignature
    <2>4. Detected(f) = g
      BY <2>3 DEF Detected
    <2>5. Extension(f) = e /\ e # ""
      BY <1>2, ExtensionsAre DEF Extension
    <2>6. ExtensionsMatch(e, x)
      BY <1>2, ExtensionsAre DEF ExtensionsMatch, ExtensionAliases
    <2>7. f.size > 0 /\ f.size <= r.max_size
      BY <1>2
    <2>8. Detected(f).extension = x /\ Detected(f).content_type = t
      BY <2>4
    <2>9. Accepts(f, r)
      <3> HIDE DEF f
      <3> QED BY <1>1, <2>3, <2>4, <2>5, <2>6, <2>7, <2>8 DEF Accepts
    <2> QED BY <2>2, <2>9 DEF Samples
  <1> QED BY <1>3, <1>4

\* A file is accepted only if its content is one its extension stands for.
LEMMA AcceptedGenuine ==
    ASSUME NEW r, NEW e \in AvailableExtensions, NEW f \in Samples(e), Accepts(f, r)
    PROVE  Detected(f).content_type \in EXTENSION_CONTENT_TYPES[e]
  <1>1. PICK g \in Signatures \cup {NoSignature} :
            f = [suffix |-> e, size |-> 1, signature |-> g, text |-> TRUE]
    BY DEF Samples
  <1>2. Extension(f) = e
    BY <1>1, ExtensionsAre DEF Extension
  <1>3. CASE g = NoSignature
    <2>1. e = "csv" /\ Detected(f).content_type = "text/csv"
      BY <1>1, <1>2, <1>3 DEF Detected, Accepts, TEXT_EXTENSIONS
    <2> QED BY <2>1, ExtensionsAre
  <1>4. CASE g # NoSignature
    <2>1. Detected(f) = g /\ g.extension \in ExtensionAliases(e)
      BY <1>1, <1>2, <1>4 DEF Detected, Accepts, ExtensionsMatch
    <2>2. PICK x \in AvailableExtensions \ ({"jpeg"} \cup TEXT_EXTENSIONS) :
              g.extension = x /\ g.content_type \in EXTENSION_CONTENT_TYPES[x]
      BY <1>4 DEF Signatures
    <2> QED BY <2>1, <2>2, ExtensionsAre DEF ExtensionAliases
  <1> QED BY <1>3, <1>4

-----------------------------------------------------------------------------
(* The inductive invariant.                                                *)

DocumentRows ==
    {NoDocument, DeletedDocument}
        \cup [type : Types, content_type : AvailableContentTypes,
              by_editor : BOOLEAN, raced : BOOLEAN]

RequestRow ==
    [pc : {"idle", "put_type", "drop_type", "permit", "validate", "save"},
     images_only : BOOLEAN, doc : Docs \cup {None}, type : Types \cup {None},
     named : BOOLEAN, file : Uploads \cup {NoFile}, read : Rows, raced : BOOLEAN]

\* A checked file, and the type of the request as long as it is the one checked.
Fits(q, types) ==
    /\ Detected(q.file).content_type \in AvailableContentTypes
    /\ ~q.raced =>
         /\ Detected(q.file).content_type \in DocumentTypeContentTypes(types[q.type])
         /\ q.doc = None => types[q.type].is_active
         /\ q.images_only => Detected(q.file).content_type \in IMAGE_CONTENT_TYPES

\* What a request q has made sure of, when the rows are types: all it has read is what
\* the rows are, unless it was raced.
RequestOK(q, types) ==
    /\ q.pc # "idle" => q.type \in Types
    /\ q.pc = "put_type" => RowOK(q.read) /\ q.read.present
    /\ q.pc = "permit" => q.doc # None
    /\ q.pc \in {"validate", "save"} /\ q.doc = None => q.named
    /\ q.pc \in {"permit", "validate"} /\ ~q.named /\ ~q.raced => q.read = types[q.type]
    /\ q.pc = "validate" /\ q.images_only /\ ~q.raced =>
         IsImageDocumentType(IF q.named THEN types[q.type] ELSE q.read)
    /\ q.pc = "save" => Fits(q, types)

DocumentOK(r, types) ==
    /\ r \in DocumentRows
    /\ r.type # None => types[r.type].present
    /\ r.by_editor /\ ~r.raced => r.content_type \in IMAGE_CONTENT_TYPES

RequestsOK(requests, types) ==
    /\ requests \in [Clients -> RequestRow]
    /\ \A c \in Clients : RequestOK(requests[c], types)

SeedersOK(seeders) ==
    /\ seeders \in [Seeders -> [pc : {"idle", "insert", "fill"}, type : Types \cup {None}]]
    /\ \A k \in Seeders : seeders[k].pc = "fill" => seeders[k].type \in Types

TypesInv ==
    /\ dtype \in [Types -> Rows] /\ \A t \in Types : RowOK(dtype[t])
    /\ document \in [Docs -> DocumentRows] /\ \A d \in Docs : DocumentOK(document[d], dtype)
    /\ RequestsOK(request, dtype)
    /\ SeedersOK(seeder)

-----------------------------------------------------------------------------
LEMMA NoRowsAre ==
    /\ NoType \in Rows /\ DeletedType \in Rows
    /\ RowOK(NoType) /\ RowOK(DeletedType) /\ ~DeletedType.present
  BY DEF Rows, RowOK, NoType, DeletedType

LEMMA IdleOK ==
    ASSUME NEW types
    PROVE  Idle \in RequestRow /\ RequestOK(Idle, types) /\ Idle.pc = "idle"
  BY NoRowsAre DEF Idle, RequestRow, RequestOK

LEMMA NoDocumentOK ==
    ASSUME NEW types
    PROVE  /\ NoDocument.type = None /\ DeletedDocument.type = None
           /\ DocumentOK(NoDocument, types) /\ DocumentOK(DeletedDocument, types)
  BY DEF NoDocument, DeletedDocument, DocumentOK, DocumentRows

\* A row that is not there is no document of a type.
LEMMA DocumentRowsAre ==
    ASSUME NEW r \in DocumentRows
    PROVE  r.type \in Types \cup {None}
  BY DEF DocumentRows, NoDocument, DeletedDocument

LEMMA TypesInvInit == Init => TypesInv
  <1> SUFFICES ASSUME Init PROVE TypesInv
    OBVIOUS
  <1> USE DEF Init
  <1>1. ASSUME NEW r \in InitTypes PROVE r \in Rows /\ RowOK(r)
    <2>1. CASE r = NoType
      BY <2>1, NoRowsAre
    <2>2. CASE r \in TypeRow /\ ValidType(r)
      <3>1. r.extensions \subseteq AvailableExtensions
        BY <2>2 DEF TypeRow
      <3> QED BY <2>2, <3>1, ValidUsable DEF RowOK, Rows
    <2> QED BY <1>1, <2>1, <2>2, InitTypesAssumption
  <1>2. dtype \in [Types -> Rows] /\ \A t \in Types : RowOK(dtype[t])
    BY <1>1
  <1>3. /\ document \in [Docs -> DocumentRows]
        /\ \A d \in Docs : DocumentOK(document[d], dtype)
    BY NoDocumentOK DEF DocumentRows
  <1>4. RequestsOK(request, dtype)
    BY IdleOK DEF RequestsOK
  <1> QED BY <1>2, <1>3, <1>4 DEF TypesInv, SeedersOK

-----------------------------------------------------------------------------
(* The shapes of a step.                                                   *)

\* A request goes on, and writes nothing.
LEMMA RequestMoves ==
    ASSUME TypesInv, NEW c \in Clients, NEW q \in RequestRow, RequestOK(q, dtype),
           request' = [request EXCEPT ![c] = q], UNCHANGED <<dtype, document, seeder>>
    PROVE  TypesInv'
  BY DEF TypesInv, RequestsOK

\* A request writes a document, and ends.
LEMMA DocumentWritten ==
    ASSUME TypesInv, NEW c \in Clients, NEW d \in Docs, NEW r, DocumentOK(r, dtype),
           document' = [document EXCEPT ![d] = r], End(c) \/ UNCHANGED request,
           UNCHANGED <<dtype, seeder>>
    PROVE  TypesInv'
  BY IdleOK DEF TypesInv, RequestsOK, End, DocumentOK

\* A request that is raced has made sure of nothing about the rows.
LEMMA RacedOK ==
    ASSUME NEW q \in RequestRow, NEW types, RequestOK(q, types), NEW t \in Types, NEW r,
           types \in [Types -> Rows], NEW x,
           x = [q EXCEPT !.raced =
                  @ \/ (q.type = t /\ q.pc \in {"permit", "validate", "save"})]
    PROVE  x \in RequestRow /\ RequestOK(x, [types EXCEPT ![t] = r])
  <1>1. /\ x.pc = q.pc /\ x.type = q.type /\ x.doc = q.doc /\ x.named = q.named
        /\ x.images_only = q.images_only /\ x.read = q.read /\ x.file = q.file
        /\ x \in RequestRow
    BY DEF RequestRow
  <1>2. x.raced <=> q.raced \/ (q.type = t /\ q.pc \in {"permit", "validate", "save"})
    BY DEF RequestRow
  <1>3. q.type \in Types /\ q.pc \in {"permit", "validate", "save"} /\ ~x.raced =>
            [types EXCEPT ![t] = r][q.type] = types[q.type]
    BY <1>2
  <1> DEFINE after == [types EXCEPT ![t] = r]
  <1> HIDE DEF after
  <1>4. Fits(q, types) /\ q.pc = "save" => Fits(x, after)
    BY <1>1, <1>2, <1>3 DEF Fits, after, RequestOK
  <1>5. RequestOK(x, after)
    BY <1>1, <1>2, <1>3, <1>4 DEF RequestOK, after
  <1> QED BY <1>1, <1>5 DEF after

\* A type is written: only a deletion may take a row away, and only an unused one.
LEMMA TypeWritten ==
    ASSUME TypesInv, NEW t \in Types, NEW r, RowOK(r), ~r.present => ~Used(t),
           NEW requests, RequestsOK(requests, dtype),
           ChangeType(t, r, requests), UNCHANGED document,
           SeedersOK(seeder')
    PROVE  TypesInv'
  <1>1. dtype' = [dtype EXCEPT ![t] = r] /\ dtype \in [Types -> Rows] /\ r \in Rows
    BY DEF ChangeType, TypesInv, RowOK
  <1>2. dtype' \in [Types -> Rows] /\ \A u \in Types : RowOK(dtype'[u])
    BY <1>1 DEF TypesInv
  <1>3. ASSUME NEW d \in Docs PROVE DocumentOK(document[d], dtype')
    <2>1. CASE document[d].type = t
      BY <1>1, <2>1 DEF TypesInv, DocumentOK, Used
    <2>2. CASE document[d].type # t
      <3>1. document[d].type \in Types \cup {None}
        BY DocumentRowsAre DEF TypesInv
      <3> QED BY <1>1, <2>2, <3>1 DEF TypesInv, DocumentOK
    <2> QED BY <2>1, <2>2
  <1>4. ASSUME NEW c \in Clients 
        PROVE  request'[c] \in RequestRow /\ RequestOK(request'[c], dtype')
    <2> DEFINE q == requests[c]
               x == [q EXCEPT !.raced =
                       @ \/ (q.type = t /\ q.pc \in {"permit", "validate", "save"})]
    <2>1. request'[c] = x
      BY DEF ChangeType
    <2>2. q \in RequestRow /\ RequestOK(q, dtype)
      BY DEF RequestsOK
    <2> HIDE DEF q
    <2>3. x \in RequestRow /\ RequestOK(x, [dtype EXCEPT ![t] = r])
      <3> DEFINE y == x
      <3> HIDE DEF y
      <3>1. y = [q EXCEPT !.raced =
                   @ \/ (q.type = t /\ q.pc \in {"permit", "validate", "save"})]
        BY DEF y
      <3>2. y \in RequestRow /\ RequestOK(y, [dtype EXCEPT ![t] = r])
        BY <1>1, <2>2, <3>1, RacedOK
      <3> QED BY <3>2 DEF y
    <2> QED BY <1>1, <2>1, <2>3
  <1>5. request' \in [Clients -> RequestRow]
    BY <1>4 DEF ChangeType
  <1> QED BY <1>2, <1>3, <1>4, <1>5 DEF TypesInv, RequestsOK

-----------------------------------------------------------------------------
(* One lemma for each operation.                                           *)

LEMMA SeederGoesIs ==
    ASSUME TypesInv, NEW k \in Seeders, NEW pc \in {"idle", "insert", "fill"},
           NEW t \in Types \cup {None}, pc = "fill" => t \in Types, SeederGoes(k, pc, t)
    PROVE  SeedersOK(seeder')
  BY DEF TypesInv, SeedersOK, SeederGoes

LEMMA EndOK ==
    ASSUME TypesInv, NEW c \in Clients, End(c), UNCHANGED <<dtype, document, seeder>>
    PROVE  TypesInv'
  BY IdleOK, RequestMoves DEF End

\* The requests after one of them has ended.
LEMMA EndedOK ==
    ASSUME TypesInv, NEW c \in Clients, NEW requests,
           requests = [request EXCEPT ![c] = Idle]
    PROVE  RequestsOK(requests, dtype)
  BY IdleOK DEF TypesInv, RequestsOK

LEMMA CreateTypeOK ==
    ASSUME TypesInv, NEW c \in Clients, NEW t \in Types, NEW b \in Bodies,
           CreateType(c, t, b)
    PROVE  TypesInv'
  <1>1. RowOK(Merged(NoType, b)) /\ Merged(NoType, b).present
    BY MergedOK DEF CreateType, Merged
  <1>2. ChangeType(t, Merged(NoType, b), request) /\ UNCHANGED <<document, seeder>>
    BY DEF CreateType
  <1>3. RequestsOK(request, dtype) /\ SeedersOK(seeder')
    BY <1>2 DEF TypesInv
  <1> QED BY <1>1, <1>2, <1>3, TypeWritten

LEMMA BeginUpdateTypeOK ==
    ASSUME TypesInv, NEW c \in Clients, NEW t \in Types, NEW b \in Bodies,
           BeginUpdateType(c, t, b)
    PROVE  TypesInv'
  <1> DEFINE m == Merged(dtype[t], b)
             q == [Idle EXCEPT !.pc = "put_type", !.type = t, !.read = m]
  <1>1. m \in TypeRow /\ RowOK(m) /\ m.present
    BY MergedOK DEF BeginUpdateType, Merged
  <1> HIDE DEF m
  <1>2. q.pc = "put_type" /\ q.type = t /\ q.read = m /\ q \in RequestRow
    BY <1>1, NoRowsAre DEF Idle, RequestRow, Rows
  <1>3. RequestOK(q, dtype)
    BY <1>1, <1>2 DEF RequestOK
  <1> QED BY <1>2, <1>3, RequestMoves DEF BeginUpdateType, m

LEMMA SaveTypeOK ==
    ASSUME TypesInv, NEW c \in Clients, SaveType(c)
    PROVE  TypesInv'
  <1> DEFINE t == request[c].type
             r == request[c].read
             requests == [request EXCEPT ![c] = Idle]
  <1>1. t \in Types /\ RowOK(r)
    BY DEF TypesInv, RequestsOK, RequestOK, SaveType, At
  <1>2. CASE CodeFree(r.code, t)
    <2>1. ChangeType(t, r, requests) /\ UNCHANGED <<document, seeder>>
      BY <1>2 DEF SaveType
    <2>2. ~r.present => ~Used(t)
      BY DEF TypesInv, RequestsOK, RequestOK, SaveType, At, RequestRow
    <2>3. SeedersOK(seeder')
      BY <2>1 DEF TypesInv
    <2> HIDE DEF t, r
    <2> QED BY <1>1, <2>1, <2>2, <2>3, EndedOK, TypeWritten
  <1>3. CASE ~CodeFree(r.code, t)
    BY <1>3, EndOK DEF SaveType
  <1> QED BY <1>2, <1>3

LEMMA BeginDeleteTypeOK ==
    ASSUME TypesInv, NEW c \in Clients, NEW t \in Types, BeginDeleteType(c, t)
    PROVE  TypesInv'
  <1> DEFINE q == [Idle EXCEPT !.pc = "drop_type", !.type = t]
  <1>1. q.pc = "drop_type" /\ q.type = t /\ q \in RequestRow
    BY NoRowsAre DEF Idle, RequestRow
  <1>2. RequestOK(q, dtype)
    BY <1>1 DEF RequestOK
  <1> QED BY <1>1, <1>2, RequestMoves DEF BeginDeleteType

LEMMA DropTypeOK ==
    ASSUME TypesInv, NEW c \in Clients, DropType(c)
    PROVE  TypesInv'
  <1> DEFINE t == request[c].type
             requests == [request EXCEPT ![c] = Idle]
  <1>1. t \in Types
    BY DEF TypesInv, RequestsOK, RequestOK, DropType, At
  <1>2. CASE dtype[t].present /\ NotReferenced(t)
    <2>1. ChangeType(t, DeletedType, requests) /\ UNCHANGED <<document, seeder>>
      BY <1>2 DEF DropType
    <2>2. RowOK(DeletedType) /\ ~Used(t)
      BY <1>2, NoRowsAre DEF NotReferenced
    <2>3. SeedersOK(seeder')
      BY <2>1 DEF TypesInv
    <2> HIDE DEF t
    <2> QED BY <1>1, <2>1, <2>2, <2>3, EndedOK, TypeWritten
  <1>3. CASE ~(dtype[t].present /\ NotReferenced(t))
    BY <1>3, EndOK DEF DropType
  <1> QED BY <1>2, <1>3

LEMMA PermissionsAreBoolean ==
    ASSUME NEW r, NEW permission
    PROVE  HasPerm(r, permission) \in BOOLEAN /\ MayWriteAny(r, permission) \in BOOLEAN
  <1>1. HasPerm(r, permission) \in BOOLEAN
    BY Zenon DEF HasPerm
  <1>2. MayWriteAny(r, permission) \in BOOLEAN
    BY Zenon DEF MayWriteAny
  <1> QED BY <1>1, <1>2

LEMMA BeginUploadOK ==
    ASSUME TypesInv, NEW c \in Clients, NEW r, NEW t \in Types, NEW f \in Uploads,
           BeginUpload(c, r, t, f)
    PROVE  TypesInv'
  <1> DEFINE some == MayWriteAny(r, "document.add_document")
             q == [Idle EXCEPT !.pc = "validate", !.type = t, !.named = TRUE, !.file = f,
                               !.images_only = ~some]
  <1>1. some \in BOOLEAN
    BY PermissionsAreBoolean
  <1>2. ~some => IsImageDocumentType(dtype[t])
    BY DEF BeginUpload, MayUpload
  <1>3. request' = [request EXCEPT ![c] = q] /\ UNCHANGED <<dtype, document, seeder>>
    BY DEF BeginUpload
  <1> HIDE DEF some
  <1>4. /\ q.pc = "validate" /\ q.type = t /\ q.named = TRUE /\ q.images_only = ~some
        /\ q \in RequestRow
    BY <1>1, NoRowsAre DEF Idle, RequestRow
  <1>5. RequestOK(q, dtype)
    BY <1>1, <1>2, <1>4 DEF RequestOK
  <1> QED BY <1>3, <1>4, <1>5, RequestMoves

LEMMA ValidateOK ==
    ASSUME TypesInv, NEW c \in Clients, Validate(c)
    PROVE  TypesInv'
  <1> DEFINE r == IF request[c].named THEN dtype[request[c].type] ELSE request[c].read
             accepted == /\ request[c].named => ActiveType(request[c].type)
                         /\ Accepts(request[c].file, r)
             q == [request[c] EXCEPT !.pc = "save"]
  <1>1. /\ request[c] \in RequestRow /\ RequestOK(request[c], dtype)
        /\ request[c].pc = "validate" /\ request[c].type \in Types
    BY DEF TypesInv, RequestsOK, Validate, At, RequestOK
  <1>2. CASE accepted
    <2>1. request' = [request EXCEPT ![c] = q] /\ UNCHANGED <<dtype, document, seeder>>
      BY <1>2 DEF Validate, Goes, TypesInv
    <2>2. /\ q.pc = "save" /\ q.type = request[c].type /\ q.named = request[c].named
          /\ q.images_only = request[c].images_only /\ q.doc = request[c].doc
          /\ q.raced = request[c].raced /\ q.file = request[c].file
          /\ q.read = request[c].read
          /\ q \in RequestRow
      BY <1>1 DEF RequestRow
    <2>3. r \in Rows /\ Accepts(request[c].file, r)
      BY <1>1, <1>2 DEF TypesInv, RequestRow
    <2>4. ~request[c].raced => r = dtype[request[c].type]
      BY <1>1 DEF RequestOK
    <2>5. ~request[c].raced /\ request[c].images_only => IsImageDocumentType(r)
      BY <1>1 DEF RequestOK
    <2>6. request[c].doc = None => dtype[request[c].type].is_active
      BY <1>1, <1>2 DEF RequestOK, ActiveType
    <2> DEFINE content == Detected(request[c].file).content_type
    <2>7. /\ content \in AvailableContentTypes /\ content \in DocumentTypeContentTypes(r)
          /\ IsImageDocumentType(r) => content \in IMAGE_CONTENT_TYPES
      BY <2>3, AcceptedContent
    <2> HIDE DEF r
    <2>8. Fits(q, dtype)
      <3> HIDE DEF q
      <3> QED BY <2>2, <2>4, <2>5, <2>6, <2>7 DEF Fits
    <2>9. RequestOK(q, dtype)
      <3> HIDE DEF q
      <3> QED BY <1>1, <2>2, <2>8 DEF RequestOK
    <2> QED BY <2>1, <2>2, <2>9, RequestMoves
  <1>3. CASE ~accepted
    BY <1>3, EndOK DEF Validate
  <1> QED BY <1>2, <1>3

\* What a request that has been checked writes.
LEMMA WrittenOK ==
    ASSUME TypesInv, NEW c \in Clients, At(c, "save"), ReferenceHolds(request[c].type)
    PROVE  /\ DocumentOK(Written(c), dtype)
           /\ Written(c).type \in Types /\ Written(c).raced = request[c].raced
           /\ ~request[c].raced =>
                /\ Written(c).content_type \in
                     DocumentTypeContentTypes(dtype[Written(c).type])
                /\ request[c].doc = None => dtype[Written(c).type].is_active
  <1>1. /\ request[c] \in RequestRow /\ request[c].type \in Types /\ Fits(request[c], dtype)
    BY DEF TypesInv, RequestsOK, At, RequestOK
  <1>2. /\ Written(c).type = request[c].type /\ Written(c).raced = request[c].raced
        /\ Written(c).by_editor = request[c].images_only
        /\ Written(c).content_type = Detected(request[c].file).content_type
    BY DEF Written
  <1>3. Written(c) \in DocumentRows
    BY <1>1 DEF Written, DocumentRows, Fits, RequestRow
  <1>4. dtype[request[c].type].present
    BY DEF ReferenceHolds
  <1>5. DocumentOK(Written(c), dtype)
    BY <1>1, <1>2, <1>3, <1>4 DEF DocumentOK, Fits
  <1> QED BY <1>1, <1>2, <1>5 DEF Fits

LEMMA SaveUploadOK ==
    ASSUME TypesInv, NEW c \in Clients, SaveUpload(c)
    PROVE  TypesInv'
  <1>1. CASE ReferenceHolds(request[c].type)
    <2>1. PICK d \in Docs : document' = [document EXCEPT ![d] = Written(c)]
      BY <1>1 DEF SaveUpload
    <2> QED BY <1>1, <2>1, WrittenOK, DocumentWritten DEF SaveUpload
  <1>2. CASE ~ReferenceHolds(request[c].type)
    BY <1>2, EndOK DEF SaveUpload
  <1> QED BY <1>1, <1>2

LEMMA BeginReplaceOK ==
    ASSUME TypesInv, NEW c \in Clients, NEW r, NEW d \in Docs, NEW f \in Uploads,
           BeginReplace(c, r, d, f)
    PROVE  TypesInv'
  <1> DEFINE some == MayWriteAny(r, "document.change_document")
             t == document[d].type
  <1>1. some \in BOOLEAN
    BY PermissionsAreBoolean
  <1>2. t \in Types /\ dtype[t] \in Rows
    BY DocumentRowsAre DEF BeginReplace, Exists, TypesInv
  <1>3. PICK named \in BOOLEAN :
            request' = [request EXCEPT ![c] =
                          [pc |-> "permit", doc |-> d, type |-> t, images_only |-> ~some,
                           named |-> named, file |-> f, read |-> dtype[t], raced |-> FALSE]]
    BY DEF BeginReplace
  <1> DEFINE q == [pc |-> "permit", doc |-> d, type |-> t, images_only |-> ~some,
                   named |-> named, file |-> f, read |-> dtype[t], raced |-> FALSE]
  <1> HIDE DEF some, t
  <1>4. q \in RequestRow
    BY <1>1, <1>2 DEF RequestRow
  <1>5. RequestOK(q, dtype)
    BY <1>2, NoneAssumption DEF RequestOK
  <1> QED BY <1>3, <1>4, <1>5, RequestMoves DEF BeginReplace

LEMMA PermitReplaceOK ==
    ASSUME TypesInv, NEW c \in Clients, PermitReplace(c)
    PROVE  TypesInv'
  <1>1. /\ request[c] \in RequestRow /\ RequestOK(request[c], dtype)
        /\ request[c].pc = "permit" /\ request[c].type \in Types /\ request[c].doc # None
    BY DEF TypesInv, RequestsOK, PermitReplace, At, RequestOK
  <1>2. PICK t \in IF request[c].named THEN {u \in Types : dtype[u] # NoType}
                                       ELSE {request[c].type} :
            IF MayChange(c, t)
            THEN request' = [request EXCEPT ![c].pc = "validate", ![c].type = t,
                                            ![c].read = IF request[c].named THEN NoType ELSE @]
            ELSE End(c)
    BY DEF PermitReplace
  <1>3. t \in Types /\ (~request[c].named => t = request[c].type)
    BY <1>1, <1>2
  <1>4. CASE MayChange(c, t)
    <2> DEFINE q == [request[c] EXCEPT !.pc = "validate", !.type = t,
                                       !.read = IF request[c].named THEN NoType ELSE @]
    <2>1. request' = [request EXCEPT ![c] = q]
      BY <1>2, <1>4 DEF TypesInv
    <2>2. /\ q.pc = "validate" /\ q.type = t /\ q.named = request[c].named
          /\ q.images_only = request[c].images_only /\ q.doc = request[c].doc
          /\ q.raced = request[c].raced
          /\ ~q.named => q.read = request[c].read
          /\ q \in RequestRow
      BY <1>1, <1>3, NoRowsAre DEF RequestRow
    <2>3. request[c].images_only =>
            IsImageDocumentType(IF request[c].named THEN dtype[t] ELSE request[c].read)
      BY <1>4, AbsentNotImage DEF MayChange, ImageChange
    <2>4. RequestOK(q, dtype)
      <3> HIDE DEF q
      <3> QED BY <1>1, <1>3, <2>2, <2>3 DEF RequestOK
    <2> QED BY <2>1, <2>2, <2>4, RequestMoves DEF PermitReplace
  <1>5. CASE ~MayChange(c, t)
    BY <1>2, <1>5, EndOK DEF PermitReplace
  <1> QED BY <1>4, <1>5

LEMMA SaveReplacementOK ==
    ASSUME TypesInv, NEW c \in Clients, SaveReplacement(c)
    PROVE  TypesInv'
  <1>1. request[c].doc \in Docs
    BY DEF SaveReplacement, TypesInv, RequestsOK, RequestRow
  <1>2. CASE /\ ReferenceHolds(request[c].type)
             /\ document' = [document EXCEPT ![request[c].doc] = Written(c)]
    BY <1>1, <1>2, WrittenOK, DocumentWritten DEF SaveReplacement
  <1>3. CASE UNCHANGED document
    BY <1>3, EndOK DEF SaveReplacement
  <1> QED BY <1>2, <1>3 DEF SaveReplacement

LEMMA EraseDocumentOK ==
    ASSUME TypesInv, NEW c \in Clients, NEW d \in Docs, EraseDocument(c, d)
    PROVE  TypesInv'
  BY NoDocumentOK, DocumentWritten DEF EraseDocument

LEMMA SeedGetOK ==
    ASSUME TypesInv, NEW k \in Seeders, SeedGet(k)
    PROVE  TypesInv'
  <1>1. PICK pc \in {"idle", "insert", "fill"}, t \in Types \cup {None} :
            (pc = "fill" => t \in Types) /\ SeederGoes(k, pc, t)
    BY DEF SeedGet
  <1>2. UNCHANGED <<dtype, document, request>>
    BY DEF SeedGet
  <1> QED BY <1>1, <1>2, SeederGoesIs DEF TypesInv

LEMMA SeedInsertOK ==
    ASSUME TypesInv, NEW k \in Seeders, SeedInsert(k)
    PROVE  TypesInv'
  <1>1. SeedersOK(seeder')
    BY SeederGoesIs DEF SeedInsert
  <1>2. CASE UNCHANGED <<dtype, request>>
    BY <1>1, <1>2 DEF TypesInv, SeedInsert
  <1>3. ASSUME NEW t \in Types, ChangeType(t, SeedRecord, request) PROVE TypesInv'
    <2>1. RowOK(SeedRecord) /\ SeedRecord.present
      BY SeedTypes DEF RowOK, Usable, Rows, SeedRecord
    <2>2. RequestsOK(request, dtype)
      BY DEF TypesInv
    <2> QED BY <1>1, <1>3, <2>1, <2>2, TypeWritten DEF SeedInsert
  <1> QED BY <1>2, <1>3 DEF SeedInsert

LEMMA SeedFillOK ==
    ASSUME TypesInv, NEW k \in Seeders, SeedFill(k)
    PROVE  TypesInv'
  <1> DEFINE t == seeder[k].type
             r == [dtype[t] EXCEPT !.content_types = SeedRecord.content_types]
  <1>1. SeedersOK(seeder')
    BY SeederGoesIs DEF SeedFill
  <1>2. t \in Types
    BY DEF SeedFill, TypesInv, SeedersOK
  <1>3. CASE dtype[t].present
    <2>1. dtype[t] \in TypeRow
      BY <1>2, <1>3, RowsAre DEF TypesInv
    <2>2. r \in TypeRow /\ r.content_types = SeedRecord.content_types /\ r.present
      BY <2>1, SeedTypes DEF TypeRow
    <2>3. RowOK(r)
      BY <2>2 DEF RowOK, Rows, Usable
    <2>4. RequestsOK(request, dtype)
      BY DEF TypesInv
    <2>5. ChangeType(t, r, request) /\ UNCHANGED document
      BY <1>3 DEF SeedFill
    <2> HIDE DEF t, r
    <2> QED BY <1>1, <1>2, <2>2, <2>3, <2>4, <2>5, TypeWritten
  <1>4. CASE ~dtype[t].present
    BY <1>1, <1>4 DEF TypesInv, SeedFill
  <1> QED BY <1>3, <1>4

LEMMA TypesInvStep == TypesInv /\ [Next]_vars => TypesInv'
  <1> SUFFICES ASSUME TypesInv, [Next]_vars PROVE TypesInv'
    OBVIOUS
  <1>1. CASE UNCHANGED vars
    BY <1>1 DEF TypesInv, vars
  <1>2. ASSUME NEW c \in Clients, ClientStep(c) PROVE TypesInv'
    BY <1>2, CreateTypeOK, BeginUpdateTypeOK, BeginDeleteTypeOK, BeginUploadOK,
       BeginReplaceOK, EraseDocumentOK, SaveTypeOK, DropTypeOK, PermitReplaceOK, ValidateOK,
       SaveUploadOK, SaveReplacementOK
       DEF ClientStep
  <1>3. ASSUME NEW k \in Seeders, SeedStep(k) PROVE TypesInv'
    BY <1>3, SeedGetOK, SeedInsertOK, SeedFillOK DEF SeedStep
  <1> QED BY <1>1, <1>2, <1>3 DEF Next

-----------------------------------------------------------------------------
(* The theorems.                                                           *)

\* The inductive invariant holds in every reachable state: what each request has
\* checked is still so, unless the type it checked was changed.
THEOREM TypesInvariant == Spec => []TypesInv
  <1> QED BY TypesInvInit, TypesInvStep, PTL DEF Spec

\* Rows and documents keep their shape, whoever wrote them last: serializers, the seed
\* command or a request that wrote what it had read long before.
THEOREM RowsCorrect == Spec => []TypeOK
  <1>1. TypesInv => TypeOK
    BY DEF TypesInv, RequestsOK, TypeOK, Rows, DocumentRows, RequestRow
  <1> QED BY <1>1, TypesInvariant, PTL

\* Every extension of every type can be uploaded, whatever updates race on the type,
\* unless the type has the content types of the seed command.
THEOREM TypesStayUsable == Spec => []TypesUsableUnlessSeeded
  <1>1. TypesInv => TypesUsableUnlessSeeded
    <2> SUFFICES ASSUME TypesInv, NEW t \in Types, dtype[t].present,
                        dtype[t].content_types # SeedRecord.content_types,
                        NEW e \in dtype[t].extensions
                 PROVE  \E f \in Samples(e) : Accepts(f, dtype[t])
      BY DEF TypesUsableUnlessSeeded, UsableFor
    <2>1. dtype[t] \in TypeRow /\ Usable(dtype[t])
      BY RowsAre DEF TypesInv, RowOK
    <2> QED BY <2>1, UsableAccepts DEF Usable
  <1> QED BY <1>1, TypesInvariant, PTL

\* The validator accepts no file whose content is not what the extension of its name
\* stands for, for every combination of extensions and content types.
THEOREM FilesGenuine == Spec => []AcceptedFilesGenuine
  <1>1. TypesInv => AcceptedFilesGenuine
    BY RowsAre, AcceptedGenuine DEF TypesInv, AcceptedFilesGenuine
  <1> QED BY <1>1, TypesInvariant, PTL

\* No document is left without its type, however the deletion of a type and the uploads
\* for it overlap.
THEOREM DocumentsKeepTypes == Spec => []DocumentsTyped
  <1>1. TypesInv => DocumentsTyped
    BY DEF TypesInv, DocumentsTyped, DocumentOK, Exists
  <1> QED BY <1>1, TypesInvariant, PTL

\* An editor has written image documents only, except where a type was changed between
\* the permission and the commit.
THEOREM EditorsWriteImages == Spec => []EditorsStoreImages
  <1>1. TypesInv => EditorsStoreImages
    BY DEF TypesInv, EditorsStoreImages, DocumentOK
  <1> QED BY <1>1, TypesInvariant, PTL

\* A document that is written fits its type as it is at the commit, unless the type was
\* changed since the request read it.
THEOREM WritesFit == Spec => WritesFitType
  <1>1. ASSUME TypesInv, [Next]_vars, NEW d \in Docs, document'[d] # document[d],
               document'[d].type # None, ~document'[d].raced
        PROVE  /\ document'[d].content_type \in
                     DocumentTypeContentTypes(dtype[document'[d].type])
               /\ ~Exists(d) => dtype[document'[d].type].is_active
    <2>1. ASSUME NEW c \in Clients, SaveUpload(c) \/ SaveReplacement(c)
          PROVE  /\ At(c, "save") /\ ReferenceHolds(request[c].type)
                 /\ document'[d] = Written(c)
                 /\ ~Exists(d) => request[c].doc = None
      BY <1>1, <2>1 DEF SaveUpload, SaveReplacement, TypesInv
    <2>2. ASSUME NEW c \in Clients, NEW x \in Docs, EraseDocument(c, x) PROVE FALSE
      BY <1>1, <2>2, NoDocumentOK DEF EraseDocument, TypesInv
    <2>3. \E c \in Clients : SaveUpload(c) \/ SaveReplacement(c)
      BY <1>1, <2>2
         DEF Next, vars, ClientStep, SeedStep, CreateType, BeginUpdateType, BeginDeleteType,
             BeginUpload, BeginReplace, SaveType, DropType, PermitReplace, Validate,
             SeedGet, SeedInsert, SeedFill
    <2> QED BY <1>1, <2>1, <2>3, WrittenOK
  <1>2. TypesInv /\ [Next]_vars =>
          [\A d \in Docs :
             LET new == document'[d] IN
             new # document[d] /\ new.type # None /\ ~new.raced =>
                 /\ new.content_type \in DocumentTypeContentTypes(dtype[new.type])
                 /\ ~Exists(d) => dtype[new.type].is_active]_vars
    BY <1>1
  <1> QED BY <1>2, TypesInvariant, PTL DEF Spec, WritesFitType

=============================================================================
