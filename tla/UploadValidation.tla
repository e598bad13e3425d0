--------------------------- MODULE UploadValidation ---------------------------
(***************************************************************************)
(* src/dms/document/validators.py: which files a document type accepts.    *)
(*                                                                         *)
(* A document type is a record with extensions, content_types and max_size.*)
(* A file is a record: the suffix of its name, its size, and what its      *)
(* first bytes are, which is either the signature of a known format or     *)
(* NoSignature, in which case text says whether they are UTF-8 text.       *)
(***************************************************************************)
EXTENDS Naturals

EXTENSION_CONTENT_TYPES ==
    [csv  |-> {"text/csv"},
     docx |-> {"application/wordprocessingml"},
     jpg  |-> {"image/jpeg"},
     jpeg |-> {"image/jpeg"},
     pdf  |-> {"application/pdf"},
     png  |-> {"image/png"},
     webp |-> {"image/webp"},
     xlsx |-> {"application/spreadsheetml"}]

AvailableExtensions == DOMAIN EXTENSION_CONTENT_TYPES

AvailableContentTypes ==
    UNION {EXTENSION_CONTENT_TYPES[e] : e \in AvailableExtensions}

ExtensionAliases(e) == IF e \in {"jpg", "jpeg"} THEN {"jpg", "jpeg"} ELSE {e}

IMAGE_CONTENT_TYPES == {"image/jpeg", "image/png", "image/webp"}

TEXT_EXTENSIONS == {"csv"}

-----------------------------------------------------------------------------
ContentTypesForExtensions(extensions) ==
    UNION {EXTENSION_CONTENT_TYPES[e] : e \in extensions \cap AvailableExtensions}

\* Mutant: an empty list of content types means that none is allowed.
DocumentTypeContentTypes_NoFallback(t) == t.content_types

\* An empty list of content types means those of the extensions.
DocumentTypeContentTypes(t) ==
    IF t.content_types # {}
    THEN t.content_types
    ELSE ContentTypesForExtensions(t.extensions)

IsImageDocumentType(t) ==
    LET types == DocumentTypeContentTypes(t) IN
    types # {} /\ types \subseteq IMAGE_CONTENT_TYPES

-----------------------------------------------------------------------------
NoSignature == [extension |-> "none", content_type |-> "none"]

\* The signatures the filetype library knows, among those a type can ask for: it
\* calls every JPEG "jpg", and has none for text.
Signatures ==
    UNION {{[extension |-> e, content_type |-> c] : c \in EXTENSION_CONTENT_TYPES[e]} :
             e \in AvailableExtensions \ ({"jpeg"} \cup TEXT_EXTENSIONS)}

\* The suffix of the name in lower case, without the dot.
Extension(f) == IF f.suffix = "JPG" THEN "jpg" ELSE f.suffix

\* _detect_file_type
Detected(f) ==
    IF f.signature # NoSignature THEN f.signature
    ELSE IF Extension(f) \in TEXT_EXTENSIONS /\ f.text
         THEN [extension |-> Extension(f), content_type |-> "text/csv"]
         ELSE NoSignature

\* Mutant: the detected extension must be the one of the name.
ExtensionsMatch_NoAlias(uploaded, detected) == uploaded = detected

\* Mutant: the name and the content are not compared.
ExtensionsMatch_Any(uploaded, detected) == TRUE

ExtensionsMatch(uploaded, detected) == detected \in ExtensionAliases(uploaded)

\* UploadedFileValidator.validate: every check raises a ValidationError, so only
\* whether all of them succeed matters.
Accepts(f, t) ==
    /\ Extension(f) # ""
    /\ Extension(f) \in t.extensions
    /\ f.size > 0
    /\ f.size <= t.max_size
    /\ Detected(f) # NoSignature
    /\ ExtensionsMatch(Extension(f), Detected(f).extension)
    /\ Detected(f).content_type \in DocumentTypeContentTypes(t)

=============================================================================
