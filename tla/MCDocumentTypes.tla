--------------------------- MODULE MCDocumentTypes ---------------------------
(* Instances of DocumentTypes: a type of images that becomes one of images *)
(* and PDF files, of PDF files only, or inactive; an invalid body; a JPEG  *)
(* under the alias of its extension, and a PDF file.                       *)
EXTENDS DocumentTypes, TLC

CONSTANTS t1, t2, c1, c2

Body(code, extensions, names, content_types, active) ==
    [code |-> code, extensions |-> extensions, names_content_types |-> names,
     content_types |-> content_types, max_size |-> 2, is_active |-> active]

Row(code, extensions, content_types) ==
    [present |-> TRUE, code |-> code, extensions |-> extensions,
     content_types |-> content_types, max_size |-> 2, is_active |-> TRUE]

MCBodies ==
    {Body("profile", {"jpg", "pdf"}, TRUE, {}, TRUE),
     Body("other", {"jpg", "pdf"}, TRUE, {"application/pdf"}, TRUE),
     Body("other", {}, TRUE, {}, TRUE),
     Body("other", {"pdf"}, FALSE, {}, FALSE)}

File(suffix, size, extension, content_type) ==
    [suffix |-> suffix, size |-> size, text |-> FALSE,
     signature |-> [extension |-> extension, content_type |-> content_type]]

MCUploads ==
    {File("jpeg", 1, "jpg", "image/jpeg"),
     File("pdf", 2, "pdf", "application/pdf")}

MCInitTypes ==
    {NoType, Row("profile", {"jpg", "jpeg"}, {})}

\* One user is an administrator, the other may be any of three.
MCActors == [c \in {c1, c2} |-> IF c = c1 THEN {"admin"} ELSE {"admin", "editor", "owner"}]

MCAdministrator == [c \in {c1} |-> {"admin"}]

MCSymmetry == Permutations({t1, t2})

=============================================================================
