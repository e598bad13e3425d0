-------------------------------- MODULE Roles --------------------------------
(***************************************************************************)
(* The roles of src/dms/account/management/commands/bootstrap_roles.py and *)
(* what each may do.  A role is a Django group; "owner" stands for a user  *)
(* of no group who acts on documents of his own.                           *)
(***************************************************************************)

ROLE_PERMISSION_SPECS ==
    [admin  |-> {"auth.add_user", "auth.change_user", "auth.view_user", "auth.view_group",
                 "document.add_document", "document.change_document",
                 "document.delete_document", "document.view_document",
                 "document.view_documentauditlog",
                 "document.add_documenttype", "document.change_documenttype",
                 "document.delete_documenttype", "document.view_documenttype"},
     editor |-> {"document.add_image_document", "document.change_image_document",
                 "document.view_document"},
     viewer |-> {"document.view_document"}]

RoleNames == DOMAIN ROLE_PERMISSION_SPECS

Permissions == UNION {ROLE_PERMISSION_SPECS[r] : r \in RoleNames}

HasPerm(r, permission) == r \in RoleNames /\ permission \in ROLE_PERMISSION_SPECS[r]

=============================================================================
