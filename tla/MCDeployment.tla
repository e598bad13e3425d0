---------------------------- MODULE MCDeployment ----------------------------
(* Two containers with a process each, and two threads.                    *)
EXTENDS Deployment, TLC

CONSTANTS c1, c2, p1, p2, t1, t2

MCContainerOf == p1 :> c1 @@ p2 :> c2
\* Both threads in one process, and one in each.
MCPlacements == {t1 :> p1 @@ t2 :> p1, t1 :> p1 @@ t2 :> p2}

Groups(admins, editors, viewers) ==
    [r \in RoleNames |-> CASE r = "admin" -> admins [] r = "editor" -> editors
                           [] r = "viewer" -> viewers]

\* An empty database; one of an earlier version, with a group that lacks permissions, one
\* with one too many and one missing, and a user "admin" with a password of its own.
MCInitialDatabases ==
    {[migrated |-> FALSE, admin |-> NoAdmin,
      groups |-> Groups(Absent, Absent, Absent)],
     [migrated |-> TRUE,
      groups |-> Groups({"auth.add_user"}, {"document.view_document", "document.delete_document"}, Absent),
      admin |-> [NewAdmin EXCEPT !.password = "own", !.is_active = FALSE]]}

=============================================================================
