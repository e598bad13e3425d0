--------------------------- MODULE MCNotifications ---------------------------
(* Two users, one of them the administrator.                               *)
EXTENDS Notifications, TLC

CONSTANTS root, u1

Request(op, target, group) == [op |-> op, target |-> target, group |-> group]

MCRequests ==
    {Request("logout", root, "none"), Request("create_inactive", u1, "none"),
     Request("assign", u1, "admin")}

MCMaxTokens == root :> 1 @@ u1 :> 2

=============================================================================
