------------------------------ MODULE Accounts ------------------------------
(***************************************************************************)
(* src/dms/account/views.py: users, their groups and their tokens.  A      *)
(* request is authenticated by its token, its permission is looked up, and *)
(* only then does it write: other requests may come in between.  A user    *)
(* has at most one token, which all of its clients share.                  *)
(*                                                                         *)
(* The key of a token is named by its user and a number; a key is random,  *)
(* so no two tokens have the same.                                         *)
(***************************************************************************)
EXTENDS Naturals, Roles

CONSTANTS
    Users,
    Admin,         \* the user create_default_superuser has made
    Callers,       \* requests that are processed at a time
    Requests,      \* [op, target, group]: what the requests may ask for
    MaxTokens      \* how many tokens each user is issued

ASSUME AdminAssumption == Admin \in Users
ASSUME AccountBounds == MaxTokens \in [Users -> Nat]
ASSUME RequestsAssumption ==
    /\ Requests \subseteq [op : {"logout", "create", "create_inactive", "assign"},
                           target : Users, group : RoleNames \cup {"none"}]
    /\ \A request \in Requests : request.op = "assign" => request.group \in RoleNames

VARIABLES
    user,       \* [exists, is_active, groups] of each user
    issued,     \* how many tokens each user has been issued
    token,      \* the number of the token each user has, 0 for none
    call,       \* the request each caller is in
    answered    \* keys whose logout has been answered with 204

accountVars == <<user, issued, token, call, answered>>

-----------------------------------------------------------------------------
NoUser == [exists |-> FALSE, is_active |-> FALSE, groups |-> {}]
NoCall == [pc |-> "idle", op |-> "none", caller |-> Admin, number |-> 0, target |-> Admin,
           group |-> "none"]

AccountInit ==
    /\ user = [u \in Users |-> IF u = Admin
                 THEN [exists |-> TRUE, is_active |-> TRUE, groups |-> {"admin"}] ELSE NoUser]
    /\ issued = [u \in Users |-> 0]
    /\ token = [u \in Users |-> 0]
    /\ call = [c \in Callers |-> NoCall]
    /\ answered = {}

Keys == UNION {{u} \X (1 .. MaxTokens[u]) : u \in Users}

\* Mutant: keys that were valid once are remembered.
Valid_Cached(key) == key[2] \in 1 .. issued[key[1]]

\* Token.objects.get(key=...).
Valid(key) == key[2] # 0 /\ token[key[1]] = key[2]

HasPermission(u, permission) == \E g \in user[u].groups : HasPerm(g, permission)

-----------------------------------------------------------------------------
\* SignupView: a user of no group; a name that is taken is refused.
Signup(u) ==
    /\ ~user[u].exists
    /\ user' = [user EXCEPT ![u] = [exists |-> TRUE, is_active |-> TRUE, groups |-> {}]]
    /\ UNCHANGED <<issued, token, call, answered>>

\* Mutant: a login does not ask whether the user is active.
MayLogIn_Inactive(u) == user[u].exists

\* authenticate() refuses users that are not active.
MayLogIn(u) == user[u].exists /\ user[u].is_active

\* LoginView: the token there is, or a new one.
Login(u) ==
    /\ MayLogIn(u)
    /\ token[u] = 0
    /\ issued[u] < MaxTokens[u]
    /\ issued' = [issued EXCEPT ![u] = @ + 1]
    /\ token' = [token EXCEPT ![u] = issued'[u]]
    /\ UNCHANGED <<user, call, answered>>

\* Mutant: any user may put users in groups.
Allowed_Anyone(u, op) == TRUE

\* IsAuthenticated, CanCreateUser and CanAssignUserGroup.
Allowed(u, op) ==
    CASE op = "logout" -> TRUE
      [] op \in {"create", "create_inactive"} -> HasPermission(u, "auth.add_user")
      [] op = "assign" -> HasPermission(u, "auth.change_user")

\* Authentication and permission of a request.
BeginRequest(c, key, request) ==
    /\ call[c].pc = "idle"
    /\ Valid(key)
    /\ user[key[1]].is_active
    /\ Allowed(key[1], request.op)
    /\ call' = [call EXCEPT ![c] = [pc |-> "write", op |-> request.op, caller |-> key[1],
                                   number |-> key[2], target |-> request.target,
                                   group |-> request.group]]
    /\ UNCHANGED <<user, issued, token, answered>>

InRequest(c, op) == call[c].pc = "write" /\ call[c].op = op
Answer(c) == call' = [call EXCEPT ![c] = NoCall]

\* Mutant: the token the user has now is deleted.
TokenDeleted_Current(c) == token[call[c].caller]

\* request.user.auth_token is the row that authenticated the request.
TokenDeleted(c) == call[c].number

\* LogoutView: a row that is gone already is no error.
Logout(c) ==
    LET u == call[c].caller IN
    /\ InRequest(c, "logout")
    /\ token' = IF token[u] = TokenDeleted(c) THEN [token EXCEPT ![u] = 0] ELSE token
    /\ answered' = answered \cup {<<u, call[c].number>>}
    /\ Answer(c)
    /\ UNCHANGED <<user, issued>>

\* UserListCreateView.post: a name that is taken is an error.
CreateUser(c) ==
    LET u == call[c].target IN
    /\ InRequest(c, "create") \/ InRequest(c, "create_inactive")
    /\ user' = IF user[u].exists THEN user
               ELSE [user EXCEPT ![u] = [exists |-> TRUE, groups |-> {},
                                         is_active |-> call[c].op = "create"]]
    /\ Answer(c)
    /\ UNCHANGED <<issued, token, answered>>

\* UserGroupAssignView: a user that does not exist is not found; groups are only added.
AssignGroup(c) ==
    LET u == call[c].target IN
    /\ InRequest(c, "assign")
    /\ user' = IF user[u].exists THEN [user EXCEPT ![u].groups = @ \cup {call[c].group}] ELSE user
    /\ Answer(c)
    /\ UNCHANGED <<issued, token, answered>>

AccountNext ==
    \/ \E u \in Users : Signup(u) \/ Login(u)
    \/ \E c \in Callers :
          \/ \E key \in Keys, request \in Requests : BeginRequest(c, key, request)
          \/ Logout(c)
          \/ CreateUser(c)
          \/ AssignGroup(c)

-----------------------------------------------------------------------------
(* Correctness.                                                            *)

\* A token belongs to an active user (the consumer of the notifications does not ask
\* again, middleware.py:51-55), and a token in use is the last one issued.
TokensOfActiveUsers ==
    \A u \in Users :
        token[u] # 0 => user[u].exists /\ user[u].is_active /\ token[u] = issued[u]

\* A logout ends the token it was sent with and no other: a repeated logout that is late
\* leaves the token of the next login alone (views.py:58-64).
LogoutEndsOwnToken ==
    [][\A u \in Users :
          token'[u] # token[u] /\ token[u] # 0 =>
              /\ token'[u] = 0
              /\ \E c \in Callers : InRequest(c, "logout") /\ call[c].caller = u
                                       /\ call[c].number = token[u]]_token

\* A key whose logout was answered never becomes valid again.
LoggedOutForGood == \A key \in answered : ~Valid(key)

\* Nobody gets a group but by the request of an administrator.
GroupsGranted ==
    [][\A u \in Users :
          user'[u].groups # user[u].groups =>
              \E c \in Callers : call[c].target = u /\ "admin" \in user[call[c].caller].groups]_user

=============================================================================
