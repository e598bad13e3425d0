-------------------------- MODULE NotificationProofs --------------------------
(***************************************************************************)
(* Theorems about users, groups and tokens, for any number of users and of *)
(* requests that are processed at a time, and about the notifications, for *)
(* any number of connections, publishers, events and faults and any        *)
(* capacity of a channel, while tokens come and go.                        *)
(***************************************************************************)
EXTENDS Notifications, TLAPS

USE AdminAssumption, AccountBounds

-----------------------------------------------------------------------------
(* Accounts: the inductive invariant.                                      *)

CallRow ==
    [pc : {"idle", "write"}, op : {"none", "logout", "create", "create_inactive", "assign"},
     caller : Users, number : Nat, target : Users, group : RoleNames \cup {"none"}]

AccountTypes ==
    /\ user \in [Users -> [exists : BOOLEAN, is_active : BOOLEAN, groups : SUBSET RoleNames]]
    /\ issued \in [Users -> Nat]
    /\ token \in [Users -> Nat]
    /\ \A u \in Users : issued[u] <= MaxTokens[u]
    /\ call \in [Callers -> CallRow]
    /\ answered \subseteq Keys

TokensIssued == \A u \in Users : token[u] <= issued[u]

\* A request that is about to write was sent with a token that had been issued, and a
\* group is given by an administrator.
RequestOK(c) ==
    call[c].pc = "write" =>
        /\ call[c].number \in 1 .. issued[call[c].caller]
        /\ call[c].op = "assign" =>
             call[c].group \in RoleNames /\ "admin" \in user[call[c].caller].groups

AnsweredIssued == \A key \in answered : key[2] <= issued[key[1]]

GroupsOfUsers == \A u \in Users : user[u].groups # {} => user[u].exists

AccountInv ==
    /\ AccountTypes
    /\ TokensIssued
    /\ TokensOfActiveUsers
    /\ GroupsOfUsers
    /\ AnsweredIssued
    /\ LoggedOutForGood
    /\ \A c \in Callers : RequestOK(c)

-----------------------------------------------------------------------------
LEMMA NextAccountCases ==
    ASSUME [Next]_vars
    PROVE  AccountNext \/ UNCHANGED accountVars
  BY DEF Next, vars

LEMMA KeysAre ==
    /\ \A key \in Keys : /\ key[1] \in Users /\ key[2] \in Nat \ {0}
                         /\ key[2] <= MaxTokens[key[1]] /\ key = <<key[1], key[2]>>
    /\ \A u \in Users : \A n \in 1 .. MaxTokens[u] : <<u, n>> \in Keys
  <1>1. ASSUME NEW key \in Keys
        PROVE  /\ key[1] \in Users /\ key[2] \in Nat \ {0}
               /\ key[2] <= MaxTokens[key[1]] /\ key = <<key[1], key[2]>>
    <2>1. PICK u \in Users : key \in {u} \X (1 .. MaxTokens[u])
      BY DEF Keys
    <2>2. MaxTokens[u] \in Nat
      OBVIOUS
    <2> QED BY <2>1, <2>2
  <1>2. ASSUME NEW u \in Users, NEW n \in 1 .. MaxTokens[u]
        PROVE  <<u, n>> \in Keys
    <2>1. <<u, n>> \in {u} \X (1 .. MaxTokens[u])
      OBVIOUS
    <2> QED BY <2>1 DEF Keys
  <1> QED BY <1>1, <1>2

LEMMA AdministratorsAssign ==
    ASSUME NEW u, user[u].groups \subseteq RoleNames, Allowed(u, "assign")
    PROVE  "admin" \in user[u].groups
  <1>1. HasPermission(u, "auth.change_user")
    BY DEF Allowed
  <1>2. PICK g \in user[u].groups : HasPerm(g, "auth.change_user")
    BY <1>1 DEF HasPermission
  <1>3. g \in {"admin", "editor", "viewer"}
    BY <1>2 DEF RoleNames, ROLE_PERMISSION_SPECS
  <1>4. g # "editor" /\ g # "viewer"
    BY <1>2 DEF HasPerm, ROLE_PERMISSION_SPECS
  <1> QED BY <1>2, <1>3, <1>4

LEMMA NoCallType == NoCall \in CallRow
  BY DEF NoCall, CallRow

LEMMA AccountInvInit == Init => AccountInv
  <1> SUFFICES ASSUME Init PROVE AccountInv
    OBVIOUS
  <1> USE DEF Init, AccountInit
  <1>1. "admin" \in RoleNames
    BY DEF RoleNames, ROLE_PERMISSION_SPECS
  <1>2. AccountTypes
    <2>1. user \in [Users -> [exists : BOOLEAN, is_active : BOOLEAN, groups : SUBSET RoleNames]]
      BY <1>1 DEF NoUser
    <2>2. call \in [Callers -> CallRow]
      BY NoCallType
    <2> QED BY <2>1, <2>2 DEF AccountTypes
  <1>3. TokensIssued /\ TokensOfActiveUsers
    BY DEF TokensIssued, TokensOfActiveUsers
  <1>4. GroupsOfUsers
    BY DEF GroupsOfUsers, NoUser
  <1>5. AnsweredIssued /\ LoggedOutForGood
    BY DEF AnsweredIssued, LoggedOutForGood
  <1>6. \A c \in Callers : RequestOK(c)
    BY DEF RequestOK, NoCall
  <1> QED BY <1>2, <1>3, <1>4, <1>5, <1>6 DEF AccountInv

-----------------------------------------------------------------------------
(* One lemma for each operation.                                           *)

LEMMA SignupOK ==
    ASSUME AccountInv, NEW u \in Users, Signup(u)
    PROVE  AccountInv'
  <1> USE DEF Signup
  <1>1. user[u].groups = {} /\ token[u] = 0 /\ ~user[u].exists
    BY DEF AccountInv, AccountTypes, GroupsOfUsers, TokensOfActiveUsers
  <1>2. \A w \in Users : w # u => user'[w] = user[w]
    BY DEF AccountInv, AccountTypes
  <1>3. user'[u].groups = {} /\ user'[u].exists
    BY DEF AccountInv, AccountTypes
  <1>4. AccountTypes' /\ TokensIssued'
    BY DEF AccountInv, AccountTypes, TokensIssued
  <1>5. TokensOfActiveUsers' /\ GroupsOfUsers'
    BY <1>1, <1>2, <1>3 DEF AccountInv, TokensOfActiveUsers, GroupsOfUsers
  <1>6. AnsweredIssued' /\ LoggedOutForGood'
    BY DEF AccountInv, AnsweredIssued, LoggedOutForGood, Valid
  <1>7. \A c \in Callers : RequestOK(c)'
    BY <1>1, <1>2, <1>3 DEF AccountInv, AccountTypes, CallRow, RequestOK
  <1> QED BY <1>4, <1>5, <1>6, <1>7 DEF AccountInv

LEMMA LoginOK ==
    ASSUME AccountInv, NEW u \in Users, Login(u)
    PROVE  AccountInv'
  <1> USE DEF Login
  <1>1. /\ issued[u] \in Nat /\ MaxTokens[u] \in Nat
        /\ issued'[u] = issued[u] + 1 /\ token'[u] = issued[u] + 1
        /\ issued' \in [Users -> Nat] /\ token' \in [Users -> Nat]
    BY DEF AccountInv, AccountTypes
  <1>2. \A w \in Users : w # u => issued'[w] = issued[w] /\ token'[w] = token[w]
    BY DEF AccountInv, AccountTypes
  <1>3. AccountTypes'
    BY <1>1, <1>2 DEF AccountInv, AccountTypes
  <1>4. TokensIssued' /\ TokensOfActiveUsers' /\ GroupsOfUsers'
    BY <1>1, <1>2
    DEF AccountInv, TokensIssued, TokensOfActiveUsers, GroupsOfUsers, MayLogIn
  <1>5. \A key \in answered : key[1] \in Users /\ key[2] \in Nat \ {0}
    BY KeysAre DEF AccountInv, AccountTypes
  <1>6. AnsweredIssued'
    BY <1>1, <1>2, <1>5 DEF AccountInv, AnsweredIssued
  <1>7. LoggedOutForGood'
    BY <1>1, <1>2, <1>5 DEF AccountInv, AnsweredIssued, LoggedOutForGood, Valid
  <1>8. ASSUME NEW c \in Callers PROVE RequestOK(c)'
    <2>1. RequestOK(c) /\ call[c].caller \in Users /\ call[c].number \in Nat
      BY DEF AccountInv, AccountTypes, CallRow
    <2>2. issued[call[c].caller] \in Nat
          /\ issued[call[c].caller] <= issued'[call[c].caller]
          /\ issued'[call[c].caller] \in Nat
      BY <1>1, <1>2, <2>1 DEF AccountInv, AccountTypes
    <2> QED BY <2>1, <2>2 DEF RequestOK
  <1> QED BY <1>3, <1>4, <1>6, <1>7, <1>8 DEF AccountInv

LEMMA BeginRequestOK ==
    ASSUME AccountInv, NEW c \in Callers, NEW key \in Keys, NEW request \in Requests,
           BeginRequest(c, key, request)
    PROVE  AccountInv'
  <1>1. UNCHANGED <<user, issued, token, answered>>
    BY DEF BeginRequest
  <1>2. /\ key[1] \in Users /\ key[2] \in Nat \ {0}
        /\ token[key[1]] = key[2] /\ token[key[1]] <= issued[key[1]]
        /\ issued[key[1]] \in Nat /\ user[key[1]].groups \subseteq RoleNames
    BY KeysAre DEF BeginRequest, Valid, AccountInv, AccountTypes, TokensIssued
  <1>3. /\ call'[c].pc = "write" /\ call'[c].op = request.op /\ call'[c].caller = key[1]
        /\ call'[c].number = key[2] /\ call'[c].group = request.group
        /\ \A d \in Callers : d # c => call'[d] = call[d]
    BY DEF BeginRequest, AccountInv, AccountTypes
  <1>4. call' \in [Callers -> CallRow]
    <2>1. [pc |-> "write", op |-> request.op, caller |-> key[1], number |-> key[2],
           target |-> request.target, group |-> request.group] \in CallRow
      BY <1>2, RequestsAssumption DEF CallRow
    <2> QED BY <2>1 DEF BeginRequest, AccountInv, AccountTypes
  <1>5. RequestOK(c)'
    <2>1. call'[c].number \in 1 .. issued'[call'[c].caller]
      BY <1>1, <1>2, <1>3
    <2>2. request.op = "assign" =>
            request.group \in RoleNames /\ "admin" \in user[key[1]].groups
      BY <1>2, AdministratorsAssign, RequestsAssumption DEF BeginRequest
    <2> QED BY <1>1, <1>3, <2>1, <2>2 DEF RequestOK
  <1>6. \A d \in Callers : d # c => RequestOK(d)'
    BY <1>1, <1>3 DEF AccountInv, RequestOK
  <1>7. AccountTypes' /\ TokensIssued' /\ TokensOfActiveUsers' /\ GroupsOfUsers'
        /\ AnsweredIssued' /\ LoggedOutForGood'
    BY <1>1, <1>4 DEF AccountInv, AccountTypes, TokensIssued, TokensOfActiveUsers, GroupsOfUsers,
                      AnsweredIssued, LoggedOutForGood, Valid
  <1> QED BY <1>5, <1>6, <1>7 DEF AccountInv

\* The request is answered: the callers' part of the invariant, whatever was written.
LEMMA AnswerOK ==
    ASSUME AccountInv, NEW c \in Callers, Answer(c), UNCHANGED issued,
           \A u \in Users : user[u].groups \subseteq user'[u].groups
    PROVE  /\ call' \in [Callers -> CallRow]
           /\ \A d \in Callers : RequestOK(d)'
  <1>1. call' \in [Callers -> CallRow]
    BY NoCallType DEF AccountInv, AccountTypes, Answer
  <1>2. ASSUME NEW d \in Callers PROVE RequestOK(d)'
    <2>1. CASE d = c
      BY <2>1 DEF AccountInv, AccountTypes, Answer, NoCall, RequestOK
    <2>2. CASE d # c
      BY <2>2 DEF AccountInv, AccountTypes, CallRow, Answer, RequestOK
    <2> QED BY <2>1, <2>2
  <1> QED BY <1>1, <1>2

LEMMA LogoutOK ==
    ASSUME AccountInv, NEW c \in Callers, Logout(c)
    PROVE  AccountInv'
  <1> DEFINE u == call[c].caller
             n == call[c].number
  <1>1. UNCHANGED <<user, issued>>
    BY DEF Logout
  <1>2. /\ u \in Users /\ n \in Nat \ {0} /\ n <= issued[u] /\ issued[u] <= MaxTokens[u]
        /\ issued[u] \in Nat /\ MaxTokens[u] \in Nat
    BY DEF Logout, InRequest, AccountInv, AccountTypes, CallRow, RequestOK
  <1>3. /\ token' \in [Users -> Nat]
        /\ token'[u] # n
        /\ \A w \in Users : token'[w] \in {token[w], 0}
    BY <1>2 DEF Logout, TokenDeleted, AccountInv, AccountTypes
  <1>4. <<u, n>> \in Keys /\ answered' = answered \cup {<<u, n>>}
    BY <1>2, KeysAre DEF Logout
  <1>5. (\A d \in Callers : RequestOK(d)') /\ call' \in [Callers -> CallRow]
    BY <1>1, AnswerOK DEF Logout
  <1>6. AccountTypes'
    BY <1>1, <1>3, <1>4, <1>5 DEF AccountInv, AccountTypes
  <1>7. TokensIssued' /\ TokensOfActiveUsers' /\ GroupsOfUsers'
    BY <1>1, <1>3
    DEF AccountInv, AccountTypes, TokensIssued, TokensOfActiveUsers, GroupsOfUsers
  <1>8. AnsweredIssued'
    BY <1>1, <1>2, <1>4 DEF AccountInv, AnsweredIssued
  <1>9. LoggedOutForGood'
    <2>1. ASSUME NEW key \in answered PROVE ~Valid(key)'
      <3>1. key[1] \in Users /\ key[2] # 0 /\ token[key[1]] # key[2]
        BY KeysAre DEF AccountInv, AccountTypes, LoggedOutForGood, Valid
      <3> QED BY <1>3, <3>1 DEF Valid
    <2>2. ASSUME NEW key, key = <<u, n>> PROVE ~Valid(key)'
      BY <1>3, <2>2 DEF Valid
    <2> QED BY <1>4, <2>1, <2>2 DEF LoggedOutForGood
  <1> QED BY <1>5, <1>6, <1>7, <1>8, <1>9 DEF AccountInv

\* A request that writes a user, and takes nothing from users who exist.
LEMMA WriteUserOK ==
    ASSUME AccountInv, NEW c \in Callers, Answer(c), UNCHANGED <<issued, token, answered>>,
           user' \in [Users -> [exists : BOOLEAN, is_active : BOOLEAN, groups : SUBSET RoleNames]],
           \A u \in Users : user[u].groups \subseteq user'[u].groups,
           \A u \in Users : user[u].exists => /\ user'[u].exists
                                              /\ user[u].is_active => user'[u].is_active,
           \A u \in Users : user'[u].groups # {} => user'[u].exists
    PROVE  AccountInv'
  <1>1. (\A d \in Callers : RequestOK(d)') /\ call' \in [Callers -> CallRow]
    BY AnswerOK
  <1>2. AccountTypes' /\ TokensIssued' /\ AnsweredIssued' /\ LoggedOutForGood'
    BY <1>1 DEF AccountInv, AccountTypes, TokensIssued, AnsweredIssued, LoggedOutForGood, Valid
  <1>3. TokensOfActiveUsers' /\ GroupsOfUsers'
    BY DEF AccountInv, TokensOfActiveUsers, GroupsOfUsers
  <1> QED BY <1>1, <1>2, <1>3 DEF AccountInv

LEMMA CreateUserOK ==
    ASSUME AccountInv, NEW c \in Callers, CreateUser(c)
    PROVE  AccountInv'
  <1> DEFINE t == call[c].target
  <1>1. t \in Users /\ Answer(c) /\ UNCHANGED <<issued, token, answered>>
    BY DEF CreateUser, AccountInv, AccountTypes, CallRow
  <1>2. CASE user[t].exists
    <2>1. user' = user
      BY <1>2 DEF CreateUser
    <2> QED BY <1>1, <2>1, WriteUserOK DEF AccountInv, AccountTypes, GroupsOfUsers
  <1>3. CASE ~user[t].exists
    <2>1. PICK active \in BOOLEAN :
             user' = [user EXCEPT ![t] = [exists |-> TRUE, groups |-> {}, is_active |-> active]]
      BY <1>3 DEF CreateUser
    <2>2. user[t].groups = {}
      BY <1>1, <1>3 DEF AccountInv, GroupsOfUsers
    <2>3. /\ user'[t] = [exists |-> TRUE, groups |-> {}, is_active |-> active]
          /\ \A u \in Users : u # t => user'[u] = user[u]
          /\ user' \in [Users -> [exists : BOOLEAN, is_active : BOOLEAN,
                                  groups : SUBSET RoleNames]]
      BY <1>1, <2>1 DEF AccountInv, AccountTypes
    <2> QED BY <1>1, <1>3, <2>2, <2>3, WriteUserOK DEF AccountInv, GroupsOfUsers
  <1> QED BY <1>2, <1>3

LEMMA AssignGroupOK ==
    ASSUME AccountInv, NEW c \in Callers, AssignGroup(c)
    PROVE  AccountInv'
  <1> DEFINE t == call[c].target
             g == call[c].group
  <1>1. /\ t \in Users /\ g \in RoleNames /\ Answer(c) /\ UNCHANGED <<issued, token, answered>>
    BY DEF AssignGroup, InRequest, RequestOK, AccountInv, AccountTypes, CallRow
  <1>2. CASE ~user[t].exists
    <2>1. user' = user
      BY <1>2 DEF AssignGroup
    <2> QED BY <1>1, <2>1, WriteUserOK DEF AccountInv, AccountTypes, GroupsOfUsers
  <1>3. CASE user[t].exists
    <2>1. user' = [user EXCEPT ![t].groups = @ \cup {g}]
      BY <1>3 DEF AssignGroup
    <2>2. /\ user'[t].exists = user[t].exists /\ user'[t].is_active = user[t].is_active
          /\ user'[t].groups = user[t].groups \cup {g}
          /\ \A u \in Users : u # t => user'[u] = user[u]
          /\ user' \in [Users -> [exists : BOOLEAN, is_active : BOOLEAN,
                                  groups : SUBSET RoleNames]]
      BY <1>1, <2>1 DEF AccountInv, AccountTypes
    <2> QED BY <1>1, <1>3, <2>2, WriteUserOK DEF AccountInv, GroupsOfUsers
  <1> QED BY <1>2, <1>3

LEMMA AccountInvStep == AccountInv /\ [Next]_vars => AccountInv'
  <1> SUFFICES ASSUME AccountInv, [Next]_vars PROVE AccountInv'
    OBVIOUS
  <1>1. CASE AccountNext
    BY <1>1, SignupOK, LoginOK, BeginRequestOK, LogoutOK, CreateUserOK, AssignGroupOK
    DEF AccountNext
  <1>2. CASE UNCHANGED accountVars
    BY <1>2 DEF accountVars, AccountInv, AccountTypes, TokensIssued, TokensOfActiveUsers,
                GroupsOfUsers, AnsweredIssued, LoggedOutForGood, Valid, RequestOK
  <1> QED BY <1>1, <1>2, NextAccountCases

LEMMA AccountInvCorrect == Spec => []AccountInv
  BY AccountInvInit, AccountInvStep, PTL DEF Spec

-----------------------------------------------------------------------------
(* The theorems.                                                           *)

\* Every token belongs to an active user and is the last one that was issued to it.
THEOREM TokensCorrect == Spec => []TokensOfActiveUsers
  <1>1. AccountInv => TokensOfActiveUsers
    BY DEF AccountInv
  <1> QED BY <1>1, AccountInvCorrect, PTL

\* A key whose logout was answered is never valid again, however often and however late
\* the logout is repeated.
THEOREM LogoutsFinal == Spec => []LoggedOutForGood
  <1>1. AccountInv => LoggedOutForGood
    BY DEF AccountInv
  <1> QED BY <1>1, AccountInvCorrect, PTL

\* A token ends by the logout that was sent with it and by nothing else.
THEOREM LogoutsOwn == Spec => LogoutEndsOwnToken
  <1> DEFINE Own(u) == token'[u] # token[u] /\ token[u] # 0 =>
                         /\ token'[u] = 0
                         /\ \E c \in Callers : InRequest(c, "logout") /\ call[c].caller = u
                                                  /\ call[c].number = token[u]
  <1>1. AccountInv /\ [Next]_vars => [\A u \in Users : Own(u)]_token
    <2> SUFFICES ASSUME AccountInv, [Next]_vars, NEW u \in Users PROVE Own(u)
      OBVIOUS
    <2>1. ASSUME NEW w \in Users, Signup(w) \/ Login(w) PROVE Own(u)
      BY <2>1 DEF Signup, Login, AccountInv, AccountTypes
    <2>2. ASSUME NEW c \in Callers, Logout(c) PROVE Own(u)
      BY <2>2 DEF Logout, TokenDeleted, AccountInv, AccountTypes
    <2>3. ASSUME NEW c \in Callers, CreateUser(c) \/ AssignGroup(c)
                    \/ \E key \in Keys, request \in Requests : BeginRequest(c, key, request)
          PROVE Own(u)
      BY <2>3 DEF CreateUser, AssignGroup, BeginRequest
    <2>4. CASE UNCHANGED accountVars
      BY <2>4 DEF accountVars
    <2> QED BY <2>1, <2>2, <2>3, <2>4, NextAccountCases DEF AccountNext
  <1> QED BY <1>1, AccountInvCorrect, PTL DEF Spec, LogoutEndsOwnToken

\* No user's groups change but by the request of an administrator about this user.
THEOREM GroupsCorrect == Spec => GroupsGranted
  <1> DEFINE Granted(u) == user'[u].groups # user[u].groups =>
                \E c \in Callers : call[c].target = u /\ "admin" \in user[call[c].caller].groups
  <1>1. AccountInv /\ [Next]_vars => [\A u \in Users : Granted(u)]_user
    <2> SUFFICES ASSUME AccountInv, [Next]_vars, NEW u \in Users PROVE Granted(u)
      OBVIOUS
    <2>1. ASSUME NEW w \in Users, Signup(w) \/ Login(w) PROVE Granted(u)
      <3>1. CASE Signup(w)
        <4>1. user'[u] = user[u] \/ (user'[u].groups = {} /\ u = w)
          BY <3>1 DEF Signup, AccountInv, AccountTypes
        <4>2. user[w].groups = {}
          BY <3>1 DEF Signup, AccountInv, GroupsOfUsers
        <4> QED BY <4>1, <4>2
      <3>2. CASE Login(w)
        BY <3>2 DEF Login
      <3> QED BY <2>1, <3>1, <3>2
    <2>2. ASSUME NEW c \in Callers, CreateUser(c) PROVE Granted(u)
      BY <2>2 DEF CreateUser, AccountInv, AccountTypes, GroupsOfUsers
    <2>3. ASSUME NEW c \in Callers, AssignGroup(c) PROVE Granted(u)
      BY <2>3 DEF AssignGroup, InRequest, RequestOK, AccountInv, AccountTypes
    <2>4. ASSUME NEW c \in Callers, Logout(c)
                    \/ \E key \in Keys, request \in Requests : BeginRequest(c, key, request)
          PROVE Granted(u)
      BY <2>4 DEF Logout, BeginRequest
    <2>5. CASE UNCHANGED accountVars
      BY <2>5 DEF accountVars
    <2> QED BY <2>1, <2>2, <2>3, <2>4, <2>5, NextAccountCases DEF AccountNext
  <1> QED BY <1>1, AccountInvCorrect, PTL DEF Spec, GroupsGranted

-----------------------------------------------------------------------------
(* Notifications: the inductive invariant.                                 *)

ConnectionRow ==
    [pc : {"new", "open", "closed"} \cup Joining, key : Keys \cup {NoKey},
     late : BOOLEAN, since : 0 .. MaxEvents]

NotificationTypes ==
    /\ connection \in [Connections -> ConnectionRow]
    /\ members \subseteq Connections
    /\ stale \subseteq Connections
    /\ queue \in [Connections -> SUBSET Nat]
    /\ received \in [Connections -> SUBSET Nat]
    /\ missed \in [Connections -> SUBSET Nat]
    /\ publication \in [Publishers -> [event : Nat, to : SUBSET Connections]]
    /\ events \in 0 .. MaxEvents
    /\ faults \in 0 .. MaxFaults

KeyIssued(s) ==
    connection[s].key # NoKey => connection[s].key[2] \in 1 .. issued[connection[s].key[1]]

\* The channel is in the group, or an event is on its way to it or has come through it.
Engaged(s) ==
    \/ s \in members \/ queue[s] # {} \/ received[s] # {}
    \/ \E p \in Publishers : s \in publication[p].to

Known(s) == connection[s].key \in Keys /\ ~connection[s].late

Trusted(s) ==
    /\ connection[s].pc \in {"new", "connect", "join"} => ~Engaged(s)
    /\ ConnectionAt(s, "connect") /\ connection[s].key # NoKey => Known(s)
    /\ Engaged(s) \/ connection[s].pc \in {"join", "accept", "open"} => Known(s)

Joined(s) ==
    /\ connection[s].pc \in {"accept", "open"} => s \in members
    /\ s \in members => connection[s].pc \in {"accept", "open"} \/ s \in stale

EachOnce(s) ==
    /\ queue[s] \cup received[s] \cup missed[s] \subseteq sent
    /\ queue[s] \cap received[s] = {} /\ missed[s] \cap (queue[s] \cup received[s]) = {}

\* An event that was announced since the connection was accepted has reached its channel,
\* or is being sent to it.
UpToDate(s) ==
    /\ connection[s].since <= events
    /\ ConnectionAt(s, "open") =>
         /\ \A p \in Publishers :
               publication[p].event > connection[s].since => s \in publication[p].to
         /\ \A e \in sent :
               e > connection[s].since => e \in queue[s] \cup received[s] \cup missed[s]

ConnectionOK(s) == KeyIssued(s) /\ Trusted(s) /\ Joined(s) /\ EachOnce(s) /\ UpToDate(s)

\* An event that is being sent was not sent before, and nobody else is sending it.
Flights ==
    /\ sent \subseteq 1 .. events
    /\ \A p \in Publishers :
          publication[p] # NoPublication =>
              publication[p].event \in (1 .. events) \ sent
    /\ \A p, q \in Publishers :
          publication[p] # NoPublication /\ publication[q] # NoPublication
          /\ publication[p].event = publication[q].event => p = q

NotificationInv ==
    /\ NotificationTypes
    /\ \A s \in Connections : ConnectionOK(s)
    /\ Flights

-----------------------------------------------------------------------------
LEMMA BoundsAre ==
    /\ MaxEvents \in Nat /\ MaxFaults \in Nat
    /\ NoPublication \in [event : Nat, to : SUBSET Connections]
    /\ NoPublication.event = 0 /\ NoPublication.to = {}
  BY NotificationBounds DEF NoPublication

LEMMA ConnectStepsAre ==
    ConnectSteps["connect"] = "join" /\ ConnectSteps["join"] = "accept"
    /\ ConnectSteps["accept"] = "open"
  BY DEF ConnectSteps

LEMMA FaultTypes ==
    ASSUME NotificationTypes, Fault \/ NoFault
    PROVE  faults' \in 0 .. MaxFaults
  BY BoundsAre DEF NotificationTypes, Fault, NoFault

LEMMA ConnectionGoesIs ==
    ASSUME NotificationTypes, NEW s \in Connections, NEW pc \in {"new", "open", "closed"} \cup Joining,
           ConnectionGoes(s, pc)
    PROVE  /\ connection' \in [Connections -> ConnectionRow]
           /\ connection'[s].pc = pc /\ connection'[s].key = connection[s].key
           /\ connection'[s].late = connection[s].late
           /\ connection'[s].since = connection[s].since
           /\ \A u \in Connections : u # s => connection'[u] = connection[u]
  BY DEF NotificationTypes, ConnectionGoes, ConnectionRow

\* What concerns a connection that the step leaves alone.
LEMMA UnchangedOK ==
    ASSUME NEW s \in Connections, ConnectionOK(s),
           connection'[s] = connection[s], s \in members' <=> s \in members,
           s \in stale => s \in stale',
           queue'[s] = queue[s], received'[s] = received[s], missed'[s] = missed[s],
           UNCHANGED <<publication, events, sent, issued>>
    PROVE  ConnectionOK(s)'
  BY DEF ConnectionOK, KeyIssued, Trusted, Engaged, Known, Joined, EachOnce, UpToDate, ConnectionAt

LEMMA NotificationInvInit == Init => NotificationInv
  <1> SUFFICES ASSUME Init PROVE NotificationInv
    OBVIOUS
  <1> USE BoundsAre DEF Init
  <1>1. NotificationTypes
    <2>1. NewConnection \in ConnectionRow
      BY DEF NewConnection, ConnectionRow
    <2> QED BY <2>1 DEF NotificationTypes
  <1>2. Flights
    BY DEF Flights
  <1>3. ASSUME NEW s \in Connections PROVE ConnectionOK(s)
    <2>1. connection[s] = NewConnection /\ queue[s] = {} /\ received[s] = {} /\ missed[s] = {}
      OBVIOUS
    <2>2. ~Engaged(s)
      BY <2>1 DEF Engaged
    <2>3. /\ connection[s].pc = "new" /\ connection[s].key = NoKey /\ connection[s].since = 0
      BY <2>1 DEF NewConnection
    <2> QED BY <2>1, <2>2, <2>3
            DEF ConnectionOK, KeyIssued, Trusted, Joined, EachOnce, UpToDate, ConnectionAt
  <1> QED BY <1>1, <1>2, <1>3 DEF NotificationInv

-----------------------------------------------------------------------------
(* One lemma for each operation.                                           *)

LEMMA ConnectOK ==
    ASSUME NotificationInv, AccountInv, UNCHANGED accountVars, NEW s \in Connections,
           NEW header \in Keys \cup {NoKey}, NEW query \in Keys \cup {NoKey},
           Connect(s, header, query)
    PROVE  NotificationInv'
  <1> DEFINE key == TokenFromScope(header, query)
  <1>0. /\ NotificationTypes /\ Flights /\ ConnectionOK(s)
        /\ UNCHANGED <<members, queue, received, missed, publication, events, sent, stale, faults>>
        /\ UNCHANGED <<issued, token, answered>>
    BY DEF NotificationInv, Connect, accountVars
  <1>1. key \in Keys \cup {NoKey}
    BY DEF TokenFromScope
  <1>2. UserOfToken(key) \in {key, NoKey} /\ (UserOfToken(key) # NoKey => key \in Keys /\ Valid(key))
    BY <1>1 DEF UserOfToken
  <1>3. UserOfToken(key) # NoKey => key \notin answered /\ key[2] \in 1 .. issued[key[1]]
    BY <1>2, KeysAre
    DEF AccountInv, LoggedOutForGood, TokensIssued, AccountTypes, Valid
  <1>4. /\ connection' \in [Connections -> ConnectionRow]
        /\ connection'[s].pc = "connect" /\ connection'[s].key = UserOfToken(key)
        /\ connection'[s].late = (key \in answered) /\ connection'[s].since = 0
        /\ \A u \in Connections : u # s => connection'[u] = connection[u]
    <2>1. [pc |-> "connect", key |-> UserOfToken(key), late |-> key \in answered, since |-> 0]
             \in ConnectionRow
      BY <1>1, <1>2, BoundsAre DEF ConnectionRow, Joining
    <2> QED BY <1>0, <2>1 DEF Connect, NotificationTypes
  <1>5. ConnectionOK(s)'
    <2>1. ~Engaged(s)
      BY <1>0 DEF Connect, ConnectionAt, ConnectionOK, Trusted
    <2>2. ~Engaged(s)'
      BY <1>0, <2>1 DEF Engaged
    <2>3. KeyIssued(s)'
      BY <1>0, <1>2, <1>3, <1>4 DEF KeyIssued
    <2>4. connection'[s].key # NoKey => Known(s)'
      BY <1>0, <1>2, <1>3, <1>4 DEF Known
    <2>5. Trusted(s)' /\ Joined(s)'
      BY <1>4, <2>2, <2>4 DEF Trusted, Joined, Engaged, ConnectionAt
    <2>6. EachOnce(s)' /\ UpToDate(s)'
      BY <1>0, <1>4 DEF ConnectionOK, EachOnce, UpToDate, ConnectionAt, NotificationTypes
    <2> QED BY <2>3, <2>5, <2>6 DEF ConnectionOK
  <1>6. \A u \in Connections : u # s => ConnectionOK(u)'
    BY <1>0, <1>4, UnchangedOK DEF NotificationInv
  <1>7. NotificationTypes' /\ Flights'
    BY <1>0, <1>4 DEF NotificationTypes, Flights
  <1> QED BY <1>5, <1>6, <1>7 DEF NotificationInv

LEMMA BeginConnectOK ==
    ASSUME NotificationInv, UNCHANGED accountVars, NEW s \in Connections, BeginConnect(s)
    PROVE  NotificationInv'
  <1>0. /\ NotificationTypes /\ Flights /\ ConnectionOK(s) /\ ConnectionAt(s, "connect")
        /\ UNCHANGED <<members, queue, received, missed, publication, events, sent, stale, faults>>
        /\ UNCHANGED issued
    BY DEF NotificationInv, BeginConnect, accountVars
  <1>1. PICK pc \in {"join", "closed"} :
           ConnectionGoes(s, pc) /\ (pc = "join" => connection[s].key # NoKey)
    BY ConnectStepsAre DEF BeginConnect, Authenticated, Rejection
  <1>2. /\ connection' \in [Connections -> ConnectionRow]
        /\ connection'[s].pc = pc /\ connection'[s].key = connection[s].key
        /\ connection'[s].late = connection[s].late
        /\ connection'[s].since = connection[s].since
        /\ \A u \in Connections : u # s => connection'[u] = connection[u]
    BY <1>0, <1>1, ConnectionGoesIs DEF Joining
  <1>3. ConnectionOK(s)'
    <2>1. ~Engaged(s) /\ (connection[s].key # NoKey => Known(s))
      BY <1>0 DEF ConnectionAt, ConnectionOK, Trusted
    <2>2. ~Engaged(s)' /\ (Known(s) => Known(s)')
      BY <1>0, <1>2, <2>1 DEF Engaged, Known
    <2>3. KeyIssued(s)' /\ EachOnce(s)' /\ UpToDate(s)'
      BY <1>0, <1>2 DEF ConnectionOK, KeyIssued, EachOnce, UpToDate, ConnectionAt
    <2>4. Trusted(s)' /\ Joined(s)'
      BY <1>1, <1>2, <2>1, <2>2 DEF Trusted, Joined, Engaged, ConnectionAt
    <2> QED BY <2>3, <2>4 DEF ConnectionOK
  <1>4. \A u \in Connections : u # s => ConnectionOK(u)'
    BY <1>0, <1>2, UnchangedOK DEF NotificationInv
  <1>5. NotificationTypes' /\ Flights'
    BY <1>0, <1>2 DEF NotificationTypes, Flights
  <1> QED BY <1>3, <1>4, <1>5 DEF NotificationInv

LEMMA JoinGroupOK ==
    ASSUME NotificationInv, UNCHANGED accountVars, NEW s \in Connections, JoinGroup(s)
    PROVE  NotificationInv'
  <1>0. /\ NotificationTypes /\ Flights /\ ConnectionOK(s) /\ ConnectionAt(s, "join")
        /\ UNCHANGED <<queue, received, missed, publication, events, sent, stale>>
        /\ UNCHANGED issued /\ faults' \in 0 .. MaxFaults
    BY FaultTypes DEF NotificationInv, JoinGroup, accountVars
  <1>1. PICK pc \in {"accept", "closed"} :
           /\ ConnectionGoes(s, pc)
           /\ members' = IF pc = "accept" THEN members \cup {s} ELSE members
    BY ConnectStepsAre DEF JoinGroup
  <1>2. /\ connection' \in [Connections -> ConnectionRow]
        /\ connection'[s].pc = pc /\ connection'[s].key = connection[s].key
        /\ connection'[s].late = connection[s].late
        /\ connection'[s].since = connection[s].since
        /\ \A u \in Connections : u # s => connection'[u] = connection[u]
    BY <1>0, <1>1, ConnectionGoesIs DEF Joining
  <1>3. ConnectionOK(s)'
    <2>1. ~Engaged(s) /\ Known(s)
      BY <1>0 DEF ConnectionAt, ConnectionOK, Trusted
    <2>2. Known(s)'
      BY <1>2, <2>1 DEF Known
    <2>3. KeyIssued(s)' /\ EachOnce(s)' /\ UpToDate(s)'
      BY <1>0, <1>2 DEF ConnectionOK, KeyIssued, EachOnce, UpToDate, ConnectionAt
    <2>4. s \notin members
      BY <2>1 DEF Engaged
    <2>5. Trusted(s)' /\ Joined(s)'
      BY <1>1, <1>2, <2>2, <2>4 DEF Trusted, Joined, ConnectionAt
    <2> QED BY <2>3, <2>5 DEF ConnectionOK
  <1>4. \A u \in Connections : u # s => ConnectionOK(u)'
    BY <1>0, <1>1, <1>2, UnchangedOK DEF NotificationInv
  <1>5. NotificationTypes' /\ Flights'
    BY <1>0, <1>1, <1>2 DEF NotificationTypes, Flights
  <1> QED BY <1>3, <1>4, <1>5 DEF NotificationInv

LEMMA AcceptOK ==
    ASSUME NotificationInv, UNCHANGED accountVars, NEW s \in Connections, Accept(s)
    PROVE  NotificationInv'
  <1>0. /\ NotificationTypes /\ Flights /\ ConnectionOK(s) /\ ConnectionAt(s, "accept")
        /\ UNCHANGED <<members, queue, received, missed, publication, events, sent, stale, faults>>
        /\ UNCHANGED issued
    BY DEF NotificationInv, Accept, accountVars
  <1>1. /\ connection' \in [Connections -> ConnectionRow]
        /\ connection'[s].pc = "open" /\ connection'[s].key = connection[s].key
        /\ connection'[s].late = connection[s].late /\ connection'[s].since = events
        /\ \A u \in Connections : u # s => connection'[u] = connection[u]
    <2>1. connection' = [connection EXCEPT ![s] = [connection[s] EXCEPT !.pc = "open",
                                                                       !.since = events]]
      BY <1>0, ConnectStepsAre DEF Accept, NotificationTypes
    <2>2. connection[s] \in ConnectionRow /\ events \in 0 .. MaxEvents
      BY <1>0 DEF NotificationTypes
    <2>3. [connection[s] EXCEPT !.pc = "open", !.since = events] \in ConnectionRow
      BY <2>2 DEF ConnectionRow
    <2> QED BY <1>0, <2>1, <2>2, <2>3 DEF NotificationTypes, ConnectionRow
  <1>2. ConnectionOK(s)'
    <2>1. Known(s)' /\ s \in members /\ (Engaged(s)' <=> Engaged(s))
      BY <1>0, <1>1 DEF ConnectionAt, ConnectionOK, Trusted, Joined, Known, Engaged
    <2>2. Trusted(s)' /\ Joined(s)' /\ KeyIssued(s)' /\ EachOnce(s)'
      BY <1>0, <1>1, <2>1
      DEF ConnectionAt, ConnectionOK, Trusted, Joined, KeyIssued, EachOnce
    <2>3. /\ \A e \in sent : e \in Nat /\ ~(e > events)
          /\ \A p \in Publishers : publication[p].event \in Nat /\ ~(publication[p].event > events)
      BY <1>0, BoundsAre DEF Flights, NotificationTypes
    <2>4. UpToDate(s)'
      BY <1>0, <1>1, <2>3 DEF UpToDate, NotificationTypes
    <2> QED BY <2>2, <2>4 DEF ConnectionOK
  <1>3. \A u \in Connections : u # s => ConnectionOK(u)'
    BY <1>0, <1>1, UnchangedOK DEF NotificationInv
  <1>4. NotificationTypes' /\ Flights'
    BY <1>0, <1>1 DEF NotificationTypes, Flights
  <1> QED BY <1>2, <1>3, <1>4 DEF NotificationInv

LEMMA DisconnectOK ==
    ASSUME NotificationInv, UNCHANGED accountVars, NEW s \in Connections, Disconnect(s)
    PROVE  NotificationInv'
  <1>0. /\ NotificationTypes /\ Flights /\ ConnectionOK(s) /\ ConnectionAt(s, "open")
        /\ UNCHANGED <<queue, received, missed, publication, events, sent>>
        /\ UNCHANGED issued /\ faults' \in 0 .. MaxFaults
    BY FaultTypes DEF NotificationInv, Disconnect, accountVars
  <1>1. /\ members' \subseteq members /\ members \ {s} \subseteq members'
        /\ stale \subseteq stale' /\ stale' \subseteq stale \cup {s}
        /\ s \in members' => s \in stale'
    BY DEF Disconnect, Discarded
  <1>2. /\ connection' \in [Connections -> ConnectionRow]
        /\ connection'[s].pc = "closed" /\ connection'[s].key = connection[s].key
        /\ connection'[s].late = connection[s].late
        /\ connection'[s].since = connection[s].since
        /\ \A u \in Connections : u # s => connection'[u] = connection[u]
    BY <1>0, ConnectionGoesIs DEF Disconnect
  <1>3. ConnectionOK(s)'
    <2>1. Known(s)'
      BY <1>0, <1>2 DEF ConnectionAt, ConnectionOK, Trusted, Known
    <2>2. Trusted(s)' /\ Joined(s)' /\ KeyIssued(s)' /\ EachOnce(s)' /\ UpToDate(s)'
      BY <1>0, <1>1, <1>2, <2>1
      DEF ConnectionAt, ConnectionOK, Trusted, Joined, KeyIssued, EachOnce, UpToDate
    <2> QED BY <2>2 DEF ConnectionOK
  <1>4. \A u \in Connections : u # s => ConnectionOK(u)'
    BY <1>0, <1>1, <1>2, UnchangedOK DEF NotificationInv
  <1>5. NotificationTypes' /\ Flights'
    BY <1>0, <1>1, <1>2 DEF NotificationTypes, Flights
  <1> QED BY <1>3, <1>4, <1>5 DEF NotificationInv

LEMMA ReceiveOK ==
    ASSUME NotificationInv, UNCHANGED accountVars, NEW s \in Connections, NEW e, Receive(s, e)
    PROVE  NotificationInv'
  <1>0. /\ NotificationTypes /\ Flights /\ ConnectionOK(s) /\ e \in queue[s]
        /\ UNCHANGED <<connection, members, missed, publication, events, sent, stale, faults>>
        /\ UNCHANGED issued
    BY DEF NotificationInv, Receive, accountVars
  <1>1. /\ queue'[s] = queue[s] \ {e} /\ received'[s] = received[s] \cup {e}
        /\ queue' \in [Connections -> SUBSET Nat] /\ received' \in [Connections -> SUBSET Nat]
        /\ \A u \in Connections : u # s => queue'[u] = queue[u] /\ received'[u] = received[u]
    BY <1>0 DEF Receive, Forwarded, NotificationTypes
  <1>2. ConnectionOK(s)'
    <2>1. Engaged(s) /\ (Known(s) <=> Known(s)')
      BY <1>0 DEF Engaged, Known
    <2>2. Trusted(s)' /\ Joined(s)' /\ KeyIssued(s)'
      BY <1>0, <2>1 DEF ConnectionAt, ConnectionOK, Trusted, Joined, KeyIssued
    <2>3. EachOnce(s)' /\ UpToDate(s)'
      BY <1>0, <1>1 DEF ConnectionAt, ConnectionOK, EachOnce, UpToDate
    <2> QED BY <2>2, <2>3 DEF ConnectionOK
  <1>3. \A u \in Connections : u # s => ConnectionOK(u)'
    BY <1>0, <1>1, UnchangedOK DEF NotificationInv
  <1>4. NotificationTypes' /\ Flights'
    BY <1>0, <1>1 DEF NotificationTypes, Flights
  <1> QED BY <1>2, <1>3, <1>4 DEF NotificationInv

LEMMA ServerDiesOK ==
    ASSUME NotificationInv, UNCHANGED accountVars, ServerDies
    PROVE  NotificationInv'
  <1>0. /\ NotificationTypes /\ Flights
        /\ UNCHANGED <<members, queue, received, missed, publication, events, sent>>
        /\ UNCHANGED issued /\ faults' \in 0 .. MaxFaults /\ stale' = stale \cup members
    BY FaultTypes DEF NotificationInv, ServerDies, accountVars
  <1>1. ASSUME NEW s \in Connections
        PROVE  /\ connection'[s] \in ConnectionRow
               /\ ConnectionAt(s, "new") => connection'[s] = connection[s]
               /\ ~ConnectionAt(s, "new") => connection'[s].pc = "closed"
               /\ connection'[s].key = connection[s].key
               /\ connection'[s].late = connection[s].late
               /\ connection'[s].since = connection[s].since
    <2>1. connection[s] \in ConnectionRow
      BY <1>0 DEF NotificationTypes
    <2>2. connection'[s] = IF ConnectionAt(s, "new") THEN connection[s]
                           ELSE [connection[s] EXCEPT !.pc = "closed"]
      BY DEF ServerDies
    <2> QED BY <2>1, <2>2 DEF ConnectionRow
  <1>2. connection' \in [Connections -> ConnectionRow]
    BY <1>1 DEF ServerDies
  <1>3. ASSUME NEW s \in Connections PROVE ConnectionOK(s)'
    <2>1. ConnectionOK(s)
      BY DEF NotificationInv
    <2>2. CASE ConnectionAt(s, "new")
      BY <1>0, <1>1, <2>1, <2>2, UnchangedOK
    <2>3. CASE ~ConnectionAt(s, "new")
      <3>1. (Known(s) <=> Known(s)') /\ (Engaged(s) <=> Engaged(s)')
        BY <1>0, <1>1 DEF Known, Engaged
      <3> QED BY <1>0, <1>1, <2>1, <2>3, <3>1
              DEF ConnectionAt, ConnectionOK, Trusted, Joined, KeyIssued, EachOnce, UpToDate
    <2> QED BY <2>2, <2>3
  <1>4. NotificationTypes' /\ Flights'
    BY <1>0, <1>2 DEF NotificationTypes, Flights
  <1> QED BY <1>3, <1>4 DEF NotificationInv

LEMMA BeginPublishOK ==
    ASSUME NotificationInv, UNCHANGED accountVars, NEW p \in Publishers, BeginPublish(p)
    PROVE  NotificationInv'
  <1>0. /\ NotificationTypes /\ Flights /\ publication[p] = NoPublication /\ events < MaxEvents
        /\ UNCHANGED <<connection, members, queue, received, missed, sent, stale, faults>>
        /\ UNCHANGED issued /\ events' = events + 1 /\ events \in Nat
    BY BoundsAre DEF NotificationInv, BeginPublish, accountVars, NotificationTypes
  <1>1. /\ publication'[p].event = events + 1 /\ publication'[p].to = members
        /\ \A q \in Publishers : q # p => publication'[q] = publication[q]
        /\ publication' \in [Publishers -> [event : Nat, to : SUBSET Connections]]
    BY <1>0 DEF BeginPublish, NotificationTypes
  <1>2. NotificationTypes'
    BY <1>0, <1>1, BoundsAre DEF NotificationTypes
  <1>3. Flights'
    BY <1>0, <1>1, BoundsAre DEF Flights, NotificationTypes
  <1>4. ASSUME NEW s \in Connections PROVE ConnectionOK(s)'
    <2>1. ConnectionOK(s) /\ connection[s].since \in Nat
      BY <1>0, BoundsAre DEF NotificationInv, NotificationTypes, ConnectionRow
    <2>2. Engaged(s)' <=> Engaged(s)
      BY <1>0, <1>1, BoundsAre DEF Engaged
    <2>3. KeyIssued(s)' /\ Trusted(s)' /\ Joined(s)' /\ EachOnce(s)'
      BY <1>0, <2>1, <2>2
      DEF ConnectionOK, KeyIssued, Trusted, Known, Joined, EachOnce, ConnectionAt
    <2>4. UpToDate(s)'
      BY <1>0, <1>1, <2>1 DEF ConnectionOK, UpToDate, Joined, ConnectionAt
    <2> QED BY <2>3, <2>4 DEF ConnectionOK
  <1> QED BY <1>2, <1>3, <1>4 DEF NotificationInv

LEMMA PublishOK ==
    ASSUME NotificationInv, UNCHANGED accountVars, NEW p \in Publishers, Publish(p)
    PROVE  NotificationInv'
  <1> DEFINE e == publication[p].event
             to == publication[p].to
  <1>0. /\ NotificationTypes /\ Flights /\ publication[p] # NoPublication
        /\ UNCHANGED <<connection, members, received, events, stale, issued>>
        /\ faults' \in 0 .. MaxFaults
    BY FaultTypes DEF NotificationInv, Publish, accountVars
  <1>1. e \in (1 .. events) \ sent /\ events \in Nat /\ e \in Nat
    BY <1>0, BoundsAre DEF Flights, NotificationTypes
  <1>2. /\ publication'[p] = NoPublication
        /\ \A q \in Publishers : q # p => publication'[q] = publication[q]
        /\ publication' \in [Publishers -> [event : Nat, to : SUBSET Connections]]
    BY <1>0, BoundsAre DEF Publish, NotificationTypes
  <1>3. ASSUME NEW s \in Connections PROVE Engaged(s)' => Engaged(s) \/ s \in to
    <2>1. queue'[s] = queue[s] \/ s \in to
      BY DEF Publish
    <2> QED BY <1>0, <1>2, <2>1, BoundsAre DEF Engaged
  <1>4. CASE UNCHANGED <<queue, missed, sent>>
    <2>1. NotificationTypes' /\ Flights'
      BY <1>0, <1>2, <1>4 DEF NotificationTypes, Flights
    <2>2. ASSUME NEW s \in Connections PROVE ConnectionOK(s)'
      <3>1. ConnectionOK(s) /\ connection[s].since \in Nat
        BY <1>0, BoundsAre DEF NotificationInv, NotificationTypes, ConnectionRow
      <3>2. Engaged(s)' => Engaged(s)
        BY <1>3 DEF Engaged
      <3>3. KeyIssued(s)' /\ Trusted(s)' /\ Joined(s)' /\ EachOnce(s)'
        BY <1>0, <1>4, <3>1, <3>2
        DEF ConnectionOK, KeyIssued, Trusted, Known, Joined, EachOnce, ConnectionAt
      <3>4. UpToDate(s)'
        BY <1>0, <1>2, <1>4, <3>1, BoundsAre DEF ConnectionOK, UpToDate, ConnectionAt
      <3> QED BY <3>3, <3>4 DEF ConnectionOK
    <2> QED BY <2>1, <2>2 DEF NotificationInv
  <1>5. CASE sent' = sent \cup {e} /\ ~UNCHANGED <<queue, missed, sent>>
    <2>1. ASSUME NEW s \in Connections
          PROVE  /\ queue'[s] = (IF s \in to /\ HasRoom(s) THEN queue[s] \cup {e} ELSE queue[s])
                 /\ missed'[s] = (IF s \in to /\ ~HasRoom(s) THEN missed[s] \cup {e}
                                  ELSE missed[s])
      BY <1>5 DEF Publish
    <2>2. queue' \in [Connections -> SUBSET Nat] /\ missed' \in [Connections -> SUBSET Nat]
      BY <1>0, <1>1, <1>5 DEF Publish, NotificationTypes
    <2>3. NotificationTypes'
      BY <1>0, <1>2, <2>2 DEF NotificationTypes
    <2>4. Flights'
      BY <1>0, <1>1, <1>2, <1>5 DEF Flights
    <2>5. ASSUME NEW s \in Connections PROVE ConnectionOK(s)'
      <3>1. ConnectionOK(s) /\ connection[s].since \in Nat
        BY <1>0, BoundsAre DEF NotificationInv, NotificationTypes, ConnectionRow
      <3>2. Engaged(s)' => Engaged(s)
        BY <1>3 DEF Engaged
      <3>3. KeyIssued(s)' /\ Trusted(s)' /\ Joined(s)'
        BY <1>0, <3>1, <3>2 DEF ConnectionOK, KeyIssued, Trusted, Known, Joined, ConnectionAt
      <3>4. EachOnce(s)'
        BY <1>0, <1>1, <1>5, <2>1, <3>1 DEF ConnectionOK, EachOnce
      <3>5. UpToDate(s)'
        <4>1. connection'[s] = connection[s] /\ connection[s].since <= events'
          BY <1>0, <3>1 DEF ConnectionOK, UpToDate
        <4>2. ASSUME ConnectionAt(s, "open"), NEW q \in Publishers,
                     publication'[q].event > connection[s].since
              PROVE  s \in publication'[q].to
          BY <1>2, <3>1, <4>2, BoundsAre DEF ConnectionOK, UpToDate
        <4>3. ASSUME ConnectionAt(s, "open"), NEW f \in sent', f > connection[s].since
              PROVE  f \in queue'[s] \cup received'[s] \cup missed'[s]
          BY <1>0, <1>5, <2>1, <3>1, <4>3 DEF ConnectionOK, UpToDate
        <4> QED BY <4>1, <4>2, <4>3 DEF UpToDate, ConnectionAt
      <3> QED BY <3>3, <3>4, <3>5 DEF ConnectionOK
    <2> QED BY <2>3, <2>4, <2>5 DEF NotificationInv
  <1> QED BY <1>4, <1>5 DEF Publish

LEMMA AccountStepOK ==
    ASSUME NotificationInv, AccountInv, AccountNext, UNCHANGED notificationVars
    PROVE  NotificationInv'
  <1>1. \A u \in Users : issued[u] \in Nat /\ issued'[u] \in Nat /\ issued[u] <= issued'[u]
    <2>1. issued \in [Users -> Nat]
      BY DEF AccountInv, AccountTypes
    <2>2. CASE \E u \in Users : Login(u)
      BY <2>1, <2>2 DEF Login
    <2>3. CASE ~\E u \in Users : Login(u)
      <3>1. UNCHANGED issued
        BY <2>3 DEF AccountNext, Signup, BeginRequest, Logout, CreateUser, AssignGroup
      <3> QED BY <2>1, <3>1
    <2> QED BY <2>2, <2>3
  <1>2. NotificationTypes' /\ Flights'
    BY DEF NotificationInv, notificationVars, NotificationTypes, Flights
  <1>3. ASSUME NEW s \in Connections PROVE ConnectionOK(s)'
    <2>1. ConnectionOK(s) /\ connection[s].key \in Keys \cup {NoKey}
      BY DEF NotificationInv, NotificationTypes, ConnectionRow
    <2>2. KeyIssued(s)'
      BY <1>1, <2>1, KeysAre DEF ConnectionOK, KeyIssued, notificationVars
    <2>3. Trusted(s)' /\ Joined(s)' /\ EachOnce(s)' /\ UpToDate(s)'
      BY <2>1 DEF ConnectionOK, Trusted, Engaged, Known, Joined, EachOnce, UpToDate,
                  ConnectionAt, notificationVars
    <2> QED BY <2>2, <2>3 DEF ConnectionOK
  <1> QED BY <1>2, <1>3 DEF NotificationInv

LEMMA NotificationInvStep ==
    NotificationInv /\ AccountInv /\ [Next]_vars => NotificationInv'
  <1> SUFFICES ASSUME NotificationInv, AccountInv, [Next]_vars PROVE NotificationInv'
    OBVIOUS
  <1>1. CASE AccountNext /\ UNCHANGED notificationVars
    BY <1>1, AccountStepOK
  <1>2. CASE NotificationNext /\ UNCHANGED accountVars
    BY <1>2, ConnectOK, BeginConnectOK, JoinGroupOK, AcceptOK, DisconnectOK, ReceiveOK,
       ServerDiesOK, BeginPublishOK, PublishOK
    DEF NotificationNext, ConsumerStep
  <1>3. CASE UNCHANGED vars
    BY <1>3 DEF vars, accountVars, notificationVars, NotificationInv, NotificationTypes, Flights,
                ConnectionOK, KeyIssued, Trusted, Engaged, Known, Joined, EachOnce, UpToDate,
                ConnectionAt
  <1> QED BY <1>1, <1>2, <1>3 DEF Next

LEMMA NotificationInvCorrect == Spec => []NotificationInv
  BY NotificationInvInit, NotificationInvStep, AccountInvCorrect, PTL DEF Spec

-----------------------------------------------------------------------------
(* The theorems.                                                           *)

\* The variables keep their types, and an event is queued, received or missed by a
\* connection, only one of these, after it was sent.
THEOREM NotificationTypesCorrect == Spec => []TypeOK
  <1>1. NotificationInv /\ AccountInv => TypeOK
    <2> SUFFICES ASSUME NotificationInv, AccountInv PROVE TypeOK
      OBVIOUS
    <2>1. \A u \in Users : issued[u] \in 0 .. MaxTokens[u] /\ token[u] \in 0 .. MaxTokens[u]
      BY AccountBounds DEF AccountInv, AccountTypes, TokensIssued
    <2> QED BY <2>1 DEF NotificationInv, NotificationTypes, ConnectionRow, ConnectionOK, KeyIssued,
                        EachOnce, AccountInv, AccountTypes, TypeOK
  <1> QED BY <1>1, NotificationInvCorrect, AccountInvCorrect, PTL

\* Only connections that came with a valid token join the group and get events, and none
\* with a token whose logout had been answered.
THEOREM MembersCorrect == Spec => []MembersAuthenticated
  <1>1. NotificationInv => MembersAuthenticated
    BY DEF NotificationInv, ConnectionOK, Trusted, Known, Engaged, MembersAuthenticated,
           ConnectionAt
  <1> QED BY <1>1, NotificationInvCorrect, PTL

\* An open connection has every event that was announced after it was accepted and sent,
\* or its channel was full.
THEOREM DeliveryCorrect == Spec => []NothingMissed
  <1>1. NotificationInv => NothingMissed
    BY DEF NotificationInv, ConnectionOK, UpToDate, NothingMissed
  <1> QED BY <1>1, NotificationInvCorrect, PTL

\* A channel that is in the group has a connection, or its server or Redis failed when the
\* connection ended.
THEOREM GroupCorrect == Spec => []MembersConnected
  <1>1. NotificationInv => MembersConnected
    BY DEF NotificationInv, NotificationTypes, ConnectionOK, Joined, MembersConnected
  <1> QED BY <1>1, NotificationInvCorrect, PTL

=============================================================================
