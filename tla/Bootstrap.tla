------------------------------ MODULE Bootstrap ------------------------------
(***************************************************************************)
(* src/docker/entrypoint.sh and the commands it runs in every container    *)
(* before the server of that container: the migrations, the roles          *)
(* (bootstrap_roles.py), the default superuser                             *)
(* (create_default_superuser.py) and the document types (DocumentTypes).   *)
(* The containers start together and share the database; `set -eu` ends a  *)
(* container whose command fails, and `restart: unless-stopped` starts it  *)
(* again.                                                                  *)
(***************************************************************************)
EXTENDS Naturals, Roles

CONSTANTS
    Containers,
    Absent,              \* a group that does not exist
    InitialDatabases,    \* [migrated, groups, admin]: what may be found
    MaxDeaths            \* how often a container dies, or a database call of it fails

ASSUME BootBounds == MaxDeaths \in Nat
ASSUME AbsentAssumption == \A r \in RoleNames : Absent # ROLE_PERMISSION_SPECS[r]

VARIABLES
    migrated,      \* the migrations are applied and the permissions have their rows
    groups,        \* the permission set of each role's group
    admin,         \* the user "admin"
    container,     \* [pc, created, seen]: the step of the entrypoint, what get_or_create
                   \* returned, and the user as it was read
    abandoned,     \* a container ended between creating the user and saving it
    deaths         \* deaths and failures that may still happen

bootVars == <<migrated, groups, admin, container, abandoned, deaths>>

-----------------------------------------------------------------------------
NoAdmin == [exists |-> FALSE, password |-> "none", is_active |-> FALSE,
            is_staff |-> FALSE, is_superuser |-> FALSE, in_group |-> FALSE]

AdminRows ==
    [exists : BOOLEAN, password : {"none", "default", "own"}, is_active : BOOLEAN,
     is_staff : BOOLEAN, is_superuser : BOOLEAN, in_group : BOOLEAN]

\* The permission sets of the groups.
GroupSets == [RoleNames -> {Absent} \cup SUBSET Permissions]

\* What get_or_create inserts: the defaults of the user model.
NewAdmin == [NoAdmin EXCEPT !.exists = TRUE, !.is_active = TRUE]

\* There is no user without its table, and no user without a password: no start of an
\* earlier version was interrupted where `abandoned` says.
ASSUME InitialDatabasesAssumption ==
    InitialDatabases \subseteq
        {db \in [migrated : BOOLEAN, groups : GroupSets, admin : AdminRows] :
            /\ db.admin.exists => db.migrated /\ db.admin.password # "none"
            /\ ~db.admin.exists => db.admin = NoAdmin}

\* Mutant: the entrypoint does not migrate.
StartOfEntrypoint_Unmigrated == [pc |-> "admin", created |-> FALSE, seen |-> NoAdmin]

StartOfEntrypoint == [pc |-> "migrate", created |-> FALSE, seen |-> NoAdmin]

\* Mutant: the superuser is created before the roles.
AfterCommand_AdminFirst(command) ==
    CASE command = "migrate" -> "admin"
      [] command = "admin" -> "roles"
      [] command = "roles" -> "serving"

\* The order of the entrypoint.  After the superuser come seed_document_types, whose steps
\* are in DocumentTypes, and the exec of the server.
AfterCommand(command) ==
    CASE command = "migrate" -> "roles"
      [] command = "roles" -> "admin"
      [] command = "admin" -> "serving"

At(c, pc) == container[c].pc = pc
Goes(c, pc) == container' = [container EXCEPT ![c].pc = pc]

\* The command exits with an error and the container starts again.
Restarts(c) == container' = [container EXCEPT ![c] = StartOfEntrypoint]

BootInit ==
    /\ \E db \in InitialDatabases :
          /\ migrated = db.migrated
          /\ groups = db.groups
          /\ admin = db.admin
    /\ container = [c \in Containers |-> StartOfEntrypoint]
    /\ abandoned = FALSE
    /\ deaths = MaxDeaths

-----------------------------------------------------------------------------
(* migrate: of Django; what it does is modelled from what the commands     *)
(* after it need.                                                          *)

\* The plan is read before it is applied.
PlanMigrations(c) ==
    /\ At(c, "migrate")
    /\ Goes(c, IF migrated THEN AfterCommand("migrate") ELSE "apply")
    /\ UNCHANGED <<migrated, groups, admin, abandoned, deaths>>

\* Another container has done the same meanwhile: the tables exist, or the rows collide.
ApplyMigrations(c) ==
    /\ At(c, "apply")
    /\ IF migrated THEN Restarts(c) ELSE Goes(c, AfterCommand("migrate"))
    /\ migrated' = TRUE
    /\ UNCHANGED <<groups, admin, abandoned, deaths>>

-----------------------------------------------------------------------------
(* bootstrap_roles: one transaction.                                       *)

\* Mutant: what an existing group lacks is added, what it has too much stays.
RolePermissions_Added(r) ==
    IF groups[r] = Absent THEN ROLE_PERMISSION_SPECS[r]
    ELSE groups[r] \cup ROLE_PERMISSION_SPECS[r]

\* get_or_create, then set() if the group has not exactly the permissions of the spec.
RolePermissions(r) == ROLE_PERMISSION_SPECS[r]

\* A missing permission is a CommandError, which takes the whole transaction back.
BootstrapRoles(c) ==
    /\ At(c, "roles")
    /\ IF migrated
       THEN /\ groups' = [r \in RoleNames |-> RolePermissions(r)]
            /\ Goes(c, AfterCommand("roles"))
       ELSE Restarts(c) /\ UNCHANGED groups
    /\ UNCHANGED <<migrated, admin, abandoned, deaths>>

-----------------------------------------------------------------------------
(* create_default_superuser: each statement commits on its own.            *)

\* Mutant: create instead of get_or_create fails for a user that exists.
AdminObtainable_IfNew == ~admin.exists

\* get_or_create: the loser of two insertions reads the row of the winner.
AdminObtainable == TRUE

AdminGet(c) ==
    /\ At(c, "admin")
    /\ IF AdminObtainable
       THEN /\ admin' = IF admin.exists THEN admin ELSE NewAdmin
            /\ container' = [container EXCEPT ![c] =
                  [pc |-> "save_admin", created |-> ~admin.exists, seen |-> admin']]
       ELSE Restarts(c) /\ UNCHANGED admin
    /\ UNCHANGED <<migrated, groups, abandoned, deaths>>

\* Mutant: the promotion saves the whole user as it was read.
Promoted_WholeRow(seen) ==
    IF seen.is_active /\ seen.is_staff /\ seen.is_superuser THEN admin
    ELSE [seen EXCEPT !.is_active = TRUE, !.is_staff = TRUE, !.is_superuser = TRUE,
                      !.in_group = admin.in_group]

\* An existing user: the flags that were not set when it was read, and no other field.
Promoted(seen) ==
    [admin EXCEPT !.is_active = @ \/ ~seen.is_active,
                  !.is_staff = @ \/ ~seen.is_staff,
                  !.is_superuser = @ \/ ~seen.is_superuser]

AdminSave(c) ==
    /\ At(c, "save_admin")
    /\ admin' = IF container[c].created
                THEN [admin EXCEPT !.password = "default", !.is_active = TRUE,
                                   !.is_staff = TRUE, !.is_superuser = TRUE]
                ELSE Promoted(container[c].seen)
    /\ Goes(c, "join_group")
    /\ UNCHANGED <<migrated, groups, abandoned, deaths>>

\* The group joined is the one that exists, if there is one.
AdminJoin(c) ==
    /\ At(c, "join_group")
    /\ admin' = [admin EXCEPT !.in_group = @ \/ groups["admin"] # Absent]
    /\ container' = [container EXCEPT ![c] =
          [StartOfEntrypoint EXCEPT !.pc = AfterCommand("admin")]]
    /\ UNCHANGED <<migrated, groups, abandoned, deaths>>

-----------------------------------------------------------------------------
\* The container dies, or a command of its entrypoint fails, and it starts again.
Dies(c) ==
    /\ deaths > 0
    /\ deaths' = deaths - 1
    /\ abandoned' = (abandoned \/ (At(c, "save_admin") /\ container[c].created))
    /\ Restarts(c)
    /\ UNCHANGED <<migrated, groups, admin>>

BootStep(c) ==
    \/ PlanMigrations(c)
    \/ ApplyMigrations(c)
    \/ BootstrapRoles(c)
    \/ AdminGet(c)
    \/ AdminSave(c)
    \/ AdminJoin(c)

Serving(c) == At(c, "serving")

-----------------------------------------------------------------------------
(* Correctness.                                                            *)

EntrypointPcs ==
    {"migrate", "apply", "roles", "admin",
     "save_admin", "join_group", "serving"}

\* The types of the variables; there is no user without its table.
BootTypeOK ==
    /\ migrated \in BOOLEAN
    /\ groups \in GroupSets
    /\ admin \in AdminRows
    /\ container \in [Containers -> [pc : EntrypointPcs, created : BOOLEAN, seen : AdminRows]]
    /\ abandoned \in BOOLEAN
    /\ deaths \in 0 .. MaxDeaths
    /\ admin.exists => migrated

\* A container serves only when every group holds exactly the permissions of its role,
\* whatever an earlier version left in the database: none is missing and none is left
\* over (bootstrap_roles.py:55-63).
RolesExact ==
    \A c \in Containers : Serving(c) => groups = ROLE_PERMISSION_SPECS

\* A container serves only when the user "admin" is an active superuser in the group of
\* administrators, whichever containers created and promoted it, in whatever order
\* their statements came (create_default_superuser.py:11-47).
ServingAdmin ==
    \A c \in Containers :
        Serving(c) => /\ admin.exists /\ admin.is_active /\ admin.is_staff
                      /\ admin.is_superuser /\ admin.in_group

\* The user that was created gets its password, unless the container that created it
\* ended before the save (create_default_superuser.py:11-25).
AdminGetsPassword ==
    admin.exists /\ admin.password = "none" =>
        \/ abandoned
        \/ \E c \in Containers : At(c, "save_admin") /\ container[c].created

\* No start of a container changes a password the user already has
\* (create_default_superuser.py:26-42).
AdminPasswordKept ==
    [][admin.password # "none" => admin'.password = admin.password]_bootVars

\* Containers that start together get in each other's way, and still every one of them
\* serves in the end.
StartupCompletes == <>[](\A c \in Containers : Serving(c))

=============================================================================
