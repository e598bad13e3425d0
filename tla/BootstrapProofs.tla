--------------------------- MODULE BootstrapProofs ---------------------------
(***************************************************************************)
(* Theorems about the start of the containers, for any number of them and  *)
(* of interruptions, and for whatever database they find.                  *)
(***************************************************************************)
EXTENDS Deployment, TLAPS

USE BootBounds

-----------------------------------------------------------------------------
(* What a step can do, apart from the statement of the command it is in.   *)

LEMMA NextBootCases ==
    ASSUME [Next]_vars
    PROVE  \/ \E c \in Containers : BootStep(c) \/ Dies(c)
           \/ UNCHANGED <<migrated, groups, admin, container, abandoned>>
                 /\ (UNCHANGED deaths \/ (deaths > 0 /\ deaths' = deaths - 1))
  <1>1. CASE \E c \in Containers : Start(c) \/ ContainerDies(c)
    BY <1>1 DEF Start, ContainerDies
  <1>2. CASE \E t \in Threads : Call(t) \/ ThreadStep(t)
    BY <1>2 DEF Call, ThreadStep, bootVars
  <1>3. CASE \E p \in Processes : WorkerDies(p)
    BY <1>3 DEF WorkerDies
  <1>4. CASE UNCHANGED vars
    BY <1>4 DEF vars, bootVars
  <1> QED BY <1>1, <1>2, <1>3, <1>4 DEF Next

LEMMA SpecsAreGroups ==
    /\ ROLE_PERMISSION_SPECS \in GroupSets
    /\ ROLE_PERMISSION_SPECS["admin"] # Absent
    /\ [r \in RoleNames |-> RolePermissions(r)] = ROLE_PERMISSION_SPECS
  <1>1. RoleNames = {"admin", "editor", "viewer"}
    BY DEF RoleNames, ROLE_PERMISSION_SPECS
  <1>2. ROLE_PERMISSION_SPECS = [r \in RoleNames |-> ROLE_PERMISSION_SPECS[r]]
    BY DEF RoleNames, ROLE_PERMISSION_SPECS
  <1>3. \A r \in RoleNames : ROLE_PERMISSION_SPECS[r] \in SUBSET Permissions
    BY DEF Permissions
  <1>4. ROLE_PERMISSION_SPECS \in GroupSets
    BY <1>2, <1>3 DEF GroupSets
  <1>5. ROLE_PERMISSION_SPECS["admin"] # Absent
    BY <1>1, AbsentAssumption
  <1>6. [r \in RoleNames |-> RolePermissions(r)] = ROLE_PERMISSION_SPECS
    BY <1>2 DEF RolePermissions
  <1> QED BY <1>4, <1>5, <1>6

-----------------------------------------------------------------------------
(* Types.                                                                  *)

LEMMA AdminConstants == NoAdmin \in AdminRows /\ NewAdmin \in AdminRows
  BY DEF NoAdmin, NewAdmin, AdminRows

ContainerRow == [pc : EntrypointPcs, created : BOOLEAN, seen : AdminRows]

LEMMA StartOfEntrypointType == StartOfEntrypoint \in ContainerRow
  BY AdminConstants DEF StartOfEntrypoint, ContainerRow, EntrypointPcs

LEMMA RestartsType ==
    ASSUME BootTypeOK, NEW c, Restarts(c)
    PROVE  container' \in [Containers -> ContainerRow]
  BY StartOfEntrypointType DEF BootTypeOK, Restarts, ContainerRow

LEMMA GoesType ==
    ASSUME BootTypeOK, NEW c, NEW pc \in EntrypointPcs, Goes(c, pc)
    PROVE  container' \in [Containers -> ContainerRow]
  BY DEF BootTypeOK, Goes, ContainerRow

LEMMA CommandsType ==
    \A command \in {"migrate", "roles", "admin"} : AfterCommand(command) \in EntrypointPcs
  BY DEF AfterCommand, EntrypointPcs

LEMMA PromotedType ==
    ASSUME admin \in AdminRows, NEW seen \in AdminRows
    PROVE  Promoted(seen) \in AdminRows
  BY DEF Promoted, AdminRows

-----------------------------------------------------------------------------
(* The inductive invariant: what the commands a container has run have     *)
(* left behind, and which container, if any, is about to give the user     *)
(* "admin" its password.                                                   *)

\* The flags `seen` has are those the user has: no statement takes one back.
FlagsOf(seen) ==
    /\ seen.is_active => admin.is_active
    /\ seen.is_staff => admin.is_staff
    /\ seen.is_superuser => admin.is_superuser

Privileged == admin.exists /\ admin.is_active /\ admin.is_staff /\ admin.is_superuser

Creating(c) == At(c, "save_admin") /\ container[c].created

Progressed(c) ==
    /\ container[c].pc \notin {"migrate", "apply"} => migrated
    /\ container[c].pc \notin {"migrate", "apply", "roles"} => groups = ROLE_PERMISSION_SPECS
    /\ At(c, "save_admin") => admin.exists
    /\ At(c, "save_admin") /\ ~container[c].created => FlagsOf(container[c].seen)
    /\ container[c].pc \in {"join_group", "serving"} => Privileged
    /\ At(c, "serving") => admin.in_group

Blank == ~admin.exists => admin = NoAdmin

PasswordPending ==
    /\ Blank
    /\ \A c \in Containers : Creating(c) => admin.password = "none"
    /\ \A c, d \in Containers : Creating(c) /\ Creating(d) => c = d

BootInv ==
    /\ BootTypeOK
    /\ \A c \in Containers : Progressed(c)
    /\ PasswordPending
    /\ AdminGetsPassword

LEMMA BootStepTypes ==
    ASSUME BootTypeOK, NEW c \in Containers, Progressed(c), BootStep(c)
    PROVE  BootTypeOK'
  <1>1. CASE PlanMigrations(c)
    <2>1. container' \in [Containers -> ContainerRow]
      BY <1>1, GoesType, CommandsType DEF PlanMigrations, EntrypointPcs
    <2> QED BY <1>1, <2>1 DEF PlanMigrations, BootTypeOK, ContainerRow
  <1>2. CASE ApplyMigrations(c)
    <2>1. container' \in [Containers -> ContainerRow]
      BY <1>2, GoesType, RestartsType, CommandsType DEF ApplyMigrations
    <2> QED BY <1>2, <2>1 DEF ApplyMigrations, BootTypeOK, ContainerRow
  <1>3. CASE BootstrapRoles(c)
    <2>1. container' \in [Containers -> ContainerRow]
      BY <1>3, GoesType, RestartsType, CommandsType DEF BootstrapRoles
    <2>2. groups' \in GroupSets
      BY <1>3, SpecsAreGroups DEF BootstrapRoles, BootTypeOK
    <2> QED BY <1>3, <2>1, <2>2 DEF BootstrapRoles, BootTypeOK, ContainerRow
  <1>4. CASE AdminGet(c)
    <2>1. admin' \in AdminRows /\ migrated
      BY <1>4, AdminConstants DEF AdminGet, AdminObtainable, BootTypeOK, Progressed, At
    <2>2. container' \in [Containers -> ContainerRow]
      <3>1. [pc |-> "save_admin", created |-> ~admin.exists, seen |-> admin']
               \in ContainerRow
        BY <2>1 DEF ContainerRow, EntrypointPcs, BootTypeOK, AdminRows
      <3> QED BY <1>4, <3>1 DEF AdminGet, AdminObtainable, BootTypeOK, ContainerRow
    <2> QED BY <1>4, <2>1, <2>2 DEF AdminGet, BootTypeOK, ContainerRow
  <1>5. CASE AdminSave(c)
    <2>1. container' \in [Containers -> ContainerRow]
      BY <1>5, GoesType DEF AdminSave, EntrypointPcs
    <2>2. CASE container[c].created
      <3>1. admin' \in AdminRows
        BY <1>5, <2>2 DEF AdminSave, BootTypeOK, AdminRows
      <3> QED BY <1>5, <2>1, <2>2, <3>1 DEF AdminSave, BootTypeOK, ContainerRow, AdminRows
    <2>3. CASE ~container[c].created
      <3>1. admin' = Promoted(container[c].seen) /\ container[c].seen \in AdminRows
        BY <1>5, <2>3 DEF AdminSave, BootTypeOK
      <3>2. admin' \in AdminRows
        BY <3>1, PromotedType DEF BootTypeOK
      <3>3. admin'.exists = admin.exists
        BY <3>1 DEF Promoted, BootTypeOK, AdminRows
      <3> QED BY <1>5, <2>1, <3>2, <3>3 DEF AdminSave, BootTypeOK, ContainerRow
    <2> QED BY <2>2, <2>3
  <1>6. CASE AdminJoin(c)
    <2>1. container' \in [Containers -> ContainerRow]
      BY <1>6, StartOfEntrypointType, CommandsType
      DEF AdminJoin, BootTypeOK, ContainerRow
    <2>2. admin' \in AdminRows /\ (admin'.exists => migrated)
      BY <1>6 DEF AdminJoin, BootTypeOK, AdminRows
    <2> QED BY <1>6, <2>1, <2>2 DEF AdminJoin, BootTypeOK, ContainerRow
  <1> QED BY <1>1, <1>2, <1>3, <1>4, <1>5, <1>6 DEF BootStep

LEMMA DiesTypes ==
    ASSUME BootTypeOK, NEW c \in Containers, Dies(c)
    PROVE  BootTypeOK'
  <1>1. container' \in [Containers -> ContainerRow]
    BY RestartsType DEF Dies
  <1> QED BY <1>1 DEF Dies, BootTypeOK, ContainerRow

-----------------------------------------------------------------------------
(* A step of one container leaves the others where they are, and takes     *)
(* nothing back.                                                           *)

Grows ==
    /\ migrated => migrated'
    /\ groups = ROLE_PERMISSION_SPECS => groups' = ROLE_PERMISSION_SPECS
    /\ admin.exists => admin'.exists
    /\ admin.is_active => admin'.is_active
    /\ admin.is_staff => admin'.is_staff
    /\ admin.is_superuser => admin'.is_superuser
    /\ admin.in_group => admin'.in_group

LEMMA BootStepGrows ==
    ASSUME BootTypeOK, Blank, NEW c \in Containers, BootStep(c) \/ Dies(c)
    PROVE  Grows
  <1>1. CASE Dies(c) \/ PlanMigrations(c) \/ ApplyMigrations(c)
    BY <1>1 DEF Dies, PlanMigrations, ApplyMigrations, Grows
  <1>2. CASE BootstrapRoles(c)
    BY <1>2, SpecsAreGroups DEF BootstrapRoles, Grows
  <1>3. CASE AdminGet(c)
    <2>1. UNCHANGED <<migrated, groups>>
      BY <1>3 DEF AdminGet
    <2>2. CASE admin.exists
      BY <1>3, <2>1, <2>2 DEF AdminGet, AdminObtainable, Grows
    <2>3. CASE ~admin.exists
      BY <2>1, <2>3 DEF Blank, NoAdmin, Grows
    <2> QED BY <2>2, <2>3
  <1>4. CASE AdminSave(c)
    <2>1. admin \in AdminRows
      BY DEF BootTypeOK
    <2>2. UNCHANGED <<migrated, groups>>
      BY <1>4 DEF AdminSave
    <2>3. CASE container[c].created
      BY <1>4, <2>1, <2>2, <2>3 DEF AdminSave, Grows, AdminRows
    <2>4. CASE ~container[c].created
      BY <1>4, <2>1, <2>2, <2>4 DEF AdminSave, Promoted, Grows, AdminRows
    <2> QED BY <2>3, <2>4
  <1>5. CASE AdminJoin(c)
    <2>1. admin \in AdminRows
      BY DEF BootTypeOK
    <2> QED BY <1>5, <2>1 DEF AdminJoin, Grows, AdminRows
  <1> QED BY <1>1, <1>2, <1>3, <1>4, <1>5 DEF BootStep

LEMMA OthersStay ==
    ASSUME BootTypeOK, NEW c \in Containers, BootStep(c) \/ Dies(c),
           NEW d \in Containers, d # c
    PROVE  container'[d] = container[d]
  BY DEF BootTypeOK, BootStep, PlanMigrations, ApplyMigrations, BootstrapRoles, AdminGet,
         AdminSave, AdminJoin, Dies, Goes, Restarts, AdminObtainable

LEMMA OthersProgressed ==
    ASSUME BootTypeOK, Blank, NEW c \in Containers, BootStep(c) \/ Dies(c),
           NEW d \in Containers, d # c, Progressed(d)
    PROVE  Progressed(d)'
  BY BootStepGrows, OthersStay DEF Progressed, Grows, At, FlagsOf, Privileged

-----------------------------------------------------------------------------
(* The container that takes the step has done what its place says.         *)

LEMMA AfterCommandIs ==
    /\ AfterCommand("migrate") = "roles"
    /\ AfterCommand("roles") = "admin"
    /\ AfterCommand("admin") = "serving"
  BY DEF AfterCommand

LEMMA RestartsProgressed ==
    ASSUME BootTypeOK, NEW c \in Containers, Restarts(c)
    PROVE  Progressed(c)'
  BY DEF BootTypeOK, Restarts, StartOfEntrypoint, Progressed, At

LEMMA GoesTo ==
    ASSUME BootTypeOK, NEW c \in Containers, NEW pc, Goes(c, pc)
    PROVE  /\ container'[c].pc = pc
           /\ container'[c].created = container[c].created
           /\ container'[c].seen = container[c].seen
  BY DEF BootTypeOK, Goes

LEMMA OwnProgressed ==
    ASSUME BootTypeOK, NEW c \in Containers, Progressed(c), BootStep(c)
    PROVE  Progressed(c)'
  <1>1. CASE PlanMigrations(c)
    <2>1. container'[c].pc \in {"roles", "apply"}
          /\ (container'[c].pc = "roles" => migrated)
      BY <1>1, GoesTo, AfterCommandIs DEF PlanMigrations
    <2> QED BY <1>1, <2>1 DEF PlanMigrations, Progressed, At
  <1>2. CASE ApplyMigrations(c)
    <2>1. CASE migrated
      BY <1>2, <2>1, RestartsProgressed DEF ApplyMigrations
    <2>2. CASE ~migrated
      <3>1. container'[c].pc = "roles" /\ migrated'
        BY <1>2, <2>2, GoesTo, AfterCommandIs DEF ApplyMigrations
      <3> QED BY <3>1 DEF Progressed, At
    <2> QED BY <2>1, <2>2
  <1>3. CASE BootstrapRoles(c)
    <2>1. CASE migrated
      <3>1. container'[c].pc = "admin"
        BY <1>3, <2>1, GoesTo, AfterCommandIs DEF BootstrapRoles
      <3>2. groups' = ROLE_PERMISSION_SPECS /\ migrated'
        BY <1>3, <2>1, SpecsAreGroups DEF BootstrapRoles
      <3> QED BY <3>1, <3>2 DEF Progressed, At
    <2>2. CASE ~migrated
      BY <1>3, <2>2, RestartsProgressed DEF BootstrapRoles
    <2> QED BY <2>1, <2>2
  <1>4. CASE AdminGet(c)
    <2>1. container'[c] = [pc |-> "save_admin", created |-> ~admin.exists, seen |-> admin']
      BY <1>4 DEF AdminGet, AdminObtainable, BootTypeOK
    <2>2. admin'.exists
      BY <1>4 DEF AdminGet, AdminObtainable, NewAdmin, NoAdmin
    <2>3. migrated' /\ groups' = ROLE_PERMISSION_SPECS
      BY <1>4 DEF AdminGet, Progressed, At
    <2> QED BY <2>1, <2>2, <2>3 DEF Progressed, At, FlagsOf
  <1>5. CASE AdminSave(c)
    <2>1. container'[c].pc = "join_group"
      BY <1>5, GoesTo DEF AdminSave
    <2>2. migrated' /\ groups' = ROLE_PERMISSION_SPECS
      BY <1>5 DEF AdminSave, Progressed, At
    <2>3. admin \in AdminRows /\ container[c].seen \in AdminRows /\ admin.exists
      BY <1>5 DEF BootTypeOK, AdminSave, Progressed, At
    <2>4. CASE container[c].created
      <3>1. Privileged'
        BY <1>5, <2>3, <2>4 DEF AdminSave, Privileged, AdminRows
      <3> QED BY <2>1, <2>2, <3>1 DEF Progressed, At
    <2>5. CASE ~container[c].created
      <3>1. FlagsOf(container[c].seen)
        BY <1>5, <2>5 DEF AdminSave, Progressed
      <3>2. Privileged'
        BY <1>5, <2>3, <2>5, <3>1 DEF AdminSave, Promoted, Privileged, FlagsOf, AdminRows
      <3> QED BY <2>1, <2>2, <3>2 DEF Progressed, At
    <2> QED BY <2>4, <2>5
  <1>6. CASE AdminJoin(c)
    <2>1. container'[c].pc = "serving"
      BY <1>6, AfterCommandIs DEF AdminJoin, BootTypeOK, StartOfEntrypoint
    <2>2. migrated' /\ groups' = ROLE_PERMISSION_SPECS /\ groups = ROLE_PERMISSION_SPECS
          /\ Privileged
      BY <1>6 DEF AdminJoin, Progressed, At
    <2>3. admin \in AdminRows
      BY DEF BootTypeOK
    <2>4. Privileged' /\ admin'.in_group
      BY <1>6, <2>2, <2>3, SpecsAreGroups DEF AdminJoin, Privileged, AdminRows
    <2> QED BY <2>1, <2>2, <2>4 DEF Progressed, At
  <1> QED BY <1>1, <1>2, <1>3, <1>4, <1>5, <1>6 DEF BootStep

-----------------------------------------------------------------------------
(* The password.                                                           *)

LEMMA BlankStep ==
    ASSUME BootTypeOK, Blank, NEW c \in Containers, Progressed(c), BootStep(c) \/ Dies(c)
    PROVE  Blank'
  <1>1. CASE admin.exists
    BY <1>1, BootStepGrows DEF Grows, Blank
  <1>2. CASE ~admin.exists /\ ~AdminGet(c)
    BY <1>2 DEF BootStep, PlanMigrations, ApplyMigrations, BootstrapRoles, AdminSave, AdminJoin,
                Dies, Progressed, Privileged, At, Blank
  <1>3. CASE ~admin.exists /\ AdminGet(c)
    BY <1>3 DEF AdminGet, AdminObtainable, NewAdmin, NoAdmin, Blank
  <1> QED BY <1>1, <1>2, <1>3

LEMMA PasswordStep ==
    ASSUME BootInv, NEW c \in Containers, BootStep(c) \/ Dies(c)
    PROVE  /\ PasswordPending'
           /\ AdminGetsPassword'
           /\ admin.password # "none" => admin'.password = admin.password
  <1> USE DEF BootInv
  <1>0. Blank' /\ admin \in AdminRows
    BY BlankStep DEF PasswordPending, BootTypeOK
  <1>1. \A d \in Containers \ {c} : Creating(d)' <=> Creating(d)
    BY OthersStay DEF Creating, At
  <1>2. Creating(c)' => At(c, "admin")
    BY GoesTo, AfterCommandIs
    DEF Creating, At, BootStep, PlanMigrations, ApplyMigrations, BootstrapRoles, AdminGet,
        AdminSave, AdminJoin, Dies, Restarts, StartOfEntrypoint, BootTypeOK
  <1>3. CASE ~Creating(c)' /\ ~Creating(c) /\ admin'.password = admin.password
             /\ admin'.exists = admin.exists /\ (abandoned => abandoned')
    <2>1. \A d \in Containers : Creating(d)' <=> Creating(d)
      BY <1>1, <1>3
    <2>2. AdminGetsPassword'
      BY <1>3, <2>1 DEF AdminGetsPassword, Creating
    <2> QED BY <1>0, <1>3, <2>1, <2>2 DEF PasswordPending
  <1>4. CASE AdminGet(c)
    <2>1. container'[c] = [pc |-> "save_admin", created |-> ~admin.exists, seen |-> admin']
      BY <1>4 DEF AdminGet, AdminObtainable, BootTypeOK
    <2>2. container'[c].created = (~admin.exists)
      BY <2>1
    <2>3. CASE admin.exists
      <3>1. admin' = admin /\ ~Creating(c)' /\ ~Creating(c) /\ abandoned' = abandoned
        <4>1. ~container'[c].created
          BY <2>2, <2>3
        <4> QED BY <1>4, <2>3, <4>1 DEF AdminGet, AdminObtainable, Creating, At
      <3> QED BY <1>3, <3>1
    <2>4. CASE ~admin.exists
      <3>1. admin' = NewAdmin /\ Creating(c)' /\ NewAdmin.password = "none" /\ NewAdmin.exists
        <4>1. container'[c].created
          BY <2>2, <2>4
        <4>2. container'[c].pc = "save_admin"
          BY <2>1
        <4> QED BY <1>4, <2>4, <4>1, <4>2
                DEF AdminGet, AdminObtainable, Creating, At, NewAdmin, NoAdmin
      <3>2. \A d \in Containers \ {c} : ~Creating(d)'
        BY <1>1, <2>4 DEF Progressed, Creating
      <3>3. admin.password = "none"
        BY <2>4 DEF PasswordPending, Blank, NoAdmin
      <3>4. PasswordPending'
        BY <1>0, <3>1, <3>2 DEF PasswordPending
      <3>5. AdminGetsPassword'
        BY <3>1 DEF AdminGetsPassword, Creating
      <3> QED BY <3>3, <3>4, <3>5
    <2> QED BY <2>3, <2>4
  <1>5. CASE AdminSave(c)
    <2>1. ~Creating(c)' /\ abandoned' = abandoned
      BY <1>2, <1>5 DEF AdminSave, At
    <2>2. admin \in AdminRows
      BY DEF BootTypeOK
    <2>3. CASE Creating(c)
      <3>1. admin'.password = "default" /\ admin'.exists = admin.exists
        BY <1>5, <2>2, <2>3 DEF AdminSave, Creating, AdminRows
      <3>2. admin.exists /\ admin.password = "none"
        BY <2>3 DEF Progressed, PasswordPending, Creating
      <3>3. \A d \in Containers : ~Creating(d)'
        BY <1>1, <2>1, <2>3 DEF PasswordPending
      <3> QED BY <1>0, <3>1, <3>2, <3>3 DEF PasswordPending, AdminGetsPassword
    <2>4. CASE ~Creating(c)
      <3>1. admin'.password = admin.password /\ admin'.exists = admin.exists
        BY <1>5, <2>2, <2>4 DEF AdminSave, Promoted, Creating, AdminRows
      <3> QED BY <1>3, <2>1, <2>4, <3>1
    <2> QED BY <2>3, <2>4
  <1>6. CASE AdminJoin(c)
    <2>1. admin'.password = admin.password /\ admin'.exists = admin.exists
      BY <1>6 DEF AdminJoin, BootTypeOK, AdminRows
    <2>2. ~Creating(c) /\ ~Creating(c)' /\ abandoned' = abandoned
      BY <1>2, <1>6 DEF AdminJoin, Creating, At
    <2> QED BY <1>3, <2>1, <2>2
  <1>7. CASE PlanMigrations(c) \/ ApplyMigrations(c) \/ BootstrapRoles(c)
    <2>1. admin' = admin /\ abandoned' = abandoned /\ ~Creating(c)
      BY <1>7 DEF PlanMigrations, ApplyMigrations, BootstrapRoles, Creating, At
    <2>2. ~Creating(c)'
      BY <1>2, <1>7 DEF PlanMigrations, ApplyMigrations, BootstrapRoles, At
    <2> QED BY <1>3, <2>1, <2>2
  <1>8. CASE Dies(c)
    <2>1. admin' = admin /\ (abandoned \/ Creating(c) => abandoned')
      BY <1>8 DEF Dies, Creating
    <2>2. ~Creating(c)'
      BY <1>8 DEF Dies, Restarts, StartOfEntrypoint, Creating, At, BootTypeOK
    <2>3. \A d \in Containers : Creating(d)' => Creating(d)
      BY <1>1, <2>2
    <2>4. AdminGetsPassword'
      BY <1>1, <2>1, <2>2 DEF AdminGetsPassword, Creating
    <2> QED BY <1>0, <2>1, <2>3, <2>4 DEF PasswordPending
  <1> QED BY <1>4, <1>5, <1>6, <1>7, <1>8 DEF BootStep

-----------------------------------------------------------------------------
(* The theorems.                                                           *)

LEMMA BootInvInit == Init => BootInv
  <1> SUFFICES ASSUME Init PROVE BootInv
    OBVIOUS
  <1>1. BootTypeOK
    <2>1. PICK db \in InitialDatabases :
              migrated = db.migrated /\ groups = db.groups /\ admin = db.admin
      BY DEF Init, BootInit
    <2>2. /\ db \in [migrated : BOOLEAN, groups : GroupSets, admin : AdminRows]
          /\ db.admin.exists => db.migrated
      BY InitialDatabasesAssumption
    <2>3. /\ migrated \in BOOLEAN /\ groups \in GroupSets /\ admin \in AdminRows
          /\ admin.exists => migrated
      BY <2>1, <2>2
    <2>4. container \in [Containers -> ContainerRow]
      BY StartOfEntrypointType DEF Init, BootInit
    <2>5. deaths \in 0 .. MaxDeaths
      BY DEF Init, BootInit
    <2>6. abandoned \in BOOLEAN
      BY Zenon DEF Init, BootInit
    <2> QED BY <2>3, <2>4, <2>5, <2>6 DEF BootTypeOK, ContainerRow
  <1>2. \A c \in Containers : Progressed(c) /\ ~Creating(c)
    BY DEF Init, BootInit, StartOfEntrypoint, Progressed, Creating, At
  <1>3. Blank /\ (admin.exists => admin.password # "none")
    BY InitialDatabasesAssumption DEF Init, BootInit, Blank
  <1> QED BY <1>1, <1>2, <1>3 DEF BootInv, PasswordPending, AdminGetsPassword

LEMMA BootInvStep == BootInv /\ [Next]_vars => BootInv'
  <1> SUFFICES ASSUME BootInv, [Next]_vars PROVE BootInv'
    OBVIOUS
  <1>1. ASSUME NEW c \in Containers, BootStep(c) \/ Dies(c) PROVE BootInv'
    <2>1. BootTypeOK'
      BY <1>1, BootStepTypes, DiesTypes DEF BootInv
    <2>2. ASSUME NEW d \in Containers, d # c PROVE Progressed(d)'
      BY <1>1, <2>2, OthersProgressed DEF BootInv, PasswordPending
    <2>3. Progressed(c)'
      BY <1>1, OwnProgressed, RestartsProgressed DEF BootInv, Dies
    <2>4. PasswordPending' /\ AdminGetsPassword'
      BY <1>1, PasswordStep
    <2> QED BY <2>1, <2>2, <2>3, <2>4 DEF BootInv
  <1>2. CASE UNCHANGED <<migrated, groups, admin, container, abandoned>>
               /\ (UNCHANGED deaths \/ (deaths > 0 /\ deaths' = deaths - 1))
    <2>1. BootTypeOK'
      BY <1>2 DEF BootInv, BootTypeOK
    <2>2. \A c \in Containers : Progressed(c)'
      BY <1>2 DEF BootInv, Progressed, At, FlagsOf, Privileged
    <2>3. PasswordPending' /\ AdminGetsPassword'
      BY <1>2 DEF BootInv, PasswordPending, Blank, AdminGetsPassword, Creating, At
    <2> QED BY <2>1, <2>2, <2>3 DEF BootInv
  <1> QED BY <1>1, <1>2, NextBootCases

LEMMA BootInvCorrect == Spec => []BootInv
  BY BootInvInit, BootInvStep, PTL DEF Spec

\* The variables of the bootstrap keep their types, and there is no user "admin" without
\* the table of the users, whatever the containers do to each other.
THEOREM BootTypesCorrect == Spec => []BootTypeOK
  <1>1. BootInv => BootTypeOK
    BY DEF BootInv
  <1> QED BY <1>1, BootInvCorrect, PTL

\* A container that serves finds in every role's group the permissions of the role, no
\* more and no fewer, however many containers start and are interrupted.
THEOREM RolesCorrect == Spec => []RolesExact
  <1>1. BootInv => RolesExact
    BY DEF BootInv, Progressed, RolesExact, Serving, At
  <1> QED BY <1>1, BootInvCorrect, PTL

\* A container that serves finds the user "admin" an active superuser and administrator.
THEOREM AdminCorrect == Spec => []ServingAdmin
  <1>1. BootInv => ServingAdmin
    BY DEF BootInv, Progressed, Privileged, ServingAdmin, Serving, At
  <1> QED BY <1>1, BootInvCorrect, PTL

\* The user "admin" waits for its password only while the one container that created it
\* is about to save it, or after that container was interrupted there.
THEOREM PasswordsArrive == Spec => []AdminGetsPassword
  <1>1. BootInv => AdminGetsPassword
    BY DEF BootInv
  <1> QED BY <1>1, BootInvCorrect, PTL

\* No start of any container changes the password the user "admin" has.
THEOREM PasswordsKept == Spec => AdminPasswordKept
  <1>1. BootInv /\ [Next]_vars
          => [admin.password # "none" => admin'.password = admin.password]_bootVars
    BY PasswordStep, NextBootCases
  <1> QED BY <1>1, BootInvCorrect, PTL DEF Spec, AdminPasswordKept

=============================================================================
