--------------------------------- MODULE Roles ---------------------------------
(***************************************************************************)
(* roles.service.ts and permissions.service.ts.                            *)
(*                                                                         *)
(* update reads the role outside its transaction, works out the            *)
(* permissions it shall have, and saves the whole entity: save() selects   *)
(* the role and its role_permissions once more, and writes the difference. *)
(* A role that is no longer there is inserted again.  The rows a save      *)
(* writes are written in one step: nobody sees them before the commit, and *)
(* the locks of the first statement are still held at the last.            *)
(*                                                                         *)
(* No route reaches create, createMany and remove of the permissions.      *)
(***************************************************************************)
EXTENDS StaffTables

\* A row of role, with its permissions.
NewRole(slug, is_default, permissions) ==
    [slug |-> slug, is_default |-> is_default, permissions |-> permissions]

\* What save writes: an INSERT of the role or not, a new slug or None, and the rows of
\* role_permissions that come and go.
Nothing(plan) == ~plan.new /\ plan.slug = None /\ plan.adds = {} /\ plan.dels = {}

-----------------------------------------------------------------------------
(* create. *)

CreateRole(r, slug, permissions) ==
    /\ Authorized("createRole")
    /\ Begin(r, "createRole", [slug |-> slug, permissions |-> permissions], "check")

\* findOneBy of the slug, findMany of the permissions.
CheckNewRole(r) ==
    LET arg == req[r].arg
    IN  /\ At(r, "createRole", "check")
        /\ IF (\E x \in Roles : role[x] # None /\ role[x].slug = arg.slug)
              \/ ~(arg.permissions \subseteq permission)
           THEN Refuse(r)
           ELSE Continue(r, [pc |-> "write",
                   plan |-> [new |-> TRUE, slug |-> arg.slug, adds |-> arg.permissions, dels |-> {}]])

-----------------------------------------------------------------------------
(* update. *)

\* edit: a slug or None, the permissions to add and those to remove.
UpdateRole(r, x, edit) ==
    /\ Authorized("updateRole")
    /\ Begin(r, "updateRole", Over([role |-> x], edit), "check")

ReadRole(r) ==
    LET x == req[r].arg.role
    IN  /\ At(r, "updateRole", "check")
        /\ IF role[x] = None
           THEN Refuse(r)
           ELSE IF role[x].is_default
           THEN Refuse(r)
           ELSE Continue(r, [pc |-> "names", copy |-> role[x]])

\* Mutant: The permissions of the payload replace the role's.
ReadNamesOnly(r) ==
    LET arg == req[r].arg
        copy == req[r].copy
    IN  /\ At(r, "updateRole", "names")
        /\ Continue(r, [pc |-> "select", copy |-> NewRole(copy.slug, FALSE, arg.adds \ arg.dels)])

\* The name is free, the permissions exist; what the role shall be.
ReadNames(r) ==
    LET arg == req[r].arg
        copy == req[r].copy
    IN  /\ At(r, "updateRole", "names")
        /\ IF (arg.slug # None /\ SlugTaken(arg.role, arg.slug))
              \/ ~(arg.adds \cup arg.dels \subseteq permission)
           THEN Refuse(r)
           ELSE Continue(r, [pc |-> "select",
                   copy |-> NewRole(IF arg.slug = None THEN copy.slug ELSE arg.slug, FALSE,
                                    (copy.permissions \cup arg.adds) \ arg.dels)])

\* save: the SELECT, and the difference.
SelectRole(r) ==
    LET copy == req[r].copy
        row  == role[req[r].arg.role]
        plan == IF row = None
                THEN [new |-> TRUE, slug |-> copy.slug, adds |-> copy.permissions, dels |-> {}]
                ELSE [new |-> FALSE,
                      slug |-> IF copy.slug = row.slug THEN None ELSE copy.slug,
                      adds |-> copy.permissions \ row.permissions,
                      dels |-> row.permissions \ copy.permissions]
    IN  /\ At(r, "updateRole", "select")
        /\ Continue(r, [pc |-> IF Nothing(plan) THEN "commit" ELSE "write", copy |-> None,
                        plan |-> IF Nothing(plan) THEN None ELSE plan])

-----------------------------------------------------------------------------
(* What both write, and COMMIT. *)

\* The keys that can be violated: the slug, the id, those of role_permissions, and the
\* two that role_permissions refers to.
Violated(r) ==
    LET x == WrittenRole(r)
        plan == req[r].plan
    IN  \/ plan.slug # None /\ SlugTaken(x, plan.slug)
        \/ plan.new /\ role[x] # None
        \/ ~plan.new /\ plan.adds # {} /\ role[x] = None
        \/ role[x] # None /\ plan.adds \cap role[x].permissions # {}
        \/ ~(plan.adds \subseteq permission)

WriteRole(r) ==
    /\ InFlight(r) /\ req[r].op \in {"createRole", "updateRole"} /\ req[r].pc = "write"
    /\ ~RoleLocked(r, WrittenRole(r))
    /\ req[r].plan.slug = None \/ ~SlugLocked(r, req[r].plan.slug)
    /\ IF Violated(r) THEN Error(r) ELSE Continue(r, [pc |-> "commit"])

\* Mutant: What is to be removed stays.
SavedWithoutRemovals(r) ==
    LET plan == req[r].plan
        row  == role[WrittenRole(r)]
    IN  IF plan = None \/ (row = None /\ ~plan.new) THEN row
        ELSE NewRole(IF plan.slug = None THEN row.slug ELSE plan.slug, FALSE,
                     (IF plan.new THEN {} ELSE row.permissions) \cup plan.adds)

Saved(r) ==
    LET plan == req[r].plan
        row  == role[WrittenRole(r)]
    IN  IF plan = None \/ (row = None /\ ~plan.new)
        THEN row
        ELSE IF plan.new
        THEN NewRole(plan.slug, FALSE, plan.adds)
        ELSE NewRole(IF plan.slug = None THEN row.slug ELSE plan.slug, FALSE,
                     (row.permissions \cup plan.adds) \ plan.dels)

CommitRole(r) ==
    /\ Open(r) /\ req[r].op \in {"createRole", "updateRole"}
    /\ role' = [role EXCEPT ![WrittenRole(r)] = Saved(r)]
    /\ req' = Answered(r, "ok")
    /\ UNCHANGED <<admin, permission, mailed, processes, met, faults>>

-----------------------------------------------------------------------------
(* remove, in no transaction. *)

RemoveRole(r, x) ==
    /\ Authorized("removeRole")
    /\ Begin(r, "removeRole", [role |-> x], "check")

\* findOne, with the users.
CheckRemoval(r) ==
    LET x == req[r].arg.role
    IN  /\ At(r, "removeRole", "check")
        /\ IF role[x] = None
           THEN Refuse(r)
           ELSE IF role[x].is_default \/ \E e \in Emails : admin[e] # None /\ admin[e].role = x
           THEN Refuse(r)
           ELSE Continue(r, [pc |-> "write"])

\* Mutant: No foreign key: the check of the users is all there is.
DeleteRoleUnreferenced(r) ==
    /\ At(r, "removeRole", "write")
    /\ role' = [role EXCEPT ![req[r].arg.role] = None]
    /\ req' = Answered(r, "ok")
    /\ UNCHANGED <<admin, permission, mailed, processes, met, faults>>

\* DELETE, once nobody has the row; FK_4fd00bf1 keeps a role that has got an admin.
DeleteRole(r) ==
    LET x == req[r].arg.role
    IN  /\ At(r, "removeRole", "write")
        /\ ~RoleLocked(r, x)
        /\ \A q \in Requests : Inserted(q) => req[q].arg.role # x
        /\ IF \E e \in Emails : admin[e] # None /\ admin[e].role = x
           THEN Error(r)
           ELSE /\ role' = [role EXCEPT ![x] = None]
                /\ req' = Answered(r, "ok")
                /\ UNCHANGED <<admin, permission, mailed, processes, met, faults>>

-----------------------------------------------------------------------------
(* create and createMany, and remove, of permissions. *)

CreatePermissions(r, names) == Begin(r, "createPermissions", [names |-> names], "check")

CheckNames(r) ==
    /\ At(r, "createPermissions", "check")
    /\ IF req[r].arg.names \cap permission # {}
       THEN Refuse(r)
       ELSE Continue(r, [pc |-> "write"])

\* The INSERT waits for one of the same slug; then the slug is taken.
InsertPermissions(r) ==
    LET names == req[r].arg.names
    IN  /\ At(r, "createPermissions", "write")
        /\ \A q \in Requests \ {r} :
              Open(q) /\ req[q].op = "createPermissions" => req[q].arg.names \cap names = {}
        /\ \A i \in Instances : Seeding(i) => names \cap DefaultPermissions = {}
        /\ IF names \cap permission # {} THEN Error(r) ELSE Continue(r, [pc |-> "commit"])

CommitPermissions(r) ==
    /\ Open(r) /\ req[r].op = "createPermissions"
    /\ permission' = permission \cup req[r].arg.names
    /\ req' = Answered(r, "ok")
    /\ UNCHANGED <<admin, role, mailed, processes, met, faults>>

RemovePermission(r, p) == Begin(r, "removePermission", [name |-> p], "write")

\* DELETE, once nobody has the row.
DeletePermission(r) ==
    LET p == req[r].arg.name
    IN  /\ At(r, "removePermission", "write")
        /\ ~PermissionLocked(p)
        /\ IF p \notin permission THEN Refuse(r)
           ELSE IF InUse(p) THEN Error(r)
           ELSE /\ permission' = permission \ {p}
                /\ req' = Answered(r, "ok")
                /\ UNCHANGED <<admin, role, mailed, processes, met, faults>>

RoleStep(r) ==
    \/ CheckNewRole(r)
    \/ ReadRole(r) \/ ReadNames(r) \/ SelectRole(r) \/ WriteRole(r) \/ CommitRole(r)
    \/ CheckRemoval(r) \/ DeleteRole(r)
    \/ CheckNames(r) \/ InsertPermissions(r) \/ CommitPermissions(r)
    \/ DeletePermission(r)

=============================================================================
