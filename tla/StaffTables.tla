----------------------------- MODULE StaffTables -----------------------------
(***************************************************************************)
(* What the modules Admins, Roles and Seeder share: the tables admin_users,*)
(* role, role_permissions and permission, the requests under way, and what *)
(* the database does when their statements meet.                           *)
(*                                                                         *)
(* A request is a record.  Its pc is the statement that comes next, copy   *)
(* the entity it has read, plan what save() has decided to write.  The     *)
(* tables hold what is committed: a request whose pc is "commit" has done  *)
(* its writes, keeps their locks, and nobody else sees them.               *)
(*                                                                         *)
(* A role created by a request is known by the request; so is a password   *)
(* or a profile set by one.                                                *)
(***************************************************************************)
EXTENDS Access, Pagination, TLC

CONSTANTS
    Requests,   \* one-shot requests
    Instances,  \* processes of the API
    Emails,     \* addresses of admins
    Root,       \* ROOT_ADMIN_EMAIL
    Super,      \* the seeded role
    Clerk,      \* a role without admins
    Invited,    \* the address of an admin who has been invited
    HandMade,   \* permissions beside the defaults
    MaxFaults   \* crashes, failed publications and fetches of rates

ASSUME RequestsAssumption == IsFiniteSet(Requests) /\ MaxFaults \in Nat
ASSUME RootAssumption == {Root, Invited} \subseteq Emails /\ Root # Invited /\ IsFiniteSet(Emails)
ASSUME RolesAssumption == Super # Clerk /\ {Super, Clerk} \cap Requests = {}
ASSUME NothingAssumption ==
    None \notin Requests \cup {Root, "ok", "refused", "error", "lost", "pending", "done", "failed"}

VARIABLES
    admin,      \* admin_users, by email: status, role, password, profile, attempts, created_at
    role,       \* role and role_permissions, by id: slug, is_default, permissions
    permission, \* the names in the table permission
    mailed,     \* addresses an invitation has been published for
    instance,   \* what each process does: seeding, up, down, failed
    found,      \* the permissions its seeding has found
    req,        \* the requests
    met,        \* pairs of requests that overlapped
    faults      \* crashes, failed publications and fetches of rates so far

tables    == <<admin, role, permission>>
processes == <<instance, found>>

Roles == {Super, Clerk} \cup Requests
Names == DefaultPermissions \cup HandMade

-----------------------------------------------------------------------------
(* Requests. *)

InFlight(r) == req[r] # None /\ req[r].pc # "done"
At(r, op, pc) == InFlight(r) /\ req[r].op = op /\ req[r].pc = pc

Overlapped(q, r) == {q, r} \in met

\* Somebody whose token is good and whose role has the permission a handler demands.
Caller(a, handler) ==
    /\ admin[a] # None
    /\ ValidToken(admin[a].status, TRUE)
    /\ PermissionsGuard(role[admin[a].role].permissions, handler)

Authorized(handler) == \E a \in Emails : Caller(a, handler) /\ admin[a].status = "active"

\* A request that the guards let through begins, and with it its transaction.
Begin(r, op, arg, pc) ==
    /\ req[r] = None
    /\ \E i \in Instances :
          /\ instance[i] = "up"
          /\ req' = [req EXCEPT ![r] =
                [op |-> op, arg |-> arg, on |-> i, pc |-> pc,
                 start |-> Cardinality({q \in Requests : req[q] # None /\ req[q].op = op}),
                 copy |-> None, plan |-> None, mail |-> None, insertion |-> None,
                 answer |-> None]]
    /\ met' = met \cup {{q, r} : q \in {q \in Requests : InFlight(q)}}
    /\ UNCHANGED <<tables, mailed, processes, faults>>

\* The record f with these fields changed: @@ of TLC, of which the provers know nothing.
Over(changes, f) ==
    [c \in DOMAIN changes \cup DOMAIN f |-> IF c \in DOMAIN changes THEN changes[c] ELSE f[c]]

\* What is left of a request that is over.
Finished(answer) ==
    [pc |-> "done", on |-> None, copy |-> None, plan |-> None, mail |-> None,
     insertion |-> None, answer |-> answer]

With(r, changes) == [req EXCEPT ![r] = Over(changes, @)]
Answered(r, answer) == With(r, Finished(answer))

Continue(r, changes) ==
    /\ req' = With(r, changes)
    /\ UNCHANGED <<tables, mailed, processes, met, faults>>

\* It is answered, and nothing of it stays: refused, or its transaction rolled back.
Refuse(r) == req' = Answered(r, "refused") /\ UNCHANGED <<tables, mailed, processes, met, faults>>
Error(r)  == req' = Answered(r, "error") /\ UNCHANGED <<tables, mailed, processes, met, faults>>

\* A process ends: its sessions are closed and the transactions in them rolled back.
\* "failed" stays, until somebody starts it again.
Ends(i, how) ==
    /\ instance' = [instance EXCEPT ![i] = how]
    /\ found' = [found EXCEPT ![i] = {}]
    /\ req' = [r \in Requests |->
                 IF InFlight(r) /\ req[r].on = i
                 THEN Over(Finished("lost"), req[r])
                 ELSE req[r]]
    /\ UNCHANGED <<tables, mailed, met>>

-----------------------------------------------------------------------------
(* The database. *)

\* Requests with writes that are not committed, and the seeding ones.
Open(r)    == InFlight(r) /\ req[r].pc = "commit"
Seeding(i) == instance[i] \in {"find", "save", "commit"}

\* The role a request has written, and the slug it has given to one.
WrittenRole(r) == IF req[r].op = "createRole" THEN r ELSE req[r].arg.role
RoleWriter(r)  == Open(r) /\ req[r].op \in {"createRole", "updateRole"} /\ req[r].plan # None

\* Another transaction has written, or inserted an admin of, role x.
RoleLocked(r, x) ==
    \E q \in Requests \ {r} : RoleWriter(q) /\ WrittenRole(q) = x

\* UQ_35c9b140: the slug belongs to another role; a transaction holds its key.
SlugTaken(x, slug)  == \E y \in Roles \ {x} : role[y] # None /\ role[y].slug = slug
SlugLocked(r, slug) == \E q \in Requests \ {r} : RoleWriter(q) /\ req[q].plan.slug = slug

\* An invitation has inserted an admin, not committed.
Inserted(r) == InFlight(r) /\ req[r].op = "inviteAdmin" /\ req[r].insertion = "done"

\* FK_79ae6a00: a permission is in use.  A transaction has an uncommitted row that refers
\* to it, or has upserted it.
InUse(p) == \E x \in Roles : role[x] # None /\ p \in role[x].permissions
PermissionLocked(p) ==
    \/ \E q \in Requests : RoleWriter(q) /\ p \in req[q].plan.adds \cup req[q].plan.dels
    \/ \E i \in Instances : Seeding(i) /\ p \in DefaultPermissions
    \/ \E i \in Instances : instance[i] = "commit" /\ p \in found[i]

=============================================================================
