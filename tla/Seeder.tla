-------------------------------- MODULE Seeder --------------------------------
(***************************************************************************)
(* seeder.service.ts: what a process does before it serves: in one         *)
(* transaction the permissions, the role and the admin of ROOT_ADMIN_EMAIL *)
(* and the countries, and after it the first exchange rates (module        *)
(* Rates).  A failure ends the process with process.exit(1).               *)
(*                                                                         *)
(* The upsert of the permissions locks every default one until the commit: *)
(* processes that start together seed one after the other.                 *)
(***************************************************************************)
EXTENDS StaffTables

Move(i, to) == instance' = [instance EXCEPT ![i] = to]

\* seedPermissions.
SeedPermissions(i) ==
    /\ instance[i] = "starting"
    /\ \A j \in Instances \ {i} : ~Seeding(j)
    /\ \A r \in Requests :
          /\ Open(r) /\ req[r].op = "createPermissions"
                => req[r].arg.names \cap DefaultPermissions = {}
          /\ RoleWriter(r) => req[r].plan.adds \cap DefaultPermissions = {}
    /\ Move(i, "find")
    /\ UNCHANGED <<tables, mailed, found, req, met, faults>>

\* Mutant: The permissions are read as they were before the upsert.
FindPermissionsTooSoon(i) ==
    /\ instance[i] = "find"
    /\ Move(i, "save")
    /\ found' = [found EXCEPT ![i] = permission]
    /\ UNCHANGED <<tables, mailed, req, met, faults>>

\* seedDefaultSuperAdminRole: findOne of the role, find of all permissions.
FindPermissions(i) ==
    /\ instance[i] = "find"
    /\ Move(i, "save")
    /\ found' = [found EXCEPT ![i] = permission \cup DefaultPermissions]
    /\ UNCHANGED <<tables, mailed, req, met, faults>>

\* Mutant: The role is inserted without a look whether it is there.
SaveSeedAnew(i) ==
    /\ instance[i] = "save"
    /\ IF role[Super] = None
       THEN Move(i, "commit") /\ UNCHANGED <<tables, mailed, found, req, met>>
       ELSE Ends(i, "failed")
    /\ UNCHANGED faults

\* Its save: the permissions the role does not have yet are to exist.  Nobody else
\* writes the role.  Then the rest of seedSuperAdmin, findOne and the INSERT, and
\* seedCountries: nobody else writes these rows, or removes them.
SaveSeed(i) ==
    /\ instance[i] = "save"
    /\ IF found[i] \subseteq permission \cup DefaultPermissions
       THEN Move(i, "commit") /\ UNCHANGED <<tables, mailed, found, req, met>>
       ELSE Ends(i, "failed")
    /\ UNCHANGED faults

\* COMMIT, which leaves an admin who is there as he is, even locked.
CommitSeed(i) ==
    /\ instance[i] = "commit"
    /\ permission' = permission \cup DefaultPermissions
    /\ role' = [role EXCEPT ![Super] =
                  [slug |-> "super-admin", is_default |-> TRUE, permissions |-> found[i]]]
    /\ admin' = IF admin[Root] # None THEN admin
                ELSE [admin EXCEPT ![Root] =
                        [status |-> "active", role |-> Super, password |-> Root, profile |-> Root,
                         attempts |-> "below", created_at |-> 0]]
    /\ Move(i, "rates")
    /\ found' = [found EXCEPT ![i] = {}]
    /\ UNCHANGED <<mailed, req, met, faults>>

\* seedExchangeRates, which asks the database, and perhaps the service and the cache.
SeedRates(i) ==
    /\ instance[i] = "rates"
    /\ \/ Move(i, "up") /\ UNCHANGED <<tables, mailed, found, req, met, faults>>
       \/ faults < MaxFaults /\ faults' = faults + 1 /\ Ends(i, "failed")

\* A process dies; somebody starts it again.
Crash(i) ==
    /\ instance[i] \notin {"down", "failed"} /\ faults < MaxFaults
    /\ faults' = faults + 1
    /\ Ends(i, "down")

Restart(i) ==
    /\ instance[i] \in {"down", "failed"}
    /\ Move(i, "starting")
    /\ UNCHANGED <<tables, mailed, found, req, met, faults>>

SeederStep(i) ==
    \/ SeedPermissions(i) \/ FindPermissions(i) \/ SaveSeed(i) \/ CommitSeed(i) \/ SeedRates(i)
    \/ Crash(i) \/ Restart(i)

=============================================================================
