--------------------------------- MODULE Staff ---------------------------------
(***************************************************************************)
(* The administration: Admins, Roles and Seeder over one database, and a   *)
(* client that lists the admins page by page.                              *)
(***************************************************************************)
EXTENDS Admins, Roles, Seeder, SequencesExt

CONSTANTS
    Slugs,     \* slugs of the names roles are created with
    Granted,   \* the permissions they are created with
    Edits,     \* what updates ask for: a slug or None, permissions to add and to remove
    Removable, \* permissions that are removed
    Entrants   \* addresses somebody signs in at

\* The rows of the tables.
AdminRecords ==
    [status : {"incomplete_profile", "active", "locked"}, role : Roles,
     password : {None, Root} \cup Requests, profile : {None, Root} \cup Requests,
     attempts : {"below", "allowed"}, created_at : Nat]
RoleRecords ==
    [slug : Slugs \cup {"super-admin", "clerk"}, is_default : BOOLEAN, permissions : SUBSET Names]


\* The requests: what they ask for, what they have read, what they are to write.
Arguments ==
    [email : Emails] \cup [email : Emails, role : Roles]
    \cup [email : Emails, current : {None, Root} \cup Requests]
    \cup [slug : Slugs, permissions : {Granted}]
    \cup {Over([role |-> x], edit) : x \in Roles, edit \in Edits}
    \cup [role : Roles] \cup [names : {HandMade}] \cup [name : Removable]
Entries ==
    {"incomplete_profile", "active", "locked", "below", "allowed", None, Root} \cup Requests
Copies == RoleRecords \cup [Columns -> Entries]
Plans ==
    [new : BOOLEAN, slug : Slugs \cup {"super-admin", "clerk", None},
     adds : SUBSET Names, dels : SUBSET Names]
    \cup UNION {[changed -> Entries] : changed \in SUBSET Columns}
RequestRecords ==
    [op : {"inviteAdmin", "createRole", "updateRole", "removeRole", "createPermissions",
           "removePermission"} \cup Updates,
     arg : Arguments, on : Instances \cup {None},
     pc : {"email", "role", "sending", "check", "reread", "names", "select", "write", "commit", "done"},
     start : Nat, copy : Copies \cup {None}, plan : Plans \cup {None},
     mail : {None, "pending", "done", "failed"}, insertion : {None, "pending", "done"},
     answer : {None, "ok", "refused", "error", "lost"}]

ASSUME RowsAssumption == None \notin AdminRecords \cup RoleRecords \cup RequestRecords \cup Plans
ASSUME AskedAssumption == Entrants \subseteq Emails
ASSUME SlugsAssumption == None \notin Slugs \cup {"super-admin", "clerk"}
ASSUME EditsAssumption ==
    \A edit \in Edits :
        DOMAIN edit = {"slug", "adds", "dels"} /\ edit.slug \in Slugs \cup {None}

VARIABLES
    pc, page, seen, first   \* the listing client, as in Listing

client == <<pc, page, seen, first>>
vars == <<tables, mailed, processes, req, met, faults, client>>

-----------------------------------------------------------------------------
(* getAdmins, without filters. *)

\* ORDER BY created_at DESC.
AdminRows ==
    LET known     == {e \in Emails : admin[e] # None}
        newer(e)  == {d \in known : admin[d].created_at > admin[e].created_at}
    IN  [k \in 1 .. Cardinality(known) |-> CHOOSE e \in known : Cardinality(newer(e)) = k - 1]

Lists == INSTANCE Listing WITH Rows <- Emails, Tied <- {}, rows <- AdminRows

\* Mutant: One page too many is skipped.
GetAdminsAfter(p) ==
    LET from == p * Limit + 1
        to   == (p + 1) * Limit
    IN  ToSet(SubSeq(AdminRows, from, IF to < Len(AdminRows) THEN to ELSE Len(AdminRows)))

\* skip and take.
GetAdmins(p) ==
    LET from == (p - 1) * Limit + 1
        to   == p * Limit
    IN  ToSet(SubSeq(AdminRows, from, IF to < Len(AdminRows) THEN to ELSE Len(AdminRows)))

Others == <<tables, mailed, processes, req, met, faults>>

AskList ==
    /\ pc = "idle" /\ Authorized("getAdmins")
    /\ pc' = "rows"
    /\ first' = ToSet(AdminRows)
    /\ UNCHANGED <<page, seen, Others>>

ReadList ==
    /\ pc = "rows"
    /\ seen' = seen \cup GetAdmins(page)
    /\ pc' = "count"
    /\ UNCHANGED <<page, first, Others>>

CountList ==
    /\ pc = "count"
    /\ LET next == paginateResult(Len(AdminRows), page, Limit).next_page
       IN  IF next = None
           THEN pc' = "done" /\ UNCHANGED page
           ELSE pc' = "rows" /\ page' = next
    /\ UNCHANGED <<seen, first, Others>>

-----------------------------------------------------------------------------

\* A database the migrations have just made; and one in use, with an admin who has been
\* invited, with somebody who has mistyped the password of the root admin as often as is
\* allowed, and with permissions made by hand before it was started, or none.
Fresh ==
    /\ admin = [e \in Emails |-> None]
    /\ role = [x \in Roles |-> None]
    /\ permission = {}
    /\ mailed = {}
    /\ instance = [i \in Instances |-> "starting"]

InUseAlready ==
    /\ admin = [e \in Emails |->
                  CASE e = Root -> Over([attempts |-> "allowed"], NewAdmin("active", Super, Root, Root, 0))
                    [] e = Invited -> NewAdmin("incomplete_profile", Super, None, None, 1)
                    [] OTHER -> None]
    /\ \E made \in {{}, HandMade} :
          /\ permission = DefaultPermissions \cup made
          /\ role = [x \in Roles |->
                       CASE x = Super -> NewRole("super-admin", TRUE, permission)
                         [] x = Clerk -> NewRole("clerk", FALSE, {"view:User"})
                         [] OTHER -> None]
    /\ mailed = {Invited}
    /\ instance = [i \in Instances |-> "up"]

Init ==
    /\ Fresh \/ InUseAlready
    /\ found = [i \in Instances |-> {}]
    /\ req = [r \in Requests |-> None]
    /\ met = {}
    /\ faults = 0
    /\ pc = "idle" /\ page = 1 /\ seen = {} /\ first = {}

\* Somebody who asks for a change of a role has seen its id.
Known == {x \in Roles : role[x] # None}

AskAdmins(r) ==
    \/ \E e \in Emails \ {Root}, x \in Known : InviteAdmin(r, e, x)
    \/ \E e \in Emails \ {Root} : CompleteSignup(r, e)
    \/ \E e \in Emails : UpdateProfile(r, e) \/ ChangePassword(r, e)
    \/ \E e \in Entrants :
          SignIn(r, e, None) \/ (admin[e] # None /\ SignIn(r, e, admin[e].password))

AskRoles(r) ==
    \/ \E slug \in Slugs : CreateRole(r, slug, Granted)
    \/ \E x \in Known, edit \in Edits : UpdateRole(r, x, edit)
    \/ \E x \in Known : RemoveRole(r, x)
    \/ CreatePermissions(r, HandMade)
    \/ \E p \in Removable : RemovePermission(r, p)

Rest ==
    /\ \A i \in Instances : instance[i] \in {"up", "down", "failed"}
    /\ \A r \in Requests : req[r] = None \/ ~InFlight(r)
    /\ UNCHANGED vars

Next ==
    \/ \E r \in Requests :
          /\ AskAdmins(r) \/ AdminStep(r) \/ AskRoles(r) \/ RoleStep(r)
          /\ UNCHANGED client
    \/ \E i \in Instances : SeederStep(i) /\ UNCHANGED client
    \/ AskList \/ ReadList \/ CountList
    \/ Rest

Spec == Init /\ [][Next]_vars

-----------------------------------------------------------------------------
(* Properties. *)

TablesOK ==
    /\ admin \in [Emails -> AdminRecords \cup {None}]
    /\ \A e \in Emails : admin[e] # None =>
          (admin[e].password = None <=> admin[e].status = "incomplete_profile")
    /\ role \in [Roles -> RoleRecords \cup {None}]
    /\ \A x \in Roles : role[x] # None => role[x].is_default = (x = Super)
    /\ permission \subseteq Names
ProcessesOK ==
    /\ instance \in
          [Instances -> {"starting", "find", "save", "commit", "rates", "up", "down", "failed"}]
    /\ found \in [Instances -> SUBSET Names]
    /\ \A i \in Instances : found[i] # {} => instance[i] \in {"save", "commit"}
    /\ faults \in 0 .. MaxFaults
RequestsOK ==
    \A r \in Requests : req[r] # None =>
        req[r] \in RequestRecords /\ (req[r].answer # None <=> req[r].pc = "done")

TypeOK == TablesOK /\ ProcessesOK /\ RequestsOK

\* Whatever the order of invitations, updates and removals: an admin has a role that is
\* there, a role has permissions that are there, and no two roles share a slug.
ReferencesHold ==
    /\ \A e \in Emails : admin[e] # None => role[admin[e].role] # None
    /\ \A x \in Roles : role[x] # None =>
          role[x].permissions \subseteq permission /\ ~SlugTaken(x, role[x].slug)

Accepted(r, op) == req[r] # None /\ req[r].op = op /\ req[r].answer = "ok"

\* Nobody is on the table without having been mailed.  The reverse does not hold, as the
\* mail leaves before the row is committed; but when nobody is invited any more, somebody
\* has been mailed in vain only if a request of his failed or was lost.
MailsMatchInvitations ==
    /\ \A e \in Emails \ {Root} : admin[e] # None => e \in mailed
    /\ \A e \in mailed : admin[e] # None \/
          \E r \in Requests : /\ req[r] # None /\ req[r].op = "inviteAdmin" /\ req[r].arg.email = e
                              /\ InFlight(r) \/ req[r].answer \in {"error", "lost"}

\* An invitation is completed once, unless two completions overlapped: then both clients
\* are told that their password is the one.
OneCompletion ==
    \A q, r \in Requests :
        q # r /\ Accepted(q, "completeSignup") /\ Accepted(r, "completeSignup")
              /\ req[q].arg = req[r].arg => Overlapped(q, r)

\* Somebody tried to sign in at this address, and was refused.
Repelled(e) ==
    \E r \in Requests : /\ req[r] # None /\ req[r].op = "signIn" /\ req[r].arg.email = e
                        /\ req[r].answer = "refused"

\* A process that serves finds the role of the seeder with every default permission, and
\* the root admin with this role: nothing takes one of them away while it runs.  The admin
\* is active, unless somebody without the password has got him locked.
UpMeansSeeded ==
    \A i \in Instances : instance[i] = "up" =>
        /\ role[Super] # None /\ DefaultPermissions \subseteq role[Super].permissions
        /\ admin[Root] # None /\ admin[Root].role = Super
        /\ admin[Root].status = "active" \/ (admin[Root].status = "locked" /\ Repelled(Root))

SeedsInPeace ==
    \A i \in Instances : Seeding(i) /\ instance'[i] = "failed" =>
        \E r \in Requests : Accepted(r, "removePermission")

\* The transaction of a seeding fails on what others write only when a permission was
\* removed, which the service can do and no route does yet: processes that start together
\* on one database do not get into each other's way, nor do requests into theirs.
SeedFailsOnlyByRemoval == [][SeedsInPeace]_vars

\* A request that is accepted in this step.
Accepts(r) == InFlight(r) /\ req'[r].answer = "ok"

\* Another update of its role was accepted, or its removal, while a request was under way.
Changed(r, op) ==
    \E q \in Requests :
        Overlapped(q, r) /\ Accepted(q, op) /\ req[q].arg.role = req[r].arg.role

\* What happens to a role in a step: who takes something from it, who makes it.
RolesUndone ==
    \A x \in Roles :
      /\ role[x] # None /\ role'[x] # None =>
            \A p \in role[x].permissions \ role'[x].permissions :
                \E r \in Requests : /\ Accepts(r) /\ req[r].op = "updateRole" /\ req[r].arg.role = x
                                    /\ \/ p \in req[r].arg.dels
                                       \/ p \notin req[r].arg.adds /\ Changed(r, "updateRole")
      /\ role[x] = None /\ role'[x] # None =>
            \/ x = Super
            \/ \E r \in Requests : Accepts(r) /\ req[r].op = "createRole" /\ x = r
            \/ \E r \in Requests : /\ Accepts(r) /\ req[r].op = "updateRole" /\ req[r].arg.role = x
                                   /\ Changed(r, "removeRole")

\* A role loses a permission only to an update that revokes it, or to one that does not ask
\* for it and overlapped another update of the role; a role that is not there appears as a
\* new one, by the seeder, or by an update that overlapped its removal.
OnlyOverlapsUndo == [][RolesUndone]_vars

\* The row an update of a role asks for.
Edited(arg, row) ==
    [slug |-> IF arg.slug = None THEN row.slug ELSE arg.slug, is_default |-> FALSE,
     permissions |-> (row.permissions \cup arg.adds) \ arg.dels]

\* What a request asks for.
Applied(r) ==
    LET arg == req[r].arg
    IN  CASE req[r].op \in Updates ->
               admin' = [admin EXCEPT ![arg.email] = Over(Payload(r), @)]
          [] req[r].op = "updateRole" -> role' = [role EXCEPT ![arg.role] = Edited(arg, @)]
          [] OTHER -> TRUE

\* It overlapped no other request.
Lone(r) == \A q \in Requests : ~Overlapped(q, r)

UpdatesApplied == \A r \in Requests : Accepts(r) /\ Lone(r) => Applied(r)

\* An update of an admin or a role that overlapped no other request does what it was
\* asked for and nothing else, through its three reads and the difference save() writes.
LoneUpdatesApply == [][UpdatesApplied]_vars

\* Listing the admins page by page is a listing as module Listing has it: every admin
\* there was at the beginning is shown, whoever is invited meanwhile.
ImplementsListing == Lists!Spec

=============================================================================
