-------------------------------- MODULE Admins --------------------------------
(***************************************************************************)
(* admins.service.ts: the invitation of an admin, its completion, and the  *)
(* updates of a profile and a password; and the sign-in of auth.service.ts *)
(* for admins.                                                             *)
(*                                                                         *)
(* The last four read the admin outside their transaction, twice (a find   *)
(* of the caller, findOne of update), merge the payload into the second    *)
(* copy and save it: save() selects the row once more and writes the       *)
(* columns in which the copy differs.  The second save of the first three  *)
(* writes nothing.                                                         *)
(*                                                                         *)
(* Of login_attempts the model has whether it is "below" or has reached    *)
(* ALLOWED_LOGIN_ATTEMPTS ("allowed"), a number from 1 on.                 *)
(***************************************************************************)
EXTENDS StaffTables

\* A row of admin_users.
NewAdmin(status, x, password, profile, created_at) ==
    [status |-> status, role |-> x, password |-> password, profile |-> profile,
     attempts |-> "below", created_at |-> created_at]
Columns == {"status", "password", "profile", "attempts"}

-----------------------------------------------------------------------------
(* inviteAdmin. *)

InviteAdmin(r, e, x) ==
    /\ Authorized("inviteAdmin")
    /\ Begin(r, "inviteAdmin", [email |-> e, role |-> x], "email")

\* No admin has the address, and later: the role is there.
FindEmail(r) ==
    /\ At(r, "inviteAdmin", "email")
    /\ IF admin[req[r].arg.email] # None
       THEN Refuse(r)
       ELSE Continue(r, [pc |-> "role"])

FindRole(r) ==
    /\ At(r, "inviteAdmin", "role")
    /\ IF role[req[r].arg.role] = None
       THEN Refuse(r)
       ELSE Continue(r, [pc |-> "sending", insertion |-> "pending", mail |-> "pending"])

\* manager.save is not awaited: the INSERT runs while the invitation is published.  It
\* fails on the unique address, or when the role is gone.  A promise that is rejected
\* when nobody awaits it, before the message is out, ends the process; so does the
\* rejection nobody awaits any more because the publication has failed.
InsertInvited(r) ==
    LET e == req[r].arg.email
    IN  /\ At(r, "inviteAdmin", "sending") /\ req[r].insertion = "pending"
        /\ \A q \in Requests \ {r} : Inserted(q) => req[q].arg.email # e
        /\ IF admin[e] = None /\ role[req[r].arg.role] # None
           THEN Continue(r, [insertion |-> "done"])
           ELSE IF req[r].mail = "done"
           THEN Error(r)
           ELSE Ends(req[r].on, "down") /\ UNCHANGED faults

\* publishMessage.
PublishInvitation(r) ==
    /\ At(r, "inviteAdmin", "sending") /\ req[r].mail = "pending"
    /\ mailed' = mailed \cup {req[r].arg.email}
    /\ req' = With(r, [mail |-> "done"])
    /\ UNCHANGED <<tables, processes, met, faults>>

PublicationFails(r) ==
    /\ At(r, "inviteAdmin", "sending") /\ req[r].mail = "pending" /\ faults < MaxFaults
    /\ req' = With(r, [mail |-> "failed"])
    /\ faults' = faults + 1
    /\ UNCHANGED <<tables, mailed, processes, met>>

\* Mutant: A publication that fails is caught and forgotten.
EndInvitationRegardless(r) ==
    /\ At(r, "inviteAdmin", "sending") /\ req[r].insertion = "done" /\ req[r].mail # "pending"
    /\ admin' = [admin EXCEPT ![req[r].arg.email] =
          NewAdmin("incomplete_profile", req[r].arg.role, None, None, req[r].start + 2)]
    /\ req' = Answered(r, "ok")
    /\ UNCHANGED <<role, permission, mailed, processes, met, faults>>

\* Both are over: COMMIT, or ROLLBACK, which waits on the connection for the INSERT.
EndInvitation(r) ==
    /\ At(r, "inviteAdmin", "sending") /\ req[r].insertion = "done"
    /\ \/ /\ req[r].mail = "done"
          /\ admin' = [admin EXCEPT ![req[r].arg.email] =
                NewAdmin("incomplete_profile", req[r].arg.role, None, None, req[r].start + 2)]
          /\ req' = Answered(r, "ok")
          /\ UNCHANGED <<role, permission, mailed, processes, met, faults>>
       \/ /\ req[r].mail = "failed"
          /\ Error(r)

-----------------------------------------------------------------------------
(* completeSignup, updateProfile, changePassword, signIn. *)

Updates == {"completeSignup", "updateProfile", "changePassword", "signIn"}

CompleteSignup(r, e) == Begin(r, "completeSignup", [email |-> e], "check")

UpdateProfile(r, e) ==
    /\ Caller(e, "updateProfile") /\ admin[e].status = "active"
    /\ Begin(r, "updateProfile", [email |-> e], "check")

\* Its client gives the password it knows.
ChangePassword(r, e) ==
    /\ Caller(e, "changePassword") /\ admin[e].status = "active"
    /\ Begin(r, "changePassword", [email |-> e, current |-> admin[e].password], "check")

\* With the password somebody knows, or None, which is none's.
SignIn(r, e, given) == Begin(r, "signIn", [email |-> e, current |-> given], "check")

\* A sign-in with a wrong password, from the check on: it has no login to log.
Mistaken(r) == req[r].op = "signIn" /\ req[r].mail = None

\* Mutant: The new password is forgotten.
PayloadWithoutPassword(r) ==
    CASE req[r].op = "completeSignup" -> [status |-> "active", profile |-> r, attempts |-> "below"]
      [] req[r].op = "updateProfile"  -> [profile |-> r]
      [] req[r].op = "changePassword" -> [password |-> r]
      [] req[r].op = "signIn"         -> IF Mistaken(r) THEN req[r].plan ELSE [attempts |-> "below"]

\* What the payload sets.
Payload(r) ==
    CASE req[r].op = "completeSignup" ->
             [status |-> "active", password |-> r, profile |-> r, attempts |-> "below"]
      [] req[r].op = "updateProfile"  -> [profile |-> r]
      [] req[r].op = "changePassword" -> [password |-> r]
      [] req[r].op = "signIn"         -> IF Mistaken(r) THEN req[r].plan ELSE [attempts |-> "below"]

\* Mutant: The status is not looked at.
AcceptableAnyStatus(r) ==
    LET row == admin[req[r].arg.email]
    IN  row # None /\ (req[r].op = "changePassword" => row.password = req[r].arg.current)

\* findOneBy, and the tests on what it finds.
Acceptable(r) ==
    LET row == admin[req[r].arg.email]
    IN  /\ row # None
        /\ req[r].op = "completeSignup" => row.status = "incomplete_profile"
        /\ req[r].op = "changePassword" => row.password = req[r].arg.current

CheckAdmin(r) ==
    /\ InFlight(r) /\ req[r].op \in Updates \ {"signIn"} /\ req[r].pc = "check"
    /\ IF Acceptable(r) THEN Continue(r, [pc |-> "reread"]) ELSE Refuse(r)

\* What a wrong password costs an admin.
Costs(row) ==
    IF row.attempts = "allowed"
    THEN {[status |-> "locked"]}
    ELSE {[attempts |-> "below"], [attempts |-> "allowed"]}

\* findOne of signIn.  bcrypt throws when there is no password to compare with.
CheckSignIn(r) ==
    LET row   == admin[req[r].arg.email]
        given == req[r].arg.current
    IN  /\ At(r, "signIn", "check")
        /\ IF row = None THEN Refuse(r)
           ELSE IF row.status = "locked" THEN Refuse(r)
           ELSE IF row.password = None THEN Error(r)
           ELSE IF row.password = given
           THEN Continue(r, [pc |-> "reread", mail |-> "pending"])
           ELSE \E cost \in Costs(row) : Continue(r, [pc |-> "reread", plan |-> cost])

\* update, and updateWithoutTxn after a wrong password: findOne, and the merge.
RereadAdmin(r) ==
    /\ InFlight(r) /\ req[r].op \in Updates /\ req[r].pc = "reread"
    /\ LET row == admin[req[r].arg.email]
       IN  Continue(r, [pc |-> "select",
                        copy |-> Over(Payload(r), [c \in Columns |-> row[c]])])

\* save: the SELECT, and what is to be written.
SelectAdmin(r) ==
    /\ InFlight(r) /\ req[r].op \in Updates /\ req[r].pc = "select"
    /\ LET row == admin[req[r].arg.email]
           changed == {c \in Columns : req[r].copy[c] # row[c]}
       IN  Continue(r, [pc |-> "write", copy |-> None,
                        plan |-> [c \in changed |-> req[r].copy[c]]])

\* The UPDATE waits while another transaction has the row.
WriteAdmin(r) ==
    /\ InFlight(r) /\ req[r].op \in Updates /\ req[r].pc = "write"
    /\ \A q \in Requests \ {r} :
          Open(q) /\ req[q].op \in Updates => req[q].arg.email # req[r].arg.email
    /\ Continue(r, [pc |-> "commit"])

\* The login is logged in the transaction.
PublishLogin(r) ==
    /\ Open(r) /\ req[r].op = "signIn" /\ req[r].mail = "pending"
    /\ \/ Continue(r, [mail |-> "done"])
       \/ /\ faults < MaxFaults
          /\ faults' = faults + 1
          /\ req' = Answered(r, "error")
          /\ UNCHANGED <<tables, mailed, processes, met>>

\* What a wrong password costs is committed, and the sign-in refused.
CommitAdmin(r) ==
    /\ Open(r) /\ req[r].op \in Updates /\ req[r].mail # "pending"
    /\ admin' = [admin EXCEPT ![req[r].arg.email] = Over(req[r].plan, @)]
    /\ req' = Answered(r, IF Mistaken(r) THEN "refused" ELSE "ok")
    /\ UNCHANGED <<role, permission, mailed, processes, met, faults>>

AdminStep(r) ==
    \/ FindEmail(r) \/ FindRole(r) \/ InsertInvited(r)
    \/ PublishInvitation(r) \/ PublicationFails(r) \/ EndInvitation(r)
    \/ CheckAdmin(r) \/ CheckSignIn(r)
    \/ RereadAdmin(r) \/ SelectAdmin(r) \/ WriteAdmin(r) \/ PublishLogin(r) \/ CommitAdmin(r)

=============================================================================
