------------------------------ MODULE StaffProofs ------------------------------
(***************************************************************************)
(* What holds of the administration for any requests, processes, addresses *)
(* and roles: the references between its tables, the mails, the seeding,   *)
(* the updates.                                                            *)
(* The invariant says what a request has found out by its last statement   *)
(* and what its locks keep true until it commits.                          *)
(***************************************************************************)
EXTENDS Staff, FiniteSetTheorems, TLAPS

-----------------------------------------------------------------------------
(* The inductive invariant. *)

Fields == {"op", "arg", "on", "pc", "start", "copy", "plan", "mail", "insertion", "answer"}
Authors == {Root} \cup Requests
AllSlugs == Slugs \cup {"super-admin", "clerk"}

\* Requests are records; a request that is over has an answer.
Recorded(r) ==
    req[r] # None =>
        /\ DOMAIN req[r] = Fields
        /\ req[r].start \in Nat
        /\ req[r].pc # "done" => req[r].on \in Instances
        /\ req[r].answer # None <=> req[r].pc = "done"
        /\ req[r].answer \in {None, "ok", "refused", "error", "lost"}

\* An invitation under way: what it has inserted refers to a role that stays, and
\* nobody else gets the address.
Invitation(r) ==
    InFlight(r) /\ req[r].op = "inviteAdmin" =>
        /\ req[r].arg.email \in Emails \ {Root} /\ req[r].arg.role \in Roles
        /\ req[r].mail = "done" => req[r].pc = "sending" /\ req[r].arg.email \in mailed
        /\ req[r].insertion = "done" =>
              role[req[r].arg.role] # None /\ admin[req[r].arg.email] = None

\* What an update sets, and what of it save() has found to differ.
Signed == {"active", "locked"}
Tried  == {"below", "allowed"}

Entity(copy) ==
    /\ DOMAIN copy = Columns
    /\ copy["status"] \in Signed /\ copy["password"] \in Authors
    /\ copy["profile"] \in Authors \cup {None} /\ copy["attempts"] \in Tried

Difference(plan, status) ==
    /\ DOMAIN plan \subseteq Columns
    /\ "status" \in DOMAIN plan => plan["status"] \in Signed
    /\ "password" \in DOMAIN plan => plan["password"] \in Authors
    /\ "profile" \in DOMAIN plan => plan["profile"] \in Authors \cup {None}
    /\ "attempts" \in DOMAIN plan => plan["attempts"] \in Tried
    /\ status \in Signed \/ {"status", "password"} \subseteq DOMAIN plan

\* What a wrong password costs.
Prices == {[status |-> "locked"], [attempts |-> "below"], [attempts |-> "allowed"]}

\* An update of an admin, who is there and does not become incomplete again.
AdminUpdate(r) ==
    InFlight(r) /\ req[r].op \in Updates =>
        LET e == req[r].arg.email
        IN  /\ e \in Emails
            /\ req[r].pc \in {"check", "reread", "select", "write", "commit"}
            /\ req[r].pc # "check" \/ req[r].op \in {"updateProfile", "changePassword"} =>
                  /\ admin[e] # None
                  /\ req[r].op # "completeSignup" => admin[e].status \in Signed
            /\ req[r].pc = "reread" /\ Mistaken(r) => req[r].plan \in Prices
            /\ req[r].pc = "select" => Entity(req[r].copy)
            /\ req[r].pc \in {"write", "commit"} => Difference(req[r].plan, admin[e].status)

\* A creation or an update of a role: never of the seeded one; what is written refers to
\* permissions that stay, under a slug nobody else gets.
Planned(r) ==
    /\ req[r].plan.slug \in AllSlugs \cup {None} /\ req[r].plan.adds \subseteq Names
    /\ req[r].plan.new => req[r].plan.slug # None

RoleUpdate(r) ==
    InFlight(r) =>
        /\ req[r].op = "createRole" => req[r].arg.slug \in Slugs
        /\ req[r].op \in {"updateRole", "removeRole"} => req[r].arg.role \in Roles
        /\ req[r].op \in {"updateRole", "removeRole"} /\ req[r].pc # "check" =>
              req[r].arg.role # Super
        /\ req[r].op = "updateRole" => req[r].arg.slug \in Slugs \cup {None}
        /\ req[r].op = "updateRole" /\ req[r].pc = "names" => req[r].copy \in RoleRecords
        /\ req[r].op = "updateRole" /\ req[r].pc = "select" =>
              req[r].copy.slug \in AllSlugs /\ req[r].copy.permissions \subseteq Names
        /\ req[r].op \in {"createRole", "updateRole"} /\ req[r].pc \in {"write", "commit"}
              /\ req[r].plan # None => Planned(r)
        /\ req[r].op = "createPermissions" => req[r].arg.names = HandMade

Written(r) ==
    RoleWriter(r) =>
        /\ req[r].plan.adds \subseteq permission
        /\ req[r].plan.slug # None => ~SlugTaken(WrittenRole(r), req[r].plan.slug)

RequestOK(r) == Recorded(r) /\ Invitation(r) /\ AdminUpdate(r) /\ RoleUpdate(r) /\ Written(r)

\* Locks: two requests that have written have written different rows and keys.
Apart(q, r) ==
    /\ Inserted(q) /\ Inserted(r) => req[q].arg.email # req[r].arg.email
    /\ RoleWriter(q) /\ RoleWriter(r) =>
          /\ WrittenRole(q) # WrittenRole(r)
          /\ req[q].plan.slug = None \/ req[q].plan.slug # req[r].plan.slug

\* Before the first seeding there is nothing; afterwards its rows stay.
Seeded ==
    IF role[Super] = None
    THEN /\ \A x \in Roles : role[x] = None
         /\ \A e \in Emails : admin[e] = None
         /\ \A r \in Requests : req[r] = None
         /\ \A i \in Instances : instance[i] \notin {"rates", "up"}
    ELSE /\ role[Super].slug = "super-admin" /\ DefaultPermissions \subseteq role[Super].permissions
         /\ admin[Root] # None /\ admin[Root].role = Super /\ admin[Root].status \in Signed

SeedingOK(i) ==
    /\ instance[i] \in {"save", "commit"} => DefaultPermissions \subseteq found[i]
    /\ instance[i] = "commit" => found[i] \subseteq permission \cup DefaultPermissions

IInv ==
    /\ TablesOK /\ ProcessesOK /\ DOMAIN req = Requests
    /\ ReferencesHold /\ Seeded
    /\ \A r \in Requests : RequestOK(r)
    /\ \A q, r \in Requests : q # r => Apart(q, r)
    /\ \A i \in Instances : SeedingOK(i)

\* The mails: an invitation that has been sent is under way, or its admin is there, or it
\* has failed.
Invites(r, e) ==
    /\ req[r] # None /\ req[r].op = "inviteAdmin" /\ req[r].arg.email = e
    /\ IF InFlight(r) THEN req[r].mail = "done" ELSE req[r].answer \in {"error", "lost"}

MailInv ==
    /\ \A e \in Emails \ {Root} : admin[e] # None => e \in mailed
    /\ \A e \in mailed : e \in Emails /\ (admin[e] # None \/ \E r \in Requests : Invites(r, e))

\* Completions: requests in flight have met, and after one that is accepted the next is
\* refused.
Completes(r) == req[r] # None /\ req[r].op = "completeSignup"

Completion(q, r) ==
    /\ InFlight(q) /\ InFlight(r) => Overlapped(q, r)
    /\ Accepted(q, "completeSignup") =>
          /\ req[q].arg.email \in Emails /\ admin[req[q].arg.email] # None
          /\ admin[req[q].arg.email].status \in Signed
    /\ Accepted(q, "completeSignup") /\ Completes(r) /\ req[q].arg = req[r].arg
          /\ req[r].pc # "check" /\ req[r].answer \in {None, "ok"} => Overlapped(q, r)

CompletionInv == \A q, r \in Requests : q # r => Completion(q, r)

\* Removals: without one, what a seeding has found is still there.
Removed == \E r \in Requests : Accepted(r, "removePermission")
RemovalInv ==
    Removed \/ \A i \in Instances :
        instance[i] = "save" => found[i] \subseteq permission \cup DefaultPermissions

\* Updates of roles.  What an update has read is what the row holds, and what it is going to
\* write makes of the row what it was asked for, unless another one was accepted meanwhile.
RoleEdit(r) ==
    InFlight(r) /\ req[r].op = "updateRole" /\ req[r].pc # "check" =>
        LET arg  == req[r].arg
            row  == role[arg.role]
            copy == req[r].copy
            plan == req[r].plan
        IN  /\ row = None => Changed(r, "removeRole")
            /\ req[r].pc = "names" /\ row # None /\ ~Changed(r, "updateRole") => copy = row
            /\ req[r].pc = "select" =>
                  /\ arg.adds \ arg.dels \subseteq copy.permissions
                  /\ row # None /\ ~Changed(r, "updateRole") => copy = Edited(arg, row)
            /\ req[r].pc \in {"write", "commit"} =>
                  /\ plan # None => plan.dels \cap (arg.adds \ arg.dels) = {}
                  /\ row # None /\ ~Changed(r, "updateRole") => Saved(r) = Edited(arg, row)

\* A role that is yet to be created is not there, and nobody updates it.
Unborn(q) ==
    req[q] = None \/ (InFlight(q) /\ req[q].op = "createRole") =>
        /\ role[q] = None
        /\ \A r \in Requests : req[r] # None /\ req[r].op = "updateRole" => req[r].arg.role # q

\* An INSERT of a role that is not committed: the role is not there.
Inserts(r) == RoleWriter(r) /\ req[r].plan.new => role[WrittenRole(r)] = None

\* An update of an admin that met nobody.  (A sign-in with a wrong password is none that is
\* accepted.)
AdminEdit(r) ==
    InFlight(r) /\ req[r].op \in Updates /\ Lone(r) /\ ~Mistaken(r) =>
        LET row == admin[req[r].arg.email]
        IN  /\ req[r].pc = "select" => req[r].copy = Over(Payload(r), [c \in Columns |-> row[c]])
            /\ req[r].pc \in {"write", "commit"} => Over(req[r].plan, row) = Over(Payload(r), row)

\* Locks of admins: somebody was refused before a row says so, or what an update copies and
\* writes into one; but a sign-in with a wrong password that is about to lock it.
LockKnown(r) ==
    InFlight(r) /\ req[r].op \in Updates /\ ~Mistaken(r) =>
        /\ req[r].pc = "select" /\ req[r].copy["status"] = "locked" => Repelled(req[r].arg.email)
        /\ req[r].pc \in {"write", "commit"} /\ "status" \in DOMAIN req[r].plan
              /\ req[r].plan["status"] = "locked" => Repelled(req[r].arg.email)

LockInv ==
    /\ \A e \in Emails : admin[e] # None /\ admin[e].status = "locked" => Repelled(e)
    /\ \A r \in Requests : LockKnown(r)

\* One process seeds at a time, and takes nothing from the seeded role.
OneSeeds ==
    /\ \A i, j \in Instances : Seeding(i) /\ Seeding(j) => i = j
    /\ \A i \in Instances : instance[i] \in {"save", "commit"} /\ role[Super] # None =>
          role[Super].permissions \subseteq found[i]

EditInv ==
    /\ \A r \in Requests : RoleEdit(r) /\ Unborn(r) /\ Inserts(r) /\ AdminEdit(r)
    /\ OneSeeds

-----------------------------------------------------------------------------
(* How a step changes the requests. *)

\* The others stay as they are.
OnlyOf(r) == DOMAIN req' = Requests /\ \A q \in Requests \ {r} : req'[q] = req[q]

\* What no step changes in a request.
SameRequest(r) ==
    /\ DOMAIN req'[r] = Fields
    /\ req'[r].op = req[r].op /\ req'[r].arg = req[r].arg /\ req'[r].start = req[r].start

LEMMA Overridden ==
    ASSUME NEW changes, NEW f
    PROVE  /\ DOMAIN Over(changes, f) = DOMAIN changes \cup DOMAIN f
           /\ \A c \in DOMAIN changes : Over(changes, f)[c] = changes[c]
           /\ \A c \in DOMAIN f \ DOMAIN changes : Over(changes, f)[c] = f[c]
BY DEF Over

LEMMA WithChanges ==
    ASSUME DOMAIN req = Requests, NEW r \in Requests, Recorded(r), req[r] # None,
           NEW changes, DOMAIN changes \subseteq Fields \ {"op", "arg", "start"},
           req' = With(r, changes)
    PROVE  /\ OnlyOf(r) /\ SameRequest(r)
           /\ \A c \in DOMAIN changes : req'[r][c] = changes[c]
           /\ \A c \in Fields \ DOMAIN changes : req'[r][c] = req[r][c]
<1>1. req'[r] = Over(changes, req[r])
  BY DEF With
<1>2. DOMAIN req[r] = Fields
  BY DEF Recorded
<1>3. /\ DOMAIN req'[r] = Fields
      /\ \A c \in DOMAIN changes : req'[r][c] = changes[c]
      /\ \A c \in Fields \ DOMAIN changes : req'[r][c] = req[r][c]
  <2>. DEFINE old == req[r]
              new == req'[r]
  <2>1. DOMAIN Over(changes, old) = DOMAIN changes \cup DOMAIN old
    BY Overridden
  <2>2. /\ \A c \in DOMAIN changes : Over(changes, old)[c] = changes[c]
        /\ \A c \in DOMAIN old \ DOMAIN changes : Over(changes, old)[c] = old[c]
    BY Overridden
  <2>. QED
    BY <1>1, <1>2, <2>1, <2>2
<1>4. OnlyOf(r)
  BY DEF With, OnlyOf
<1>5. {"op", "arg", "start"} \subseteq Fields \ DOMAIN changes
  BY DEF Fields
<1>6. SameRequest(r)
  BY <1>3, <1>5 DEF SameRequest
<1>. QED
  BY <1>3, <1>4, <1>6

\* A request that is over is as it should be, whatever the tables are.
LEMMA AnsweredOK ==
    ASSUME DOMAIN req = Requests, NEW r \in Requests, Recorded(r), req[r] # None,
           NEW answer \in {"ok", "refused", "error", "lost"}, req' = Answered(r, answer)
    PROVE  /\ OnlyOf(r) /\ SameRequest(r) /\ ~InFlight(r)'
           /\ req'[r].pc = "done" /\ req'[r].answer = answer /\ RequestOK(r)'
<1>. DEFINE changes == Finished(answer)
<1>1. DOMAIN changes = {"pc", "on", "copy", "plan", "mail", "insertion", "answer"}
      /\ changes["pc"] = "done" /\ changes["answer"] = answer
  BY DEF Finished
<1>2. req' = With(r, changes) /\ DOMAIN changes \subseteq Fields \ {"op", "arg", "start"}
  BY <1>1 DEF Answered, Fields
<1>. HIDE DEF changes
<1>3. /\ OnlyOf(r) /\ SameRequest(r)
      /\ req'[r].pc = "done" /\ req'[r].answer = answer
  BY <1>1, <1>2, WithChanges
<1>4. ~InFlight(r)'
  BY <1>3 DEF InFlight
<1>5. Recorded(r)'
  BY <1>3, NothingAssumption DEF Recorded, SameRequest
<1>. QED
  BY <1>3, <1>4, <1>5 DEF RequestOK, Invitation, AdminUpdate, RoleUpdate, Written, RoleWriter, Open, InFlight

-----------------------------------------------------------------------------
(* What a request relies on while others step. *)

\* What r knows of the tables stays true.
Relies(r) ==
    /\ Inserted(r) => role'[req[r].arg.role] # None /\ admin'[req[r].arg.email] = None
    /\ InFlight(r) /\ req[r].op \in Updates /\ req[r].arg.email \in Emails
          /\ admin[req[r].arg.email] # None =>
          /\ admin'[req[r].arg.email] # None
          /\ admin[req[r].arg.email].status \in Signed => admin'[req[r].arg.email].status \in Signed
    /\ RoleWriter(r) =>
          /\ req[r].plan.adds \subseteq permission'
          /\ req[r].plan.slug # None =>
                \A x \in Roles \ {WrittenRole(r)} :
                    role'[x] # None /\ role'[x].slug = req[r].plan.slug =>
                        role[x] # None /\ role[x].slug = req[r].plan.slug

LEMMA OtherRequest ==
    ASSUME NEW r \in Requests, RequestOK(r), req'[r] = req[r], mailed \subseteq mailed', Relies(r)
    PROVE  RequestOK(r)'
<1>1. Recorded(r)'
  BY DEF RequestOK, Recorded
<1>2. Invitation(r)'
  BY DEF RequestOK, Relies, Invitation, InFlight, Inserted
<1>3. AdminUpdate(r)'
  BY DEF RequestOK, Relies, AdminUpdate, Mistaken, InFlight, Updates, Difference, Entity
<1>4. RoleUpdate(r)'
  BY DEF RequestOK, RoleUpdate, InFlight, Planned
<1>5. Written(r)'
  BY DEF RequestOK, Relies, Written, RoleWriter, Open, InFlight, WrittenRole, SlugTaken
<1>. QED
  BY <1>1, <1>2, <1>3, <1>4, <1>5 DEF RequestOK

LEMMA QuietTables ==
    ASSUME UNCHANGED tables, NEW r \in Requests, RequestOK(r)
    PROVE  Relies(r)
BY DEF Relies, tables, RequestOK, Invitation, Written, Inserted, InFlight, RoleWriter, Open, SlugTaken

\* r has written nothing that it had not written before.
WritesNothing(r) ==
    /\ Inserted(r)' => Inserted(r) /\ req'[r].arg = req[r].arg
    /\ RoleWriter(r)' => RoleWriter(r) /\ req'[r].plan = req[r].plan /\ WrittenRole(r)' = WrittenRole(r)

LEMMA StillApart ==
    ASSUME IInv, NEW r \in Requests, OnlyOf(r), WritesNothing(r)
    PROVE  \A p, q \in Requests : p # q => Apart(p, q)'
<1>. SUFFICES ASSUME NEW p \in Requests, NEW q \in Requests, p # q
              PROVE  Apart(p, q)'
  OBVIOUS
<1>1. Apart(p, q)
  BY DEF IInv
<1>2. ASSUME NEW o \in Requests
      PROVE  /\ Inserted(o)' => Inserted(o) /\ req'[o].arg = req[o].arg
             /\ RoleWriter(o)' => /\ RoleWriter(o) /\ req'[o].plan = req[o].plan
                                  /\ WrittenRole(o)' = WrittenRole(o)
  <2>1. CASE o = r
    BY <2>1 DEF WritesNothing
  <2>2. CASE o # r
    BY <2>2 DEF OnlyOf, Inserted, RoleWriter, Open, InFlight, WrittenRole
  <2>. QED
    BY <2>1, <2>2
<1>. QED
  BY <1>1, <1>2 DEF Apart

\* A step of r that commits nothing.
LEMMA StepKeeps ==
    ASSUME IInv, NEW r \in Requests, UNCHANGED <<tables, processes>>, faults' \in 0 .. MaxFaults,
           mailed \subseteq mailed', OnlyOf(r), role[Super] # None, RequestOK(r)',
           \A p, q \in Requests : p # q => Apart(p, q)'
    PROVE  IInv'
<1>1. /\ UNCHANGED <<admin, role, permission, instance, found>>
      /\ DOMAIN req' = Requests
  BY DEF tables, processes, OnlyOf
<1>2. ASSUME NEW q \in Requests
      PROVE  RequestOK(q)'
  <2>1. CASE q = r
    BY <2>1
  <2>2. CASE q # r
    BY <2>2, QuietTables, OtherRequest DEF OnlyOf, IInv
  <2>. QED
    BY <2>1, <2>2
<1>3. TablesOK' /\ ProcessesOK'
  BY <1>1 DEF IInv, TablesOK, ProcessesOK
<1>4. ReferencesHold'
  BY <1>1 DEF IInv, ReferencesHold, SlugTaken
<1>5. Seeded'
  BY <1>1 DEF IInv, Seeded
<1>6. \A i \in Instances : SeedingOK(i)'
  BY <1>1 DEF IInv, SeedingOK
<1>. QED
  BY <1>1, <1>2, <1>3, <1>4, <1>5, <1>6 DEF IInv

\* A request is there only after the first seeding.
LEMMA RequestsComeLater ==
    ASSUME IInv, NEW r \in Requests, req[r] # None
    PROVE  /\ role[Super] # None /\ RequestOK(r) /\ Recorded(r) /\ DOMAIN req = Requests
           /\ faults \in 0 .. MaxFaults
BY DEF IInv, Seeded, RequestOK, ProcessesOK

\* A refusal, and an error that rolls back.
LEMMA AnswerKeeps ==
    ASSUME IInv, NEW r \in Requests, InFlight(r), NEW answer \in {"ok", "refused", "error", "lost"},
           req' = Answered(r, answer), UNCHANGED <<tables, mailed, processes>>,
           faults' \in 0 .. MaxFaults
    PROVE  IInv'
<1>1. role[Super] # None /\ Recorded(r) /\ DOMAIN req = Requests
  BY RequestsComeLater DEF InFlight
<1>2. OnlyOf(r) /\ RequestOK(r)' /\ ~InFlight(r)'
  BY <1>1, AnsweredOK DEF InFlight
<1>3. \A p, q \in Requests : p # q => Apart(p, q)'
  <2>1. WritesNothing(r)
    BY <1>2 DEF WritesNothing, Inserted, RoleWriter, Open
  <2>. QED
    BY <1>2, <2>1, StillApart
<1>. QED
  BY <1>1, <1>2, <1>3, StepKeeps

LEMMA RefusalKeeps ==
    ASSUME IInv, NEW r \in Requests, InFlight(r), Refuse(r) \/ Error(r)
    PROVE  IInv'
BY AnswerKeeps, RequestsComeLater DEF Refuse, Error, InFlight

\* A statement that writes nothing: what r has found out is all there is to show.
LEMMA ReadKeeps ==
    ASSUME IInv, NEW r \in Requests, InFlight(r),
           NEW changes, DOMAIN changes \subseteq Fields \ {"op", "arg", "on", "start", "answer"},
           "pc" \in DOMAIN changes => changes["pc"] # "done",
           req' = With(r, changes), UNCHANGED <<tables, processes>>,
           mailed \subseteq mailed', faults' \in 0 .. MaxFaults,
           Invitation(r)' /\ AdminUpdate(r)' /\ RoleUpdate(r)',
           WritesNothing(r)
    PROVE  IInv'
<1>1. role[Super] # None /\ Recorded(r) /\ DOMAIN req = Requests /\ Written(r) /\ req[r] # None
  BY RequestsComeLater DEF InFlight, RequestOK
<1>2. /\ OnlyOf(r) /\ SameRequest(r)
      /\ \A c \in DOMAIN changes : req'[r][c] = changes[c]
      /\ \A c \in Fields \ DOMAIN changes : req'[r][c] = req[r][c]
  BY <1>1, WithChanges
<1>3. /\ req'[r].answer = req[r].answer /\ req'[r].on = req[r].on
      /\ req'[r].pc # "done" /\ req[r].pc # "done"
  <2>1. {"answer", "on"} \subseteq Fields \ DOMAIN changes /\ "pc" \in Fields
    BY DEF Fields
  <2>2. req[r].pc # "done"
    BY DEF InFlight
  <2>. QED
    BY <1>2, <2>1, <2>2
<1>4. Recorded(r)'
  BY <1>1, <1>2, <1>3 DEF Recorded, SameRequest
<1>5. Written(r)'
  BY <1>1 DEF WritesNothing, Written, tables, SlugTaken
<1>6. \A p, q \in Requests : p # q => Apart(p, q)'
  BY <1>2, StillApart
<1>. QED
  BY <1>1, <1>2, <1>4, <1>5, <1>6, StepKeeps DEF RequestOK

-----------------------------------------------------------------------------
(* The beginning of a request. *)

LEMMA Begun ==
    ASSUME DOMAIN req = Requests, NEW r \in Requests, NEW op, NEW arg, NEW begins, Begin(r, op, arg, begins)
    PROVE  /\ OnlyOf(r) /\ DOMAIN req'[r] = Fields /\ req'[r].start \in Nat
           /\ req'[r].op = op /\ req'[r].arg = arg /\ req'[r].pc = begins
           /\ req'[r].mail = None /\ req'[r].insertion = None /\ req'[r].answer = None
           /\ req'[r].on \in Instances
           /\ UNCHANGED <<tables, mailed, processes, faults>>
           /\ \E i \in Instances : instance[i] = "up"
           /\ req'[r] \in [op : {op}, arg : {arg}, on : Instances, pc : {begins}, start : Nat,
                          copy : {None}, plan : {None}, mail : {None}, insertion : {None},
                          answer : {None}]
           /\ met' = met \cup {{q, r} : q \in {q \in Requests : InFlight(q)}}
<1>. DEFINE earlier == {q \in Requests : req[q] # None /\ req[q].op = op}
<1>1. Cardinality(earlier) \in Nat
  BY RequestsAssumption, FS_Subset, FS_CardinalityType
<1>. HIDE DEF earlier
<1>2. PICK i \in Instances :
          /\ instance[i] = "up"
          /\ req' = [req EXCEPT ![r] =
                [op |-> op, arg |-> arg, on |-> i, pc |-> begins, start |-> Cardinality(earlier),
                 copy |-> None, plan |-> None, mail |-> None, insertion |-> None,
                 answer |-> None]]
  BY DEF Begin, earlier
<1>3. req'[r] = [op |-> op, arg |-> arg, on |-> i, pc |-> begins, start |-> Cardinality(earlier),
                 copy |-> None, plan |-> None, mail |-> None, insertion |-> None, answer |-> None]
  BY <1>2
<1>4. OnlyOf(r)
  BY <1>2 DEF OnlyOf
<1>5. /\ UNCHANGED <<tables, mailed, processes, faults>>
      /\ met' = met \cup {{q, r} : q \in {q \in Requests : InFlight(q)}}
  BY DEF Begin
<1>. QED
  BY <1>1, <1>2, <1>3, <1>4, <1>5 DEF Fields

LEMMA BeginKeeps ==
    ASSUME IInv, NEW r \in Requests, NEW op, NEW arg, NEW begins \in {"email", "check", "write"},
           Begin(r, op, arg, begins),
           op = "inviteAdmin" => arg.email \in Emails \ {Root} /\ arg.role \in Roles,
           op \in Updates =>
              /\ begins = "check" /\ arg.email \in Emails
              /\ op \in {"updateProfile", "changePassword"} =>
                    admin[arg.email] # None /\ admin[arg.email].status \in Signed,
           op = "createRole" => begins = "check" /\ arg.slug \in Slugs,
           op \in {"updateRole", "removeRole"} => begins = "check" /\ arg.role \in Roles,
           op = "updateRole" => arg.slug \in Slugs \cup {None},
           op = "createPermissions" => arg.names = HandMade
    PROVE  IInv'
<1>1. /\ OnlyOf(r) /\ DOMAIN req'[r] = Fields /\ req'[r].start \in Nat
      /\ req'[r].op = op /\ req'[r].arg = arg /\ req'[r].pc = begins
      /\ req'[r].mail = None /\ req'[r].insertion = None /\ req'[r].answer = None
      /\ req'[r].on \in Instances
      /\ UNCHANGED <<tables, mailed, processes, faults>>
      /\ \E i \in Instances : instance[i] = "up"
  BY Begun DEF IInv
<1>2. role[Super] # None /\ faults \in 0 .. MaxFaults
  BY <1>1 DEF IInv, Seeded, ProcessesOK
<1>3. Recorded(r)'
  BY <1>1 DEF Recorded
<1>4. Invitation(r)'
  BY <1>1, NothingAssumption DEF Invitation
<1>5. AdminUpdate(r)'
  BY <1>1 DEF AdminUpdate, tables
<1>6. RoleUpdate(r)'
  BY <1>1 DEF RoleUpdate
<1>7. ~RoleWriter(r)' /\ ~Inserted(r)'
  BY <1>1, NothingAssumption DEF RoleWriter, Open, Inserted
<1>8. \A p, q \in Requests : p # q => Apart(p, q)'
  BY <1>1, <1>7, StillApart DEF WritesNothing
<1>. QED
  BY <1>1, <1>2, <1>3, <1>4, <1>5, <1>6, <1>7, <1>8, StepKeeps DEF RequestOK, Written

LEMMA AskAdminsKeeps ==
    ASSUME IInv, NEW r \in Requests, AskAdmins(r)
    PROVE  IInv'
<1>1. ASSUME NEW e \in Emails \ {Root}, NEW x \in Known, InviteAdmin(r, e, x)
      PROVE  IInv'
  BY <1>1, BeginKeeps DEF InviteAdmin, Known, Updates
<1>2. ASSUME NEW e \in Emails \ {Root}, CompleteSignup(r, e)
      PROVE  IInv'
  BY <1>2, BeginKeeps DEF CompleteSignup, Updates
<1>3. ASSUME NEW e \in Emails, UpdateProfile(r, e)
      PROVE  IInv'
  BY <1>3, BeginKeeps DEF UpdateProfile, Caller, Updates, Signed
<1>4. ASSUME NEW e \in Emails, ChangePassword(r, e)
      PROVE  IInv'
  BY <1>4, BeginKeeps DEF ChangePassword, Caller, Updates, Signed
<1>5. ASSUME NEW e \in Emails, NEW given, SignIn(r, e, given)
      PROVE  IInv'
  BY <1>5, BeginKeeps DEF SignIn, Updates
<1>. QED
  BY <1>1, <1>2, <1>3, <1>4, <1>5, AskedAssumption DEF AskAdmins

LEMMA AskRolesKeeps ==
    ASSUME IInv, NEW r \in Requests, AskRoles(r)
    PROVE  IInv'
<1>1. ASSUME NEW slug \in Slugs, CreateRole(r, slug, Granted)
      PROVE  IInv'
  BY <1>1, BeginKeeps DEF CreateRole, Updates
<1>2. ASSUME NEW x \in Known, NEW edit \in Edits, UpdateRole(r, x, edit)
      PROVE  IInv'
  <2>. DEFINE arg == Over([role |-> x], edit)
  <2>1. arg.role = x /\ arg.slug = edit.slug
    BY EditsAssumption DEF Over
  <2>2. Begin(r, "updateRole", arg, "check")
    BY <1>2 DEF UpdateRole
  <2>. HIDE DEF arg
  <2>. QED
    BY <2>1, <2>2, BeginKeeps, EditsAssumption DEF Updates, Known
<1>3. ASSUME NEW x \in Known, RemoveRole(r, x)
      PROVE  IInv'
  BY <1>3, BeginKeeps DEF RemoveRole, Updates, Known
<1>4. CASE CreatePermissions(r, HandMade)
  BY <1>4, BeginKeeps DEF CreatePermissions, Updates
<1>5. ASSUME NEW p \in Removable, RemovePermission(r, p)
      PROVE  IInv'
  BY <1>5, BeginKeeps DEF RemovePermission, Updates
<1>. QED
  BY <1>1, <1>2, <1>3, <1>4, <1>5 DEF AskRoles

-----------------------------------------------------------------------------
(* The statements of an invitation. *)

LEMMA InvitationReads ==
    ASSUME IInv, NEW r \in Requests,
           FindEmail(r) \/ FindRole(r) \/ PublishInvitation(r) \/ PublicationFails(r)
    PROVE  IInv'
<1>1. /\ InFlight(r) /\ req[r].op = "inviteAdmin" /\ req[r] # None
      /\ Recorded(r) /\ Invitation(r) /\ DOMAIN req = Requests /\ faults \in 0 .. MaxFaults
  BY RequestsComeLater DEF FindEmail, FindRole, PublishInvitation, PublicationFails, At, InFlight, RequestOK
<1>2. ASSUME NEW changes, DOMAIN changes \subseteq {"pc", "mail", "insertion"},
             req' = With(r, changes), UNCHANGED <<tables, processes>>,
             mailed \subseteq mailed', faults' \in 0 .. MaxFaults,
             "pc" \in DOMAIN changes => changes["pc"] # "done",
             "insertion" \in DOMAIN changes => changes["insertion"] = "pending",
             "pc" \in DOMAIN changes => req[r].pc # "sending",
             IF "mail" \in DOMAIN changes
             THEN changes["mail"] = "done" => req[r].pc = "sending" /\ req[r].arg.email \in mailed'
             ELSE TRUE
      PROVE  IInv'
  <2>1. DOMAIN changes \subseteq Fields \ {"op", "arg", "on", "start", "answer"}
    BY <1>2 DEF Fields
  <2>2. /\ OnlyOf(r) /\ SameRequest(r)
        /\ \A c \in DOMAIN changes : req'[r][c] = changes[c]
        /\ \A c \in Fields \ DOMAIN changes : req'[r][c] = req[r][c]
    BY <1>1, <1>2, <2>1, WithChanges
  <2>3. /\ req'[r].op = "inviteAdmin" /\ req'[r].arg = req[r].arg
        /\ req'[r].pc = IF "pc" \in DOMAIN changes THEN changes["pc"] ELSE req[r].pc
        /\ req'[r].mail = IF "mail" \in DOMAIN changes THEN changes["mail"] ELSE req[r].mail
        /\ req'[r].insertion = IF "insertion" \in DOMAIN changes THEN "pending" ELSE req[r].insertion
    BY <1>1, <1>2, <2>2 DEF SameRequest, Fields
  <2>4. Invitation(r)'
    BY <1>1, <1>2, <2>3 DEF Invitation, tables
  <2>5. AdminUpdate(r)' /\ RoleUpdate(r)'
    BY <2>3 DEF AdminUpdate, RoleUpdate, Updates
  <2>6. WritesNothing(r)
    BY <1>1, <2>3 DEF WritesNothing, Inserted, RoleWriter, InFlight
  <2>. QED
    BY <1>1, <1>2, <2>1, <2>4, <2>5, <2>6, ReadKeeps
<1>3. CASE FindEmail(r)
  <2>1. CASE Refuse(r)
    BY <1>1, <2>1, RefusalKeeps
  <2>2. CASE Continue(r, [pc |-> "role"])
    <3>1. req[r].pc = "email"
      BY <1>3 DEF FindEmail, At
    <3>. QED
      BY <1>1, <1>2, <2>2, <3>1 DEF Continue
  <2>. QED
    BY <1>3, <2>1, <2>2 DEF FindEmail
<1>4. CASE FindRole(r)
  <2>1. CASE Refuse(r)
    BY <1>1, <2>1, RefusalKeeps
  <2>2. CASE Continue(r, [pc |-> "sending", insertion |-> "pending", mail |-> "pending"])
    <3>1. req[r].pc = "role"
      BY <1>4 DEF FindRole, At
    <3>. QED
      BY <1>1, <1>2, <2>2, <3>1 DEF Continue
  <2>. QED
    BY <1>4, <2>1, <2>2 DEF FindRole
<1>5. CASE PublishInvitation(r)
  BY <1>1, <1>2, <1>5 DEF PublishInvitation, At
<1>6. CASE PublicationFails(r)
  <2>1. faults' \in 0 .. MaxFaults
    BY <1>1, <1>6, RequestsAssumption DEF PublicationFails
  <2>. QED
    BY <1>1, <1>2, <1>6, <2>1 DEF PublicationFails, At
<1>. QED
  BY <1>3, <1>4, <1>5, <1>6

-----------------------------------------------------------------------------
(* The statements of an update of an admin. *)

LEMMA PayloadTyped ==
    ASSUME NEW r \in Requests, req[r].op \in Updates, Mistaken(r) => req[r].plan \in Prices
    PROVE  /\ DOMAIN Payload(r) \subseteq Columns
           /\ "status" \in DOMAIN Payload(r) => Payload(r)["status"] \in Signed
           /\ "password" \in DOMAIN Payload(r) => Payload(r)["password"] \in Authors
           /\ "profile" \in DOMAIN Payload(r) => Payload(r)["profile"] \in Authors
           /\ "attempts" \in DOMAIN Payload(r) => Payload(r)["attempts"] \in Tried
           /\ req[r].op = "completeSignup" => DOMAIN Payload(r) = Columns
<1>1. CASE req[r].op = "completeSignup"
  BY <1>1 DEF Payload, Columns, Authors, Signed, Tried
<1>2. CASE req[r].op \in {"updateProfile", "changePassword"}
  BY <1>2 DEF Payload, Columns, Authors
<1>3. CASE req[r].op = "signIn" /\ ~Mistaken(r)
  BY <1>3 DEF Payload, Columns, Tried
<1>4. CASE req[r].op = "signIn" /\ Mistaken(r)
  <2>1. Payload(r) \in Prices
    BY <1>4 DEF Payload
  <2>. QED
    BY <1>4, <2>1 DEF Prices, Columns, Signed, Tried
<1>. QED
  BY <1>1, <1>2, <1>3, <1>4 DEF Updates

\* A sign-in is compared with the row, and is refused, fails or goes on.
LEMMA SignInChecked ==
    ASSUME IInv, NEW r \in Requests, CheckSignIn(r)
    PROVE  LET row == admin[req[r].arg.email]
           IN  \/ Refuse(r) \/ Error(r)
               \/ /\ row # None /\ row.status = "active"
                  /\ \/ Continue(r, [pc |-> "reread", mail |-> "pending"])
                     \/ \E cost \in Prices :
                           /\ Continue(r, [pc |-> "reread", plan |-> cost])
                           /\ "status" \in DOMAIN cost => cost["status"] = "locked"
<1>. DEFINE row == admin[req[r].arg.email]
<1>1. req[r] # None /\ req[r].arg.email \in Emails
  BY RequestsComeLater DEF CheckSignIn, At, InFlight, RequestOK, AdminUpdate, Updates
<1>2. ASSUME row # None, row.status # "locked", row.password # None
      PROVE  row.status = "active"
  BY <1>1, <1>2 DEF IInv, TablesOK, AdminRecords
<1>3. \A cost \in Costs(row) :
          cost \in Prices /\ ("status" \in DOMAIN cost => cost["status"] = "locked")
  BY DEF Costs, Prices
<1>. QED
  BY <1>2, <1>3 DEF CheckSignIn

LEMMA UpdateReads ==
    ASSUME IInv, NEW r \in Requests,
           CheckAdmin(r) \/ CheckSignIn(r) \/ RereadAdmin(r) \/ SelectAdmin(r) \/ WriteAdmin(r)
    PROVE  IInv'
<1>. DEFINE row == admin[req[r].arg.email]
            op == req[r].op
<1>1. /\ InFlight(r) /\ op \in Updates /\ req[r] # None
      /\ Recorded(r) /\ AdminUpdate(r) /\ DOMAIN req = Requests /\ faults \in 0 .. MaxFaults
      /\ req[r].arg.email \in Emails
  BY RequestsComeLater
  DEF CheckAdmin, CheckSignIn, At, RereadAdmin, SelectAdmin, WriteAdmin, InFlight, RequestOK,
      AdminUpdate, Updates
<1>2. ASSUME NEW changes, DOMAIN changes \subseteq {"pc", "copy", "plan", "mail"},
             "pc" \in DOMAIN changes,
             changes["pc"] \in {"reread", "select", "write", "commit"},
             Continue(r, changes), row # None, op # "completeSignup" => row.status \in Signed,
             changes["pc"] = "reread" /\ op = "signIn" =>
                IF "mail" \in DOMAIN changes THEN changes["mail"] # None
                ELSE "plan" \in DOMAIN changes /\ changes["plan"] \in Prices,
             changes["pc"] = "select" => "copy" \in DOMAIN changes /\ Entity(changes["copy"]),
             changes["pc"] \in {"write", "commit"} =>
                IF "plan" \in DOMAIN changes THEN Difference(changes["plan"], row.status)
                ELSE Difference(req[r].plan, row.status)
      PROVE  IInv'
  <2>1. DOMAIN changes \subseteq Fields \ {"op", "arg", "on", "start", "answer"} /\ req' = With(r, changes)
    BY <1>2 DEF Fields, Continue
  <2>2. /\ SameRequest(r)
        /\ \A c \in DOMAIN changes : req'[r][c] = changes[c]
        /\ \A c \in Fields \ DOMAIN changes : req'[r][c] = req[r][c]
    BY <1>1, <2>1, WithChanges
  <2>3. /\ req'[r].op = op /\ req'[r].arg = req[r].arg /\ req'[r].pc = changes["pc"]
        /\ "copy" \in DOMAIN changes => req'[r].copy = changes["copy"]
        /\ "mail" \in DOMAIN changes => req'[r].mail = changes["mail"]
        /\ req'[r].plan = IF "plan" \in DOMAIN changes THEN changes["plan"] ELSE req[r].plan
    BY <1>2, <2>2 DEF SameRequest, Fields
  <2>4. AdminUpdate(r)'
    <3>1. UNCHANGED admin
      BY <1>2 DEF Continue, tables
    <3>2. req'[r].pc = "reread" /\ Mistaken(r)' => req'[r].plan \in Prices
      BY <1>2, <2>3 DEF Mistaken
    <3>. QED
      BY <1>1, <1>2, <2>3, <3>1, <3>2 DEF AdminUpdate, Entity, Difference
  <2>5. Invitation(r)' /\ RoleUpdate(r)'
    BY <1>1, <2>3 DEF Invitation, RoleUpdate, Updates
  <2>6. WritesNothing(r)
    BY <1>1, <2>3 DEF WritesNothing, Inserted, RoleWriter, Updates
  <2>7. UNCHANGED <<tables, processes>> /\ mailed \subseteq mailed' /\ faults' \in 0 .. MaxFaults
    BY <1>1, <1>2 DEF Continue
  <2>. QED
    BY <1>1, <1>2, <2>1, <2>4, <2>5, <2>6, <2>7, ReadKeeps
<1>3. CASE CheckAdmin(r)
  <2>1. CASE Refuse(r)
    BY <1>1, <2>1, RefusalKeeps
  <2>2. CASE Acceptable(r) /\ Continue(r, [pc |-> "reread"])
    <3>1. row # None /\ op # "signIn"
      BY <1>3, <2>2 DEF CheckAdmin, Acceptable
    <3>2. op # "completeSignup" => row.status \in Signed
      BY <1>1, <3>1 DEF AdminUpdate, Updates
    <3>. QED
      BY <1>2, <2>2, <3>1, <3>2
  <2>. QED
    BY <1>3, <2>1, <2>2 DEF CheckAdmin
<1>7. CASE CheckSignIn(r)
  <2>1. CASE Refuse(r) \/ Error(r)
    BY <1>1, <2>1, RefusalKeeps
  <2>2. CASE /\ row # None /\ row.status = "active"
             /\ Continue(r, [pc |-> "reread", mail |-> "pending"])
    BY <1>2, <2>2, NothingAssumption DEF Signed
  <2>3. CASE /\ row # None /\ row.status = "active"
             /\ \E cost \in Prices : Continue(r, [pc |-> "reread", plan |-> cost])
    BY <1>2, <2>3 DEF Signed
  <2>. QED
    BY <1>7, <2>1, <2>2, <2>3, SignInChecked
<1>4. CASE RereadAdmin(r)
  <2>. DEFINE old == [c \in Columns |-> row[c]]
              copy == Over(Payload(r), old)
  <2>1. req[r].pc = "reread" /\ row # None
    BY <1>1, <1>4 DEF RereadAdmin, AdminUpdate
  <2>2. row \in AdminRecords /\ (row.password = None <=> row.status = "incomplete_profile")
    BY <1>1, <2>1 DEF IInv, TablesOK
  <2>3. /\ op # "completeSignup" => row.status \in Signed
        /\ Mistaken(r) => req[r].plan \in Prices
    BY <1>1, <2>1 DEF AdminUpdate
  <2>4. /\ DOMAIN old = Columns /\ old["status"] = row.status /\ old["password"] = row.password
        /\ old["profile"] = row.profile /\ old["attempts"] = row.attempts
    BY DEF Columns
  <2>5. /\ row.password \in Authors \cup {None} /\ row.profile \in Authors \cup {None}
        /\ row.attempts \in Tried /\ (row.status \in Signed => row.password \in Authors)
    BY <2>2 DEF AdminRecords, Authors, Signed, Tried
  <2>. HIDE DEF old
  <2>6. DOMAIN copy = DOMAIN Payload(r) \cup DOMAIN old
        /\ (\A c \in DOMAIN Payload(r) : copy[c] = Payload(r)[c])
        /\ (\A c \in DOMAIN old \ DOMAIN Payload(r) : copy[c] = old[c])
    BY Overridden
  <2>7. Entity(copy)
    BY <1>1, <2>3, <2>4, <2>5, <2>6, PayloadTyped DEF Entity, Columns
  <2>8. Continue(r, [pc |-> "select", copy |-> copy])
    BY <1>4 DEF RereadAdmin, old
  <2>. HIDE DEF copy
  <2>. QED
    BY <1>2, <2>1, <2>3, <2>7, <2>8
<1>5. CASE SelectAdmin(r)
  <2>. DEFINE changed == {c \in Columns : req[r].copy[c] # row[c]}
              plan == [c \in changed |-> req[r].copy[c]]
  <2>1. /\ req[r].pc = "select" /\ row # None /\ Entity(req[r].copy)
        /\ op # "completeSignup" => row.status \in Signed
    BY <1>1, <1>5 DEF SelectAdmin, AdminUpdate
  <2>2. /\ row.status \in {"incomplete_profile"} \cup Signed
        /\ row.status = "incomplete_profile" => row.password = None
    BY <1>1, <2>1 DEF IInv, TablesOK, AdminRecords, Signed
  <2>3. None \notin Authors
    BY NothingAssumption DEF Authors
  <2>4. Difference(plan, row.status)
    BY <2>1, <2>2, <2>3 DEF Difference, Entity, Columns, Signed
  <2>5. Continue(r, [pc |-> "write", copy |-> None, plan |-> plan])
    BY <1>5 DEF SelectAdmin
  <2>. HIDE DEF plan
  <2>. QED
    BY <1>2, <2>1, <2>4, <2>5
<1>6. CASE WriteAdmin(r)
  <2>1. /\ req[r].pc = "write" /\ row # None /\ Difference(req[r].plan, row.status)
        /\ op # "completeSignup" => row.status \in Signed
    BY <1>1, <1>6 DEF WriteAdmin, AdminUpdate
  <2>. QED
    BY <1>2, <1>6, <2>1 DEF WriteAdmin
<1>. QED
  BY <1>3, <1>4, <1>5, <1>6, <1>7

LEMMA PublishLoginKeeps ==
    ASSUME IInv, NEW r \in Requests, PublishLogin(r)
    PROVE  IInv'
<1>1. /\ InFlight(r) /\ req[r].op = "signIn" /\ req[r].pc = "commit" /\ req[r] # None
      /\ Recorded(r) /\ AdminUpdate(r) /\ DOMAIN req = Requests /\ faults \in 0 .. MaxFaults
  BY RequestsComeLater DEF PublishLogin, Open, InFlight, RequestOK
<1>2. CASE Continue(r, [mail |-> "done"])
  <2>. DEFINE changes == [mail |-> "done"]
  <2>1. DOMAIN changes = {"mail"} /\ req' = With(r, changes)
    BY <1>2 DEF Continue
  <2>2. DOMAIN changes \subseteq Fields \ {"op", "arg", "on", "start", "answer"}
        /\ {"pc", "plan"} \subseteq Fields \ DOMAIN changes
    BY <2>1 DEF Fields
  <2>. HIDE DEF changes
  <2>3. SameRequest(r) /\ req'[r].pc = "commit" /\ req'[r].plan = req[r].plan
    BY <1>1, <2>1, <2>2, WithChanges
  <2>4. /\ req'[r].op = "signIn" /\ req'[r].arg = req[r].arg
        /\ UNCHANGED <<tables, mailed, processes, faults>> /\ UNCHANGED admin
    BY <1>1, <1>2, <2>3 DEF SameRequest, Continue, tables
  <2>5. AdminUpdate(r)'
    BY <1>1, <2>3, <2>4 DEF AdminUpdate
  <2>6. Invitation(r)' /\ RoleUpdate(r)' /\ WritesNothing(r)
    BY <2>3, <2>4 DEF Invitation, RoleUpdate, WritesNothing, Inserted, RoleWriter
  <2>. QED
    BY <1>1, <2>1, <2>2, <2>4, <2>5, <2>6, ReadKeeps
<1>3. CASE /\ faults < MaxFaults /\ faults' = faults + 1
           /\ req' = Answered(r, "error") /\ UNCHANGED <<tables, mailed, processes, met>>
  <2>1. faults' \in 0 .. MaxFaults
    BY <1>1, <1>3, RequestsAssumption
  <2>. QED
    BY <1>1, <1>3, <2>1, AnswerKeeps
<1>. QED
  BY <1>2, <1>3 DEF PublishLogin

-----------------------------------------------------------------------------
(* The end of a process. *)

LEMMA LostOK ==
    ASSUME NEW r \in Requests, Recorded(r), req[r] # None, req'[r] = Over(Finished("lost"), req[r])
    PROVE  /\ SameRequest(r) /\ req'[r].pc = "done" /\ req'[r].answer = "lost"
           /\ ~InFlight(r)' /\ RequestOK(r)'
<1>. DEFINE changes == Finished("lost")
            old == req[r]
<1>1. /\ DOMAIN changes = {"pc", "on", "copy", "plan", "mail", "insertion", "answer"}
      /\ changes["pc"] = "done" /\ changes["answer"] = "lost"
  BY DEF Finished
<1>2. DOMAIN old = Fields
  BY DEF Recorded
<1>. HIDE DEF changes
<1>3. DOMAIN Over(changes, old) = DOMAIN changes \cup DOMAIN old
      /\ (\A c \in DOMAIN changes : Over(changes, old)[c] = changes[c])
      /\ (\A c \in DOMAIN old \ DOMAIN changes : Over(changes, old)[c] = old[c])
  BY Overridden
<1>4. req'[r] = Over(changes, old)
  BY DEF changes
<1>5. SameRequest(r) /\ req'[r].pc = "done" /\ req'[r].answer = "lost"
  BY <1>1, <1>2, <1>3, <1>4 DEF SameRequest, Fields
<1>6. ~InFlight(r)'
  BY <1>5 DEF InFlight
<1>7. Recorded(r)'
  BY <1>5, NothingAssumption DEF Recorded, SameRequest
<1>. QED
  BY <1>5, <1>6, <1>7 DEF RequestOK, Invitation, AdminUpdate, RoleUpdate, Written, RoleWriter, Open, InFlight

\* Its requests are lost, and the rest stays.
LEMMA Ending ==
    ASSUME IInv, NEW i \in Instances, NEW how, Ends(i, how), NEW r \in Requests
    PROVE  \/ req'[r] = req[r] /\ ~(InFlight(r) /\ req[r].on = i)
           \/ /\ InFlight(r) /\ SameRequest(r) /\ req'[r].pc = "done" /\ req'[r].answer = "lost"
              /\ ~InFlight(r)' /\ RequestOK(r)'
<1>1. req'[r] = IF InFlight(r) /\ req[r].on = i THEN Over(Finished("lost"), req[r]) ELSE req[r]
  BY DEF Ends
<1>2. Recorded(r)
  BY DEF IInv, RequestOK
<1>3. CASE InFlight(r) /\ req[r].on = i
  BY <1>1, <1>2, <1>3, LostOK DEF InFlight
<1>. QED
  BY <1>1, <1>3

LEMMA EndsKeeps ==
    ASSUME IInv, NEW i \in Instances, NEW how \in {"down", "failed"}, Ends(i, how),
           faults' \in 0 .. MaxFaults
    PROVE  IInv'
<1>1. /\ UNCHANGED <<admin, role, permission, mailed>> /\ UNCHANGED tables
      /\ DOMAIN req' = Requests
      /\ instance' = [instance EXCEPT ![i] = how] /\ found' = [found EXCEPT ![i] = {}]
  BY DEF Ends, tables
<1>2. \A r \in Requests : RequestOK(r)'
  BY <1>1, Ending, OtherRequest, QuietTables DEF IInv
<1>3. ASSUME NEW q \in Requests, NEW r \in Requests, q # r
      PROVE  Apart(q, r)'
  <2>1. ASSUME NEW o \in Requests
        PROVE  /\ Inserted(o)' => Inserted(o) /\ req'[o] = req[o]
               /\ RoleWriter(o)' => RoleWriter(o) /\ req'[o] = req[o]
    BY Ending DEF Inserted, RoleWriter, Open, InFlight
  <2>. QED
    BY <1>3, <2>1 DEF IInv, Apart, WrittenRole
<1>4. TablesOK' /\ ProcessesOK'
  <2>1. /\ instance' \in
              [Instances -> {"starting", "find", "save", "commit", "rates", "up", "down", "failed"}]
        /\ found' \in [Instances -> SUBSET Names]
        /\ \A j \in Instances : found'[j] # {} => instance'[j] \in {"save", "commit"}
    BY <1>1 DEF IInv, ProcessesOK
  <2>. QED
    BY <1>1, <2>1 DEF IInv, TablesOK, ProcessesOK
<1>5. ReferencesHold'
  BY <1>1 DEF IInv, ReferencesHold, SlugTaken
<1>6. Seeded'
  <2>1. \A r \in Requests : req[r] = None => req'[r] = None
    BY Ending DEF InFlight
  <2>2. \A j \in Instances :
            instance[j] \notin {"rates", "up"} => instance'[j] \notin {"rates", "up"}
    BY <1>1 DEF IInv, TablesOK
  <2>. QED
    BY <1>1, <2>1, <2>2 DEF IInv, Seeded
<1>7. ASSUME NEW j \in Instances
      PROVE  SeedingOK(j)'
  <2>1. instance'[j] \in {"save", "commit"} => j # i
    BY <1>1 DEF IInv, ProcessesOK
  <2>. QED
    BY <1>1, <2>1 DEF IInv, SeedingOK, TablesOK
<1>. QED
  BY <1>1, <1>2, <1>3, <1>4, <1>5, <1>6, <1>7 DEF IInv

-----------------------------------------------------------------------------
(* An INSERT, and commits. *)

LEMMA InsertKeeps ==
    ASSUME IInv, NEW r \in Requests, InsertInvited(r)
    PROVE  IInv'
<1>1. /\ InFlight(r) /\ req[r].op = "inviteAdmin" /\ req[r].pc = "sending" /\ req[r] # None
      /\ role[Super] # None /\ Recorded(r) /\ Invitation(r) /\ DOMAIN req = Requests
      /\ faults \in 0 .. MaxFaults
  BY RequestsComeLater DEF InsertInvited, At, InFlight, RequestOK
<1>2. CASE Error(r)
  BY <1>1, <1>2, RefusalKeeps
<1>3. CASE Ends(req[r].on, "down") /\ UNCHANGED faults
  <2>1. req[r].on \in Instances
    BY <1>1 DEF Recorded
  <2>. QED
    BY <1>1, <1>3, <2>1, EndsKeeps
<1>4. CASE /\ admin[req[r].arg.email] = None /\ role[req[r].arg.role] # None
           /\ Continue(r, [insertion |-> "done"])
  <2>. DEFINE changes == [insertion |-> "done"]
  <2>1. DOMAIN changes = {"insertion"} /\ changes["insertion"] = "done"
    OBVIOUS
  <2>2. req' = With(r, changes) /\ UNCHANGED <<tables, mailed, processes, met, faults>>
    BY <1>4 DEF Continue
  <2>. HIDE DEF changes
  <2>3. /\ OnlyOf(r) /\ SameRequest(r) /\ req'[r].insertion = "done"
        /\ req'[r].pc = req[r].pc /\ req'[r].mail = req[r].mail /\ req'[r].answer = req[r].answer
        /\ req'[r].on = req[r].on
    <3>1. DOMAIN changes \subseteq Fields \ {"op", "arg", "start"}
          /\ {"pc", "mail", "answer", "on"} \subseteq Fields \ DOMAIN changes
      BY <2>1 DEF Fields
    <3>. QED
      BY <1>1, <2>1, <2>2, <3>1, WithChanges
  <2>4. Recorded(r)' /\ req'[r].op = "inviteAdmin" /\ req'[r].arg = req[r].arg
    BY <1>1, <2>3 DEF Recorded, SameRequest
  <2>5. Invitation(r)'
    BY <1>1, <1>4, <2>2, <2>3, <2>4 DEF Invitation, InFlight, tables
  <2>6. RequestOK(r)' /\ ~RoleWriter(r)'
    BY <2>4, <2>5 DEF RequestOK, AdminUpdate, RoleUpdate, Written, RoleWriter, Updates
  <2>7. \A q \in Requests \ {r} : Inserted(q) => req[q].arg.email # req[r].arg.email
    BY DEF InsertInvited
  <2>8. \A p, q \in Requests : p # q => Apart(p, q)'
    <3>. SUFFICES ASSUME NEW p \in Requests, NEW q \in Requests, p # q
                  PROVE  Apart(p, q)'
      OBVIOUS
    <3>1. ASSUME NEW o \in Requests \ {r}
          PROVE  /\ req'[o] = req[o] /\ (Inserted(o)' <=> Inserted(o))
                 /\ (RoleWriter(o)' <=> RoleWriter(o)) /\ WrittenRole(o)' = WrittenRole(o)
      BY <2>3 DEF OnlyOf, Inserted, RoleWriter, Open, InFlight, WrittenRole
    <3>. QED
      BY <2>4, <2>6, <2>7, <3>1 DEF IInv, Apart
  <2>. QED
    BY <1>1, <2>2, <2>3, <2>6, <2>8, StepKeeps
<1>. QED
  BY <1>2, <1>3, <1>4 DEF InsertInvited

LEMMA CommitKeeps ==
    ASSUME IInv, NEW r \in Requests, InFlight(r), NEW answer \in {"ok", "refused"},
           req' = Answered(r, answer), UNCHANGED <<mailed, processes, faults>>,
           TablesOK', ReferencesHold', role[Super] # None => role'[Super] # None /\ Seeded',
           \A q \in Requests \ {r} : Relies(q),
           \A i \in Instances :
              instance[i] = "commit" => found[i] \subseteq permission' \cup DefaultPermissions
    PROVE  IInv'
<1>1. role[Super] # None /\ Recorded(r) /\ DOMAIN req = Requests /\ req[r] # None
  BY RequestsComeLater DEF InFlight
<1>2. OnlyOf(r) /\ RequestOK(r)' /\ ~InFlight(r)'
  BY <1>1, AnsweredOK
<1>3. \A p, q \in Requests : p # q => Apart(p, q)'
  <2>1. WritesNothing(r)
    BY <1>2 DEF WritesNothing, Inserted, RoleWriter, Open
  <2>. QED
    BY <1>2, <2>1, StillApart
<1>4. \A q \in Requests : RequestOK(q)'
  BY <1>2, OtherRequest DEF OnlyOf, IInv
<1>5. TablesOK' /\ ProcessesOK'
  BY DEF IInv, ProcessesOK, processes
<1>6. ASSUME NEW i \in Instances
      PROVE  SeedingOK(i)'
  BY DEF IInv, SeedingOK, processes
<1>. QED
  BY <1>1, <1>2, <1>3, <1>4, <1>5, <1>6 DEF IInv, OnlyOf

LEMMA EndInvitationKeeps ==
    ASSUME IInv, NEW r \in Requests, EndInvitation(r)
    PROVE  IInv'
<1>. DEFINE e == req[r].arg.email
            new == NewAdmin("incomplete_profile", req[r].arg.role, None, None, req[r].start + 2)
<1>1. /\ InFlight(r) /\ req[r].op = "inviteAdmin" /\ req[r].insertion = "done"
      /\ Recorded(r) /\ Invitation(r) /\ DOMAIN req = Requests /\ req[r] # None
  BY RequestsComeLater DEF EndInvitation, At, InFlight, RequestOK
<1>2. CASE Error(r)
  BY <1>1, <1>2, RefusalKeeps
<1>3. CASE /\ admin' = [admin EXCEPT ![e] = new] /\ req' = Answered(r, "ok")
           /\ UNCHANGED <<role, permission, mailed, processes, met, faults>>
  <2>1. /\ e \in Emails \ {Root} /\ req[r].arg.role \in Roles /\ role[req[r].arg.role] # None
        /\ admin[e] = None
    BY <1>1 DEF Invitation
  <2>2. /\ new \in AdminRecords /\ new.password = None /\ new.status = "incomplete_profile"
        /\ new.role = req[r].arg.role
    BY <1>1, <2>1 DEF NewAdmin, AdminRecords, Recorded
  <2>. HIDE DEF new
  <2>3. admin'[e] = new /\ \A d \in Emails \ {e} : admin'[d] = admin[d]
    BY <1>3, <2>1 DEF IInv, TablesOK
  <2>4. TablesOK'
    BY <1>3, <2>1, <2>2, <2>3 DEF IInv, TablesOK
  <2>5. ReferencesHold'
    BY <1>3, <2>1, <2>2, <2>3 DEF IInv, ReferencesHold, SlugTaken
  <2>6. role[Super] # None => role'[Super] # None /\ Seeded'
    BY <1>3, <2>1, <2>3, RootAssumption DEF IInv, Seeded
  <2>7. ASSUME NEW q \in Requests \ {r}
        PROVE  Relies(q)
    <3>1. Apart(q, r) /\ RequestOK(q)
      BY DEF IInv
    <3>2. Inserted(q) => req[q].arg.email \in Emails \ {e}
      BY <1>1, <3>1 DEF Apart, Inserted, RequestOK, Invitation
    <3>. QED
      BY <1>3, <2>1, <2>3, <3>1, <3>2
      DEF Relies, RequestOK, Invitation, Written, Inserted, RoleWriter, Open, InFlight
  <2>8. \A i \in Instances : SeedingOK(i) /\ permission' = permission
    BY <1>3 DEF IInv
  <2>. QED
    BY <1>1, <1>3, <2>4, <2>5, <2>6, <2>7, <2>8, CommitKeeps DEF SeedingOK
<1>. QED
  BY <1>2, <1>3 DEF EndInvitation

\* An update leaves an admin who has signed up, of the same role.
LEMMA CommittedAdmin ==
    ASSUME IInv, NEW r \in Requests, CommitAdmin(r)
    PROVE  LET e   == req[r].arg.email
               row == admin[e]
               new == admin'[e]
           IN  /\ e \in Emails /\ row # None /\ req[r].pc = "commit" /\ req[r].op \in Updates
               /\ req' = Answered(r, IF Mistaken(r) THEN "refused" ELSE "ok")
               /\ \A d \in Emails \ {e} : admin'[d] = admin[d]
               /\ new \in AdminRecords /\ new # None /\ new.role = row.role /\ new.status \in Signed
               /\ new.status = IF "status" \in DOMAIN req[r].plan THEN req[r].plan["status"]
                               ELSE row.status
               /\ new.password # None /\ new.created_at = row.created_at
               /\ admin' \in [Emails -> AdminRecords \cup {None}]
               /\ InFlight(r) /\ UNCHANGED <<role, permission, mailed, processes, met, faults>>
<1>. DEFINE e == req[r].arg.email
            row == admin[e]
            plan == req[r].plan
            new == Over(plan, row)
<1>1. /\ InFlight(r) /\ req[r].op \in Updates /\ req[r].pc = "commit"
      /\ AdminUpdate(r) /\ req[r] # None
  BY RequestsComeLater DEF CommitAdmin, Open, InFlight, RequestOK
<1>2. e \in Emails /\ row # None /\ Difference(plan, row.status)
  BY <1>1 DEF AdminUpdate, Updates
<1>3. row \in AdminRecords /\ (row.password = None <=> row.status = "incomplete_profile")
  BY <1>2 DEF IInv, TablesOK
<1>4. /\ DOMAIN row = {"status", "role", "password", "profile", "attempts", "created_at"}
      /\ row.status \in {"incomplete_profile"} \cup Signed /\ row.role \in Roles
      /\ row.password \in {None, Root} \cup Requests /\ row.profile \in {None, Root} \cup Requests
      /\ row.attempts \in Tried /\ row.created_at \in Nat
  BY <1>3 DEF AdminRecords, Signed, Tried
<1>5. /\ admin' = [admin EXCEPT ![e] = new]
      /\ req' = Answered(r, IF Mistaken(r) THEN "refused" ELSE "ok")
      /\ UNCHANGED <<role, permission, mailed, processes, met, faults>>
  BY DEF CommitAdmin
<1>6. /\ DOMAIN new = DOMAIN plan \cup DOMAIN row
      /\ (\A c \in DOMAIN plan : new[c] = plan[c])
      /\ (\A c \in DOMAIN row \ DOMAIN plan : new[c] = row[c])
  BY Overridden
<1>. HIDE DEF new
<1>7. /\ DOMAIN new = {"status", "role", "password", "profile", "attempts", "created_at"}
      /\ new["role"] = row.role /\ new["created_at"] = row.created_at
      /\ new["status"] = IF "status" \in DOMAIN plan THEN plan["status"] ELSE row.status
      /\ new["password"] \in IF "password" \in DOMAIN plan THEN Authors ELSE {row.password}
      /\ new["profile"] \in Authors \cup {None} /\ new["attempts"] \in Tried
  BY <1>2, <1>4, <1>6 DEF Difference, Columns, Authors
<1>8. new = [status |-> new["status"], role |-> new["role"], password |-> new["password"],
             profile |-> new["profile"], attempts |-> new["attempts"],
             created_at |-> new["created_at"]]
  <2>1. new = [c \in DOMAIN new |-> new[c]]
    BY <1>6 DEF new, Over
  <2>. QED
    BY <1>7, <2>1
<1>9. new \in AdminRecords
  <2>1. new["status"] \in {"incomplete_profile", "active", "locked"}
    BY <1>2, <1>4, <1>7 DEF Difference, Signed
  <2>. QED
    BY <1>4, <1>7, <1>8, <2>1 DEF AdminRecords, Authors, Tried
<1>10. new # None /\ new.role = row.role /\ new.status \in Signed /\ new.password # None
  <2>1. new # None /\ new.role = row.role
    BY <1>7, <1>9, RowsAssumption
  <2>2. new.status \in Signed
    BY <1>2, <1>7 DEF Difference
  <2>3. row.status \in Signed => row.password # None
    BY <1>3 DEF Signed
  <2>4. None \notin Authors
    BY NothingAssumption DEF Authors
  <2>. QED
    BY <1>2, <1>7, <2>1, <2>2, <2>3, <2>4 DEF Difference
<1>11. /\ admin'[e] = new /\ \A d \in Emails \ {e} : admin'[d] = admin[d]
       /\ admin' \in [Emails -> AdminRecords \cup {None}]
  BY <1>2, <1>5, <1>9 DEF IInv, TablesOK
<1>12. /\ new.created_at = row.created_at
       /\ new.status = IF "status" \in DOMAIN plan THEN plan["status"] ELSE row.status
  BY <1>7
<1>. QED
  BY <1>1, <1>2, <1>5, <1>9, <1>10, <1>11, <1>12

LEMMA CommitAdminKeeps ==
    ASSUME IInv, NEW r \in Requests, CommitAdmin(r)
    PROVE  IInv'
<1>. DEFINE e == req[r].arg.email
            row == admin[e]
            new == admin'[e]
<1>1. /\ e \in Emails /\ row # None /\ \A d \in Emails \ {e} : admin'[d] = admin[d]
      /\ new # None /\ new.role = row.role /\ new.status \in Signed /\ new.password # None
      /\ admin' \in [Emails -> AdminRecords \cup {None}]
      /\ InFlight(r) /\ \E answer \in {"ok", "refused"} : req' = Answered(r, answer)
      /\ UNCHANGED <<role, permission, mailed, processes, met, faults>>
  BY CommittedAdmin
<1>2. TablesOK'
  BY <1>1 DEF IInv, TablesOK, Signed
<1>3. ReferencesHold'
  BY <1>1 DEF IInv, ReferencesHold, SlugTaken
<1>4. role[Super] # None => role'[Super] # None /\ Seeded'
  BY <1>1, RootAssumption DEF IInv, Seeded
<1>5. ASSUME NEW q \in Requests \ {r}
      PROVE  Relies(q)
  <2>1. RequestOK(q)
    BY DEF IInv
  <2>2. Inserted(q) => req[q].arg.email \in Emails \ {e} /\ admin[req[q].arg.email] = None
    BY <1>1, <2>1 DEF Inserted, RequestOK, Invitation
  <2>. QED
    BY <1>1, <2>1, <2>2
    DEF Relies, RequestOK, Invitation, Written, Inserted, RoleWriter, Open, InFlight
<1>. QED
  BY <1>1, <1>2, <1>3, <1>4, <1>5, CommitKeeps DEF IInv, SeedingOK

-----------------------------------------------------------------------------
(* The statements of roles and permissions. *)

RoleOps == {"createRole", "updateRole", "removeRole", "createPermissions", "removePermission"}

LEMMA RoleReads ==
    ASSUME IInv, NEW r \in Requests, InFlight(r), req[r].op \in RoleOps,
           NEW changes, DOMAIN changes \subseteq {"pc", "copy", "plan"}, "pc" \in DOMAIN changes,
           changes["pc"] \in {"names", "select", "write", "commit"}, Continue(r, changes),
           req[r].op \in {"updateRole", "removeRole"} => req[r].arg.role # Super,
           req[r].op = "updateRole" /\ changes["pc"] = "names" =>
              "copy" \in DOMAIN changes /\ changes["copy"] \in RoleRecords,
           req[r].op = "updateRole" /\ changes["pc"] = "select" =>
              /\ "copy" \in DOMAIN changes
              /\ changes["copy"].slug \in AllSlugs /\ changes["copy"].permissions \subseteq Names,
           req[r].op \in {"createRole", "updateRole"} /\ changes["pc"] \in {"write", "commit"} =>
              /\ "plan" \in DOMAIN changes
              /\ LET plan == changes["plan"]
                 IN  plan # None =>
                        /\ plan.slug \in AllSlugs \cup {None} /\ plan.adds \subseteq Names
                        /\ plan.new => plan.slug # None,
           req[r].op \in {"createRole", "updateRole"} /\ changes["pc"] = "commit" =>
              changes["plan"] = None
    PROVE  IInv'
<1>1. /\ req[r] # None /\ Recorded(r) /\ RoleUpdate(r) /\ DOMAIN req = Requests
      /\ faults \in 0 .. MaxFaults
  BY RequestsComeLater DEF InFlight, RequestOK
<1>2. DOMAIN changes \subseteq Fields \ {"op", "arg", "on", "start", "answer"} /\ req' = With(r, changes)
  BY DEF Fields, Continue
<1>3. /\ SameRequest(r)
      /\ \A c \in DOMAIN changes : req'[r][c] = changes[c]
  BY <1>1, <1>2, WithChanges
<1>4. /\ req'[r].op = req[r].op /\ req'[r].arg = req[r].arg /\ req'[r].pc = changes["pc"]
      /\ "copy" \in DOMAIN changes => req'[r].copy = changes["copy"]
      /\ "plan" \in DOMAIN changes => req'[r].plan = changes["plan"]
  BY <1>3 DEF SameRequest
<1>5. RoleUpdate(r)'
  BY <1>1, <1>4 DEF RoleUpdate, InFlight, Planned
<1>6. Invitation(r)' /\ AdminUpdate(r)'
  BY <1>4 DEF Invitation, AdminUpdate, Updates, RoleOps
<1>7. WritesNothing(r)
  BY <1>4 DEF WritesNothing, Inserted, RoleWriter, Open, RoleOps
<1>8. UNCHANGED <<tables, processes>> /\ mailed \subseteq mailed' /\ faults' \in 0 .. MaxFaults
  BY <1>1 DEF Continue
<1>. QED
  BY <1>2, <1>5, <1>6, <1>7, <1>8, ReadKeeps

\* A role that is there is a record, and none but the seeded one is the default.
LEMMA RolesTyped ==
    ASSUME IInv, NEW x \in Roles, role[x] # None
    PROVE  /\ role[x] \in RoleRecords /\ role[x].slug \in AllSlugs
           /\ role[x].permissions \subseteq Names /\ (x = Super => role[x].is_default)
           /\ None \notin AllSlugs /\ permission \subseteq Names
BY SlugsAssumption DEF IInv, TablesOK, RoleRecords, AllSlugs

LEMMA RoleReadsKeep ==
    ASSUME IInv, NEW r \in Requests,
           \/ CheckNewRole(r) \/ ReadRole(r) \/ ReadNames(r) \/ SelectRole(r)
           \/ CheckRemoval(r) \/ CheckNames(r) \/ InsertPermissions(r)
    PROVE  IInv'
<1>. DEFINE x == req[r].arg.role
            arg == req[r].arg
            copy == req[r].copy
<1>1. /\ InFlight(r) /\ req[r] # None /\ RoleUpdate(r) /\ role[Super] # None
  BY RequestsComeLater
  DEF CheckNewRole, ReadRole, ReadNames, SelectRole, CheckRemoval, CheckNames, InsertPermissions,
      At, InFlight, RequestOK
<1>2. permission \subseteq Names /\ Super \in Roles /\ None \notin AllSlugs
  BY SlugsAssumption DEF IInv, TablesOK, Roles, AllSlugs
<1>3. CASE Refuse(r) \/ Error(r)
  BY <1>1, <1>3, RefusalKeeps
<1>4. CASE CheckNewRole(r) /\ ~Refuse(r)
  <2>. DEFINE plan == [new |-> TRUE, slug |-> arg.slug, adds |-> arg.permissions, dels |-> {}]
  <2>1. /\ req[r].op = "createRole" /\ arg.permissions \subseteq permission
        /\ Continue(r, [pc |-> "write", plan |-> plan])
    BY <1>4 DEF CheckNewRole, At
  <2>2. arg.slug \in AllSlugs
    BY <1>1, <2>1 DEF RoleUpdate, AllSlugs
  <2>. QED
    BY <1>1, <1>2, <2>1, <2>2, RoleReads DEF RoleOps
<1>5. CASE ReadRole(r) /\ ~Refuse(r)
  <2>1. /\ req[r].op = "updateRole" /\ role[x] # None /\ ~role[x].is_default
        /\ Continue(r, [pc |-> "names", copy |-> role[x]])
    BY <1>5 DEF ReadRole, At
  <2>2. x \in Roles /\ x # Super /\ role[x] \in RoleRecords
    BY <1>1, <2>1, RolesTyped DEF RoleUpdate
  <2>. QED
    BY <1>1, <2>1, <2>2, RoleReads DEF RoleOps
<1>6. CASE ReadNames(r) /\ ~Refuse(r)
  <2>. DEFINE new == NewRole(IF arg.slug = None THEN copy.slug ELSE arg.slug, FALSE,
                             (copy.permissions \cup arg.adds) \ arg.dels)
  <2>1. /\ req[r].op = "updateRole" /\ req[r].pc = "names"
        /\ arg.adds \cup arg.dels \subseteq permission
        /\ Continue(r, [pc |-> "select", copy |-> new])
    BY <1>6 DEF ReadNames, At
  <2>2. x # Super /\ copy \in RoleRecords /\ arg.slug \in Slugs \cup {None}
    BY <1>1, <2>1 DEF RoleUpdate
  <2>3. new.slug \in AllSlugs /\ new.permissions \subseteq Names
    BY <1>2, <2>1, <2>2 DEF NewRole, RoleRecords, AllSlugs
  <2>. HIDE DEF new
  <2>. QED
    BY <1>1, <2>1, <2>2, <2>3, RoleReads DEF RoleOps
<1>7. CASE SelectRole(r)
  <2>. DEFINE row == role[x]
              plan == IF row = None
                      THEN [new |-> TRUE, slug |-> copy.slug, adds |-> copy.permissions, dels |-> {}]
                      ELSE [new |-> FALSE,
                            slug |-> IF copy.slug = row.slug THEN None ELSE copy.slug,
                            adds |-> copy.permissions \ row.permissions,
                            dels |-> row.permissions \ copy.permissions]
  <2>1. /\ req[r].op = "updateRole" /\ req[r].pc = "select"
        /\ Continue(r, [pc |-> IF Nothing(plan) THEN "commit" ELSE "write", copy |-> None,
                        plan |-> IF Nothing(plan) THEN None ELSE plan])
    BY <1>7 DEF SelectRole, At
  <2>2. x # Super /\ copy.slug \in AllSlugs /\ copy.permissions \subseteq Names
    BY <1>1, <2>1 DEF RoleUpdate
  <2>3. /\ plan.slug \in AllSlugs \cup {None} /\ plan.adds \subseteq Names
        /\ plan.new => plan.slug # None
    BY <1>2, <2>2
  <2>. HIDE DEF plan
  <2>4. CASE Nothing(plan)
    <3>1. Continue(r, [pc |-> "commit", copy |-> None, plan |-> None])
      BY <2>1, <2>4
    <3>. QED
      BY <1>1, <2>1, <2>2, <3>1, RoleReads DEF RoleOps
  <2>5. CASE ~Nothing(plan)
    <3>1. Continue(r, [pc |-> "write", copy |-> None, plan |-> plan])
      BY <2>1, <2>5
    <3>. QED
      BY <1>1, <2>1, <2>2, <2>3, <3>1, RoleReads DEF RoleOps
  <2>. QED
    BY <2>4, <2>5
<1>8. CASE CheckRemoval(r) /\ ~Refuse(r)
  <2>1. /\ req[r].op = "removeRole" /\ role[x] # None /\ ~role[x].is_default
        /\ Continue(r, [pc |-> "write"])
    BY <1>8 DEF CheckRemoval, At
  <2>2. x # Super
    BY <1>1, <2>1, RolesTyped DEF RoleUpdate
  <2>. QED
    BY <1>1, <2>1, <2>2, RoleReads DEF RoleOps
<1>9. CASE CheckNames(r) /\ ~Refuse(r)
  <2>1. req[r].op = "createPermissions" /\ Continue(r, [pc |-> "write"])
    BY <1>9 DEF CheckNames, At
  <2>. QED
    BY <1>1, <2>1, RoleReads DEF RoleOps
<1>10. CASE InsertPermissions(r) /\ ~Error(r)
  <2>1. req[r].op = "createPermissions" /\ Continue(r, [pc |-> "commit"])
    BY <1>10 DEF InsertPermissions, At
  <2>. QED
    BY <1>1, <2>1, RoleReads DEF RoleOps
<1>. QED
  BY <1>3, <1>4, <1>5, <1>6, <1>7, <1>8, <1>9, <1>10

LEMMA WriteRoleKeeps ==
    ASSUME IInv, NEW r \in Requests, WriteRole(r)
    PROVE  IInv'
<1>. DEFINE plan == req[r].plan
            x == WrittenRole(r)
<1>1. /\ InFlight(r) /\ req[r] # None /\ RoleUpdate(r) /\ Recorded(r) /\ role[Super] # None
      /\ req[r].op \in {"createRole", "updateRole"} /\ req[r].pc = "write"
      /\ DOMAIN req = Requests /\ faults \in 0 .. MaxFaults
  BY RequestsComeLater DEF WriteRole, InFlight, RequestOK
<1>2. CASE Error(r)
  BY <1>1, <1>2, RefusalKeeps
<1>3. CASE ~Violated(r) /\ Continue(r, [pc |-> "commit"])
  <2>. DEFINE changes == [pc |-> "commit"]
  <2>1. DOMAIN changes = {"pc"} /\ changes["pc"] = "commit"
    OBVIOUS
  <2>2. req' = With(r, changes) /\ UNCHANGED <<tables, mailed, processes, met, faults>>
    BY <1>3 DEF Continue
  <2>. HIDE DEF changes
  <2>3. /\ OnlyOf(r) /\ SameRequest(r) /\ req'[r].pc = "commit" /\ req'[r].plan = plan
        /\ req'[r].answer = req[r].answer /\ req'[r].on = req[r].on
    <3>1. DOMAIN changes \subseteq Fields \ {"op", "arg", "start"}
          /\ {"plan", "answer", "on"} \subseteq Fields \ DOMAIN changes
      BY <2>1 DEF Fields
    <3>. QED
      BY <1>1, <2>1, <2>2, <3>1, WithChanges
  <2>4. req'[r].op = req[r].op /\ req'[r].arg = req[r].arg /\ WrittenRole(r)' = x
    BY <2>3 DEF SameRequest, WrittenRole
  <2>5. Recorded(r)'
    BY <1>1, <2>3 DEF Recorded, SameRequest
  <2>6. RoleUpdate(r)'
    BY <1>1, <2>3, <2>4 DEF RoleUpdate, Planned
  <2>7. Invitation(r)' /\ AdminUpdate(r)' /\ ~Inserted(r)'
    BY <1>1, <2>4 DEF Invitation, AdminUpdate, Inserted, Updates
  <2>8. Written(r)'
    BY <1>3, <2>2, <2>3, <2>4 DEF Written, Violated, RoleWriter, SlugTaken, tables
  <2>9. \A p, q \in Requests : p # q => Apart(p, q)'
    <3>. SUFFICES ASSUME NEW p \in Requests, NEW q \in Requests, p # q
                  PROVE  Apart(p, q)'
      OBVIOUS
    <3>1. ASSUME NEW o \in Requests \ {r}
          PROVE  /\ req'[o] = req[o] /\ (Inserted(o)' <=> Inserted(o))
                 /\ (RoleWriter(o)' <=> RoleWriter(o)) /\ WrittenRole(o)' = WrittenRole(o)
      BY <2>3 DEF OnlyOf, Inserted, RoleWriter, Open, InFlight, WrittenRole
    <3>2. ASSUME NEW o \in Requests \ {r}, RoleWriter(o)
          PROVE  /\ WrittenRole(o) # x
                 /\ plan.slug = None \/ req[o].plan.slug # plan.slug
      BY <3>2 DEF WriteRole, RoleLocked, SlugLocked
    <3>3. CASE p # r /\ q # r
      BY <3>1, <3>3 DEF IInv, Apart
    <3>4. CASE p = r /\ q # r
      BY <2>3, <2>4, <2>7, <3>1, <3>2, <3>4 DEF Apart
    <3>5. CASE p # r /\ q = r
      BY <2>3, <2>4, <2>7, <3>1, <3>2, <3>5 DEF Apart
    <3>. QED
      BY <3>3, <3>4, <3>5
  <2>. QED
    BY <1>1, <2>2, <2>3, <2>5, <2>6, <2>7, <2>8, <2>9, StepKeeps DEF RequestOK
<1>. QED
  BY <1>2, <1>3 DEF WriteRole

\* A role that is saved: other writers have other roles and other slugs.
LEMMA CommitRoleKeeps ==
    ASSUME IInv, NEW r \in Requests, CommitRole(r)
    PROVE  IInv'
<1>. DEFINE plan == req[r].plan
            x == WrittenRole(r)
            new == Saved(r)
<1>1. /\ InFlight(r) /\ req[r] # None /\ RoleUpdate(r) /\ Written(r) /\ role[Super] # None
      /\ req[r].op \in {"createRole", "updateRole"} /\ req[r].pc = "commit"
  BY RequestsComeLater DEF CommitRole, Open, InFlight, RequestOK
<1>2. x \in Roles /\ x # Super
  BY <1>1, RolesAssumption DEF RoleUpdate, WrittenRole, Roles
<1>3. /\ role' = [role EXCEPT ![x] = new] /\ req' = Answered(r, "ok")
      /\ UNCHANGED <<admin, permission, mailed, processes, met, faults>>
  BY DEF CommitRole
<1>4. role'[x] = new /\ \A y \in Roles \ {x} : role'[y] = role[y]
  BY <1>2, <1>3 DEF IInv, TablesOK
<1>5. permission \subseteq Names /\ None \notin AllSlugs
  BY SlugsAssumption DEF IInv, TablesOK, AllSlugs
<1>6. CASE new = role[x]
  <2>1. role' = role
    BY <1>3, <1>6 DEF IInv, TablesOK
  <2>2. TablesOK' /\ ReferencesHold' /\ Seeded'
    <3>1. TablesOK'
      BY <1>3, <2>1 DEF IInv, TablesOK
    <3>2. ReferencesHold'
      BY <1>3, <2>1 DEF IInv, ReferencesHold, SlugTaken
    <3>3. Seeded'
      BY <1>1, <1>3, <2>1 DEF IInv, Seeded
    <3>. QED
      BY <3>1, <3>2, <3>3
  <2>3. ASSUME NEW q \in Requests
        PROVE  Relies(q)
    BY <1>3, <2>1, QuietTables DEF tables, IInv
  <2>. QED
    BY <1>1, <1>3, <2>1, <2>2, <2>3, CommitKeeps DEF IInv, SeedingOK
<1>7. CASE new # role[x]
  <2>1. RoleWriter(r) /\ (role[x] # None \/ plan.new)
    BY <1>1, <1>7 DEF Saved, RoleWriter, Open
  <2>2. /\ plan.slug \in AllSlugs \cup {None} /\ (plan.new => plan.slug # None)
        /\ plan.adds \subseteq permission /\ (plan.slug # None => ~SlugTaken(x, plan.slug))
    BY <1>1, <2>1 DEF RoleUpdate, Planned, Written, RoleWriter
  <2>3. role[x] # None => role[x] \in RoleRecords /\ role[x].permissions \subseteq permission
    BY <1>2, RolesTyped DEF IInv, ReferencesHold
  <2>4. /\ new \in RoleRecords /\ new.permissions \subseteq permission /\ new.is_default = FALSE
        /\ IF plan.slug = None THEN role[x] # None /\ new.slug = role[x].slug
                               ELSE new.slug = plan.slug
    <3>1. plan # None
      BY <2>1 DEF RoleWriter
    <3>2. CASE plan.new
      <4>1. new = NewRole(plan.slug, FALSE, plan.adds)
        BY <3>1, <3>2 DEF Saved
      <4>. QED
        BY <1>5, <2>2, <3>2, <4>1 DEF NewRole, RoleRecords, AllSlugs
    <3>3. CASE ~plan.new
      <4>1. new = NewRole(IF plan.slug = None THEN role[x].slug ELSE plan.slug, FALSE,
                          (role[x].permissions \cup plan.adds) \ plan.dels)
            /\ role[x] # None
        BY <2>1, <3>1, <3>3 DEF Saved
      <4>2. role[x].slug \in AllSlugs
        BY <2>3, <4>1 DEF RoleRecords, AllSlugs
      <4>. QED
        BY <1>5, <2>2, <2>3, <4>1, <4>2 DEF NewRole, RoleRecords, AllSlugs
    <3>. QED
      BY <3>2, <3>3
  <2>5. new # None
    BY <2>4, RowsAssumption
  <2>. HIDE DEF new
  <2>6. ~SlugTaken(x, new.slug)
    BY <1>2, <2>2, <2>4 DEF IInv, ReferencesHold
  <2>7. TablesOK'
    BY <1>2, <1>3, <1>4, <2>4 DEF IInv, TablesOK
  <2>8. ReferencesHold'
    <3>1. ASSUME NEW e \in Emails, admin[e] # None
          PROVE  role'[admin[e].role] # None
      BY <1>4, <2>5, <3>1 DEF IInv, ReferencesHold, TablesOK, AdminRecords
    <3>2. ASSUME NEW y \in Roles, role'[y] # None
          PROVE  role'[y].permissions \subseteq permission
      BY <1>4, <2>4, <3>2 DEF IInv, ReferencesHold
    <3>3. ASSUME NEW y \in Roles, NEW z \in Roles, y # z, role'[y] # None, role'[z] # None
          PROVE  role'[y].slug # role'[z].slug
      <4>1. CASE y = x
        BY <1>4, <2>6, <3>3, <4>1 DEF SlugTaken
      <4>2. CASE z = x
        BY <1>4, <2>6, <3>3, <4>2 DEF SlugTaken
      <4>3. CASE y # x /\ z # x
        BY <1>4, <3>3, <4>3 DEF IInv, ReferencesHold, SlugTaken
      <4>. QED
        BY <4>1, <4>2, <4>3
    <3>. QED
      BY <1>3, <3>1, <3>2, <3>3 DEF ReferencesHold, SlugTaken
  <2>9. role'[Super] # None /\ Seeded'
    <3>1. Super \in Roles
      BY DEF Roles
    <3>. QED
      BY <1>1, <1>2, <1>3, <1>4, <3>1 DEF IInv, Seeded
  <2>10. ASSUME NEW q \in Requests \ {r}
         PROVE  Relies(q)
    <3>1. RequestOK(q) /\ Apart(r, q) /\ Apart(q, r)
      BY DEF IInv
    <3>2. Inserted(q) => role'[req[q].arg.role] # None /\ admin'[req[q].arg.email] = None
      BY <1>3, <1>4, <2>5, <3>1 DEF Inserted, RequestOK, Invitation
    <3>3. RoleWriter(q) =>
              /\ req[q].plan.adds \subseteq permission'
              /\ req[q].plan.slug # None =>
                    \A y \in Roles \ {WrittenRole(q)} :
                        role'[y] # None /\ role'[y].slug = req[q].plan.slug =>
                            role[y] # None /\ role[y].slug = req[q].plan.slug
      BY <1>3, <1>4, <2>1, <2>4, <3>1 DEF RequestOK, Written, Apart
    <3>. QED
      BY <1>3, <3>2, <3>3 DEF Relies
  <2>. QED
    BY <1>1, <1>3, <2>7, <2>8, <2>9, <2>10, CommitKeeps DEF IInv, SeedingOK
<1>. QED
  BY <1>6, <1>7

LEMMA DeleteRoleKeeps ==
    ASSUME IInv, NEW r \in Requests, DeleteRole(r)
    PROVE  IInv'
<1>. DEFINE x == req[r].arg.role
<1>1. /\ InFlight(r) /\ req[r] # None /\ role[Super] # None
      /\ x \in Roles /\ x # Super
  BY RequestsComeLater DEF DeleteRole, At, InFlight, RequestOK, RoleUpdate
<1>2. CASE Error(r)
  BY <1>1, <1>2, RefusalKeeps
<1>3. CASE /\ ~\E e \in Emails : admin[e] # None /\ admin[e].role = x
           /\ role' = [role EXCEPT ![x] = None] /\ req' = Answered(r, "ok")
           /\ UNCHANGED <<admin, permission, mailed, processes, met, faults>>
  <2>1. role'[x] = None /\ \A y \in Roles \ {x} : role'[y] = role[y]
    BY <1>1, <1>3 DEF IInv, TablesOK
  <2>2. TablesOK'
    BY <1>1, <1>3, <2>1 DEF IInv, TablesOK
  <2>3. ReferencesHold'
    BY <1>1, <1>3, <2>1 DEF IInv, ReferencesHold, SlugTaken, TablesOK, AdminRecords
  <2>4. role'[Super] # None /\ Seeded'
    <3>1. Super \in Roles
      BY DEF Roles
    <3>. QED
      BY <1>1, <1>3, <2>1, <3>1 DEF IInv, Seeded
  <2>5. ASSUME NEW q \in Requests \ {r}
        PROVE  Relies(q)
    <3>1. RequestOK(q) /\ (Inserted(q) => req[q].arg.role # x)
      BY DEF IInv, DeleteRole
    <3>. QED
      BY <1>3, <2>1, <3>1
      DEF Relies, RequestOK, Invitation, Written, Inserted, RoleWriter, Open, InFlight
  <2>. QED
    BY <1>1, <1>3, <2>2, <2>3, <2>4, <2>5, CommitKeeps DEF IInv, SeedingOK
<1>. QED
  BY <1>2, <1>3 DEF DeleteRole

LEMMA PermissionsKeep ==
    ASSUME IInv, NEW r \in Requests, CommitPermissions(r) \/ DeletePermission(r)
    PROVE  IInv'
<1>1. /\ InFlight(r) /\ req[r] # None /\ role[Super] # None /\ RoleUpdate(r)
  BY RequestsComeLater DEF CommitPermissions, DeletePermission, Open, At, InFlight, RequestOK
<1>2. CASE Refuse(r) \/ Error(r)
  BY <1>1, <1>2, RefusalKeeps
<1>3. ASSUME req' = Answered(r, "ok"), UNCHANGED <<admin, role, mailed, processes, met, faults>>,
             permission' \subseteq Names,
             \A x \in Roles : role[x] # None => role[x].permissions \subseteq permission',
             \A q \in Requests : RoleWriter(q) => req[q].plan.adds \subseteq permission',
             \A i \in Instances :
                instance[i] = "commit" => found[i] \subseteq permission' \cup DefaultPermissions
      PROVE  IInv'
  <2>1. TablesOK'
    BY <1>3 DEF IInv, TablesOK
  <2>2. ReferencesHold'
    BY <1>3 DEF IInv, ReferencesHold, SlugTaken
  <2>3. role'[Super] # None /\ Seeded'
    BY <1>1, <1>3 DEF IInv, Seeded
  <2>4. ASSUME NEW q \in Requests \ {r}
        PROVE  Relies(q)
    <3>1. RequestOK(q)
      BY DEF IInv
    <3>. QED
      BY <1>3, <3>1 DEF Relies, RequestOK, Invitation, Inserted, InFlight
  <2>. QED
    BY <1>1, <1>3, <2>1, <2>2, <2>3, <2>4, CommitKeeps
<1>4. CASE CommitPermissions(r)
  <2>1. permission' = permission \cup HandMade /\ permission \subseteq Names
    BY <1>1, <1>4 DEF CommitPermissions, RoleUpdate, IInv, TablesOK
  <2>2. permission' \subseteq Names
    BY <2>1 DEF Names
  <2>3. ASSUME NEW q \in Requests, RoleWriter(q)
        PROVE  req[q].plan.adds \subseteq permission
    BY <2>3 DEF IInv, RequestOK, Written
  <2>4. req' = Answered(r, "ok") /\ UNCHANGED <<admin, role, mailed, processes, met, faults>>
    BY <1>4 DEF CommitPermissions
  <2>5. \A x \in Roles : role[x] # None => role[x].permissions \subseteq permission'
    BY <2>1 DEF IInv, ReferencesHold
  <2>6. \A i \in Instances : instance[i] = "commit" => found[i] \subseteq permission' \cup DefaultPermissions
    BY <2>1 DEF IInv, SeedingOK
  <2>. QED
    BY <1>3, <2>1, <2>2, <2>3, <2>4, <2>5, <2>6
<1>5. CASE DeletePermission(r) /\ ~(Refuse(r) \/ Error(r))
  <2>. DEFINE p == req[r].arg.name
  <2>1. /\ ~PermissionLocked(p) /\ ~InUse(p) /\ permission' = permission \ {p}
        /\ req' = Answered(r, "ok") /\ UNCHANGED <<admin, role, mailed, processes, met, faults>>
    BY <1>5 DEF DeletePermission
  <2>2. permission' \subseteq Names
    BY <2>1 DEF IInv, TablesOK
  <2>3. \A x \in Roles : role[x] # None => role[x].permissions \subseteq permission'
    BY <2>1 DEF IInv, ReferencesHold, InUse
  <2>4. \A q \in Requests : RoleWriter(q) => req[q].plan.adds \subseteq permission'
    BY <2>1 DEF IInv, RequestOK, Written, PermissionLocked
  <2>5. \A i \in Instances : instance[i] = "commit" => found[i] \subseteq permission' \cup DefaultPermissions
    BY <2>1 DEF IInv, SeedingOK, PermissionLocked
  <2>. QED
    BY <1>3, <2>1, <2>2, <2>3, <2>4, <2>5
<1>. QED
  BY <1>2, <1>4, <1>5

-----------------------------------------------------------------------------
(* The seeding. *)

\* A step of a process that leaves tables and requests alone.
LEMMA MoveKeeps ==
    ASSUME IInv, NEW i \in Instances,
           NEW to \in {"starting", "find", "save", "commit", "up"}, Move(i, to),
           to = "up" => role[Super] # None,
           NEW names \in SUBSET Names, found' = [found EXCEPT ![i] = names],
           names # {} => to \in {"save", "commit"},
           to \in {"save", "commit"} => DefaultPermissions \subseteq names,
           to = "commit" => names \subseteq permission \cup DefaultPermissions,
           UNCHANGED <<tables, mailed, req, met, faults>>
    PROVE  IInv'
<1>1. /\ instance' = [instance EXCEPT ![i] = to]
      /\ UNCHANGED <<admin, role, permission, mailed, req, faults>>
  BY DEF Move, tables
<1>2. /\ instance'[i] = to /\ \A j \in Instances \ {i} : instance'[j] = instance[j]
      /\ found'[i] = names /\ \A j \in Instances \ {i} : found'[j] = found[j]
  BY <1>1 DEF IInv, ProcessesOK
<1>3. TablesOK' /\ ProcessesOK'
  BY <1>1, <1>2 DEF IInv, TablesOK, ProcessesOK
<1>4. ReferencesHold'
  BY <1>1 DEF IInv, ReferencesHold, SlugTaken
<1>5. Seeded'
  BY <1>1, <1>2 DEF IInv, Seeded
<1>6. \A r \in Requests : RequestOK(r)'
  BY <1>1, QuietTables, OtherRequest DEF IInv, tables
<1>7. \A q, r \in Requests : q # r => Apart(q, r)'
  BY <1>1 DEF IInv, Apart, Inserted, RoleWriter, Open, InFlight, WrittenRole
<1>8. ASSUME NEW j \in Instances
      PROVE  SeedingOK(j)'
  BY <1>1, <1>2 DEF IInv, SeedingOK
<1>. QED
  BY <1>1, <1>3, <1>4, <1>5, <1>6, <1>7, <1>8 DEF IInv

LEMMA CommitSeedKeeps ==
    ASSUME IInv, NEW i \in Instances, CommitSeed(i)
    PROVE  IInv'
<1>. DEFINE super == [slug |-> "super-admin", is_default |-> TRUE, permissions |-> found[i]]
            root == [status |-> "active", role |-> Super, password |-> Root, profile |-> Root,
                     attempts |-> "below", created_at |-> 0]
<1>1. /\ instance[i] = "commit"
      /\ permission' = permission \cup DefaultPermissions
      /\ role' = [role EXCEPT ![Super] = super]
      /\ admin' = IF admin[Root] # None THEN admin ELSE [admin EXCEPT ![Root] = root]
      /\ instance' = [instance EXCEPT ![i] = "rates"]
      /\ found' = [found EXCEPT ![i] = {}]
      /\ UNCHANGED <<mailed, req, faults>>
  BY DEF CommitSeed, Move
<1>2. DefaultPermissions \subseteq found[i] /\ found[i] \subseteq permission' /\ permission' \subseteq Names
  BY <1>1 DEF IInv, SeedingOK, TablesOK, Names
<1>3. super \in RoleRecords /\ root \in AdminRecords /\ Super \in Roles /\ Root \in Emails
  BY <1>2, RootAssumption DEF RoleRecords, AdminRecords, Roles
<1>4. super # None /\ root # None /\ Root # None
  BY <1>3, RowsAssumption, NothingAssumption
<1>5. /\ role'[Super] = super /\ \A x \in Roles \ {Super} : role'[x] = role[x]
      /\ instance'[i] = "rates" /\ \A j \in Instances \ {i} : instance'[j] = instance[j]
      /\ found'[i] = {} /\ \A j \in Instances \ {i} : found'[j] = found[j]
      /\ \A e \in Emails \ {Root} : admin'[e] = admin[e]
      /\ admin'[Root] = IF admin[Root] # None THEN admin[Root] ELSE root
  BY <1>1, <1>3 DEF IInv, TablesOK, ProcessesOK
<1>6. /\ role[Super] = None => \A x \in Roles : role[x] = None
      /\ role[Super] # None => role[Super].slug = "super-admin" /\ admin[Root] # None
                               /\ admin[Root].role = Super /\ admin[Root].status \in Signed
      /\ role[Super] = None => admin[Root] = None /\ \A r \in Requests : req[r] = None
  BY <1>3 DEF IInv, Seeded
<1>. HIDE DEF super, root
<1>7. /\ super.slug = "super-admin" /\ super.is_default = TRUE /\ super.permissions = found[i]
      /\ root.status = "active" /\ root.role = Super /\ root.password = Root
      /\ root.status \in Signed
  BY DEF super, root, Signed
<1>8. TablesOK' /\ ProcessesOK'
  <2>1. TablesOK'
    <3>1. admin' \in [Emails -> AdminRecords \cup {None}] /\ role' \in [Roles -> RoleRecords \cup {None}]
      BY <1>1, <1>3 DEF IInv, TablesOK
    <3>2. ASSUME NEW x \in Roles, role'[x] # None
          PROVE  role'[x].is_default = (x = Super)
      <4>1. CASE x = Super
        BY <1>5, <1>7, <4>1
      <4>2. CASE x # Super
        <5>1. role'[x] = role[x]
          BY <1>5, <4>2
        <5>. QED
          BY <3>2, <5>1 DEF IInv, TablesOK
      <4>. QED
        BY <4>1, <4>2
    <3>3. \A e \in Emails : admin'[e] # None =>
              (admin'[e].password = None <=> admin'[e].status = "incomplete_profile")
      BY <1>4, <1>5, <1>7 DEF IInv, TablesOK
    <3>. QED
      BY <1>2, <3>1, <3>2, <3>3 DEF TablesOK
  <2>2. /\ instance' \in
              [Instances -> {"starting", "find", "save", "commit", "rates", "up", "down", "failed"}]
        /\ found' \in [Instances -> SUBSET Names]
        /\ \A j \in Instances : found'[j] # {} => instance'[j] \in {"save", "commit"}
    BY <1>1, <1>5 DEF IInv, ProcessesOK
  <2>. QED
    BY <1>1, <2>1, <2>2 DEF IInv, ProcessesOK
<1>9. ReferencesHold'
  <2>1. ASSUME NEW e \in Emails, admin'[e] # None
        PROVE  role'[admin'[e].role] # None
    <3>1. admin'[e].role \in Roles
      BY <1>8, <2>1 DEF TablesOK, AdminRecords
    <3>. QED
      BY <1>4, <1>5, <1>6, <1>7, <2>1, <3>1 DEF IInv, ReferencesHold
  <2>2. ASSUME NEW x \in Roles, role'[x] # None
        PROVE  role'[x].permissions \subseteq permission'
    BY <1>1, <1>2, <1>5, <1>7, <2>2 DEF IInv, ReferencesHold
  <2>3. ASSUME NEW x \in Roles, NEW y \in Roles, x # y, role'[x] # None, role'[y] # None
        PROVE  role'[x].slug # role'[y].slug
    <3>1. CASE role[Super] = None
      BY <1>5, <1>6, <2>3, <3>1
    <3>2. CASE role[Super] # None
      BY <1>3, <1>5, <1>6, <1>7, <2>3, <3>2 DEF IInv, ReferencesHold, SlugTaken
    <3>. QED
      BY <3>1, <3>2
  <2>. QED
    BY <2>1, <2>2, <2>3 DEF ReferencesHold, SlugTaken
<1>10. Seeded'
  BY <1>2, <1>4, <1>5, <1>6, <1>7 DEF Seeded
<1>11. ASSUME NEW r \in Requests
       PROVE  RequestOK(r)'
  <2>1. RequestOK(r)
    BY DEF IInv
  <2>2. Relies(r)
    <3>1. CASE req[r] = None
      BY <3>1 DEF Relies, Inserted, RoleWriter, Open, InFlight
    <3>2. CASE req[r] # None
      <4>1. role[Super] # None /\ admin' = admin
        BY <1>1, <1>6, <3>2
      <4>2. \A x \in Roles : role'[x] # None => role[x] # None /\ role'[x].slug = role[x].slug
        BY <1>5, <1>6, <1>7, <4>1
      <4>3. Inserted(r) => role'[req[r].arg.role] # None
        BY <1>4, <1>5, <2>1 DEF Inserted, RequestOK, Invitation
      <4>. QED
        BY <1>1, <2>1, <4>1, <4>2, <4>3
        DEF Relies, RequestOK, Invitation, Written, Inserted, RoleWriter, Open, InFlight
    <3>. QED
      BY <3>1, <3>2
  <2>. QED
    BY <1>1, <2>1, <2>2, OtherRequest
<1>12. \A q, r \in Requests : q # r => Apart(q, r)'
  BY <1>1 DEF IInv, Apart, Inserted, RoleWriter, Open, InFlight, WrittenRole
<1>13. ASSUME NEW j \in Instances
       PROVE  SeedingOK(j)'
  BY <1>1, <1>5 DEF IInv, SeedingOK
<1>. QED
  BY <1>1, <1>8, <1>9, <1>10, <1>11, <1>12, <1>13 DEF IInv

LEMMA SeederKeeps ==
    ASSUME IInv, NEW i \in Instances, SeederStep(i)
    PROVE  IInv'
<1>1. faults \in 0 .. MaxFaults /\ found \in [Instances -> SUBSET Names] /\ permission \subseteq Names
  BY DEF IInv, TablesOK, ProcessesOK
<1>2. ASSUME NEW to, NEW names, found' = found, found[i] = names
      PROVE  found' = [found EXCEPT ![i] = names]
  BY <1>1, <1>2
<1>3. CASE SeedPermissions(i)
  <2>1. found[i] = {}
    BY <1>3 DEF SeedPermissions, IInv, ProcessesOK
  <2>. QED
    BY <1>1, <1>2, <1>3, <2>1, MoveKeeps DEF SeedPermissions
<1>4. CASE FindPermissions(i)
  <2>1. permission \cup DefaultPermissions \in SUBSET Names
    BY <1>1 DEF Names
  <2>. QED
    BY <1>4, <2>1, MoveKeeps DEF FindPermissions
<1>5. CASE SaveSeed(i)
  <2>1. CASE found[i] \subseteq permission \cup DefaultPermissions
    <3>1. DefaultPermissions \subseteq found[i] /\ found[i] \in SUBSET Names
      BY <1>1, <1>5 DEF SaveSeed, IInv, SeedingOK
    <3>2. Move(i, "commit") /\ UNCHANGED <<tables, mailed, found, req, met, faults>>
      BY <1>5, <2>1 DEF SaveSeed
    <3>3. found' = [found EXCEPT ![i] = found[i]]
      BY <1>2, <3>2
    <3>. QED
      BY <2>1, <3>1, <3>2, <3>3, MoveKeeps
  <2>2. CASE ~(found[i] \subseteq permission \cup DefaultPermissions)
    BY <1>1, <1>5, <2>2, EndsKeeps DEF SaveSeed
  <2>. QED
    BY <2>1, <2>2
<1>6. CASE CommitSeed(i)
  BY <1>6, CommitSeedKeeps
<1>7. CASE Crash(i)
  <2>1. faults' \in 0 .. MaxFaults
    BY <1>1, <1>7, RequestsAssumption DEF Crash
  <2>. QED
    BY <1>7, <2>1, EndsKeeps DEF Crash
<1>8. CASE Restart(i)
  <2>1. found[i] = {}
    BY <1>8 DEF Restart, IInv, ProcessesOK
  <2>. QED
    BY <1>1, <1>2, <1>8, <2>1, MoveKeeps DEF Restart
<1>9. CASE SeedRates(i)
  <2>1. instance[i] = "rates"
    BY <1>9 DEF SeedRates
  <2>2. CASE Move(i, "up") /\ UNCHANGED <<tables, mailed, found, req, met, faults>>
    <3>1. found[i] = {} /\ role[Super] # None
      BY <2>1 DEF IInv, ProcessesOK, Seeded
    <3>. QED
      BY <1>1, <1>2, <2>2, <3>1, MoveKeeps
  <2>3. CASE faults < MaxFaults /\ faults' = faults + 1 /\ Ends(i, "failed")
    <3>1. faults' \in 0 .. MaxFaults
      BY <1>1, <2>3, RequestsAssumption
    <3>. QED
      BY <2>3, <3>1, EndsKeeps
  <2>. QED
    BY <1>9, <2>2, <2>3 DEF SeedRates
<1>. QED
  BY <1>3, <1>4, <1>5, <1>6, <1>7, <1>8, <1>9 DEF SeederStep

-----------------------------------------------------------------------------
(* The invariant. *)

LEMMA AdminStepKeeps ==
    ASSUME IInv, NEW r \in Requests, AdminStep(r)
    PROVE  IInv'
BY InvitationReads, UpdateReads, PublishLoginKeeps, InsertKeeps, EndInvitationKeeps,
   CommitAdminKeeps
DEF AdminStep

LEMMA RoleStepKeeps ==
    ASSUME IInv, NEW r \in Requests, RoleStep(r)
    PROVE  IInv'
BY RoleReadsKeep, WriteRoleKeeps, CommitRoleKeeps, DeleteRoleKeeps, PermissionsKeep DEF RoleStep

LEMMA OthersKeep ==
    ASSUME IInv, UNCHANGED Others
    PROVE  IInv'
<1>1. UNCHANGED <<admin, role, permission, mailed, instance, found, req, met, faults>>
  BY DEF Others, tables, processes
<1>2. TablesOK' /\ ProcessesOK' /\ ReferencesHold' /\ Seeded' /\ DOMAIN req' = Requests
  BY <1>1 DEF IInv, TablesOK, ProcessesOK, ReferencesHold, Seeded, SlugTaken
<1>3. \A r \in Requests : RequestOK(r)'
  BY <1>1, QuietTables, OtherRequest DEF IInv, tables
<1>4. \A q, r \in Requests : q # r => Apart(q, r)'
  BY <1>1 DEF IInv, Apart, Inserted, RoleWriter, Open, InFlight, WrittenRole
<1>5. \A i \in Instances : SeedingOK(i)'
  BY <1>1 DEF IInv, SeedingOK
<1>. QED
  BY <1>2, <1>3, <1>4, <1>5 DEF IInv

LEMMA RootInUse ==
    Over([attempts |-> "allowed"], NewAdmin("active", Super, Root, Root, 0))
        = [status |-> "active", role |-> Super, password |-> Root, profile |-> Root,
           attempts |-> "allowed", created_at |-> 0]
BY DEF NewAdmin, Over

LEMMA InitOK ==
    ASSUME Init
    PROVE  IInv
<1>1. /\ found = [i \in Instances |-> {}] /\ req = [r \in Requests |-> None]
      /\ faults = 0 /\ MaxFaults \in Nat
  BY RequestsAssumption DEF Init
<1>2. {Super, Clerk} \subseteq Roles /\ Root \in Emails /\ Invited \in Emails /\ Root # Invited
      /\ Super # Clerk /\ Root # None
  BY RootAssumption, RolesAssumption, NothingAssumption DEF Roles
<1>3. /\ \A r \in Requests : RequestOK(r)
      /\ \A q, r \in Requests : q # r => Apart(q, r)
  BY <1>1 DEF RequestOK, Recorded, Invitation, AdminUpdate, RoleUpdate, Written, Apart, Inserted,
              RoleWriter, Open, InFlight
<1>4. CASE Fresh
  <2>1. admin = [e \in Emails |-> None] /\ role = [x \in Roles |-> None] /\ permission = {}
        /\ instance = [i \in Instances |-> "starting"]
    BY <1>4 DEF Fresh
  <2>2. TablesOK /\ ProcessesOK
    BY <1>1, <2>1 DEF TablesOK, ProcessesOK
  <2>3. ReferencesHold /\ Seeded
    BY <1>1, <1>2, <2>1 DEF ReferencesHold, Seeded
  <2>4. \A i \in Instances : SeedingOK(i)
    BY <2>1 DEF SeedingOK
  <2>. QED
    BY <1>1, <1>3, <2>2, <2>3, <2>4 DEF IInv
<1>5. CASE InUseAlready
  <2>. DEFINE root == Over([attempts |-> "allowed"], NewAdmin("active", Super, Root, Root, 0))
              invited == NewAdmin("incomplete_profile", Super, None, None, 1)
              super == NewRole("super-admin", TRUE, permission)
              clerk == NewRole("clerk", FALSE, {"view:User"})
  <2>1. /\ admin = [e \in Emails |-> CASE e = Root -> root [] e = Invited -> invited [] OTHER -> None]
        /\ role = [x \in Roles |-> CASE x = Super -> super [] x = Clerk -> clerk [] OTHER -> None]
        /\ DefaultPermissions \subseteq permission /\ permission \subseteq Names
        /\ instance = [i \in Instances |-> "up"]
    BY <1>5 DEF InUseAlready, Names
  <2>2. "view:User" \in permission
    BY <2>1 DEF DefaultPermissions
  <2>12. root = [status |-> "active", role |-> Super, password |-> Root, profile |-> Root,
                 attempts |-> "allowed", created_at |-> 0]
    BY RootInUse
  <2>3. root \in AdminRecords /\ invited \in AdminRecords
    BY <1>2, <2>12 DEF NewAdmin, AdminRecords
  <2>4. super \in RoleRecords /\ clerk \in RoleRecords
    BY <2>1, <2>2 DEF NewRole, RoleRecords
  <2>5. None \notin {root, invited, super, clerk}
    BY <2>3, <2>4, RowsAssumption
  <2>6. /\ root.status = "active" /\ root.role = Super /\ root.password = Root
        /\ root.status \in Signed
        /\ invited.status = "incomplete_profile" /\ invited.role = Super /\ invited.password = None
        /\ super.slug = "super-admin" /\ super.is_default = TRUE /\ super.permissions = permission
        /\ clerk.slug = "clerk" /\ clerk.is_default = FALSE /\ clerk.permissions = {"view:User"}
    BY <2>12 DEF NewAdmin, NewRole, Signed
  <2>. HIDE DEF root, invited, super, clerk
  <2>7. /\ admin[Root] = root /\ admin[Invited] = invited
        /\ \A e \in Emails \ {Root, Invited} : admin[e] = None
        /\ role[Super] = super /\ role[Clerk] = clerk /\ \A x \in Roles \ {Super, Clerk} : role[x] = None
    BY <1>2, <2>1
  <2>8. TablesOK /\ ProcessesOK
    <3>1. admin \in [Emails -> AdminRecords \cup {None}]
      BY <2>1, <2>3
    <3>2. role \in [Roles -> RoleRecords \cup {None}]
      BY <2>1, <2>4
    <3>3. \A e \in Emails : admin[e] # None =>
              (admin[e].password = None <=> admin[e].status = "incomplete_profile")
      BY <1>2, <2>6, <2>7
    <3>4. ASSUME NEW x \in Roles, role[x] # None
          PROVE  role[x].is_default = (x = Super)
      <4>1. x = Super \/ x = Clerk
        BY <2>7, <3>4
      <4>. QED
        BY <1>2, <2>6, <2>7, <4>1
    <3>. QED
      BY <1>1, <2>1, <3>1, <3>2, <3>3, <3>4 DEF TablesOK, ProcessesOK
  <2>9. ReferencesHold
    <3>1. \A e \in Emails : admin[e] # None => role[admin[e].role] # None
      BY <2>5, <2>6, <2>7
    <3>2. \A x \in Roles : role[x] # None => x \in {Super, Clerk} /\ role[x].permissions \subseteq permission
      BY <2>2, <2>6, <2>7
    <3>3. \A x, y \in Roles : x # y /\ role[x] # None /\ role[y] # None => role[x].slug # role[y].slug
      BY <2>6, <2>7
    <3>. QED
      BY <3>1, <3>2, <3>3 DEF ReferencesHold, SlugTaken
  <2>10. Seeded
    BY <1>1, <2>1, <2>5, <2>6, <2>7 DEF Seeded
  <2>11. \A i \in Instances : SeedingOK(i)
    BY <2>1 DEF SeedingOK
  <2>. QED
    BY <1>1, <1>3, <2>8, <2>9, <2>10, <2>11 DEF IInv
<1>. QED
  BY <1>4, <1>5 DEF Init

LEMMA NextKeeps ==
    ASSUME IInv, [Next]_vars
    PROVE  IInv'
<1>1. ASSUME NEW r \in Requests, AskAdmins(r) \/ AdminStep(r) \/ AskRoles(r) \/ RoleStep(r)
      PROVE  IInv'
  BY <1>1, AskAdminsKeeps, AdminStepKeeps, AskRolesKeeps, RoleStepKeeps
<1>2. CASE AskList \/ ReadList \/ CountList \/ Rest \/ UNCHANGED vars
  <2>1. UNCHANGED Others
    BY <1>2 DEF AskList, ReadList, CountList, Rest, vars, Others
  <2>. QED
    BY <2>1, OthersKeep
<1>. QED
  BY <1>1, <1>2, SeederKeeps DEF Next

LEMMA Invariance == Spec => []IInv
<1>1. Init => IInv
  BY InitOK
<1>2. IInv /\ [Next]_vars => IInv'
  BY NextKeeps
<1>. QED
  BY <1>1, <1>2, PTL DEF Spec

-----------------------------------------------------------------------------
(* What becomes of a request. *)

\* It begins, and meets those under way.
Started(r) ==
    /\ req[r] = None /\ OnlyOf(r) /\ req'[r] \in RequestRecords
    /\ InFlight(r)' /\ req'[r].answer = None /\ req'[r].plan = None
    /\ req'[r].op \in Updates \cup {"updateRole"} => req'[r].pc = "check"
    /\ req'[r].op = "updateRole" => role[req'[r].arg.role] # None
    /\ \A q \in Requests : InFlight(q) => {q, r} \in met'
    /\ req'[r].start = Cardinality({q \in Requests : req[q] # None /\ req[q].op = req'[r].op})

\* It goes on, or is answered.
GoesOn(r) ==
    /\ req'[r].answer = None
    /\ req[r].op = "inviteAdmin" /\ req[r].mail = "done" => req'[r].mail = "done"
    /\ req[r].op = "completeSignup" /\ req[r].pc = "check" => Acceptable(r)

IsAnswered(r) ==
    /\ req'[r].pc = "done" /\ req'[r].answer \in {"ok", "refused", "error", "lost"}
    /\ req[r].op = "inviteAdmin" =>
          /\ req[r].mail = "done" => req'[r].answer # "refused"
          /\ req'[r].answer = "ok" => admin'[req[r].arg.email] # None
    /\ req[r].op = "completeSignup" /\ req'[r].answer = "ok" =>
          /\ req[r].pc = "commit"
          /\ req[r].arg.email \in Emails /\ admin'[req[r].arg.email] # None
          /\ admin'[req[r].arg.email].status \in Signed

Proceeds(r) ==
    /\ InFlight(r) /\ SameRequest(r) /\ req'[r] \in RequestRecords
    /\ IF InFlight(r)' THEN GoesOn(r) ELSE IsAnswered(r)

Typed(changes) ==
    /\ "pc" \in DOMAIN changes =>
          changes["pc"] \in {"role", "sending", "reread", "names", "select", "write", "commit"}
    /\ "copy" \in DOMAIN changes => changes["copy"] \in Copies \cup {None}
    /\ "plan" \in DOMAIN changes => changes["plan"] \in Plans \cup {None}
    /\ "mail" \in DOMAIN changes => changes["mail"] \in {"pending", "done", "failed"}
    /\ "insertion" \in DOMAIN changes => changes["insertion"] \in {"pending", "done"}

LEMMA StillARecord ==
    ASSUME NEW new, new = [c \in Fields |-> new[c]], NEW old \in RequestRecords,
           new["op"] = old.op, new["arg"] = old.arg, new["start"] = old.start,
           new["on"] \in {old.on, None},
           new["pc"] = "done" \/ new["pc"] = old.pc
              \/ new["pc"] \in {"role", "sending", "reread", "names", "select", "write", "commit"},
           new["copy"] = old.copy \/ new["copy"] \in Copies \cup {None},
           new["plan"] = old.plan \/ new["plan"] \in Plans \cup {None},
           new["mail"] = old.mail \/ new["mail"] \in {None, "pending", "done", "failed"},
           new["insertion"] = old.insertion \/ new["insertion"] \in {None, "pending", "done"},
           new["answer"] = old.answer \/ new["answer"] \in {"ok", "refused", "error", "lost"}
    PROVE  new \in RequestRecords
<1>1. new = [op |-> new["op"], arg |-> new["arg"], on |-> new["on"], pc |-> new["pc"],
             start |-> new["start"], copy |-> new["copy"], plan |-> new["plan"],
             mail |-> new["mail"], insertion |-> new["insertion"], answer |-> new["answer"]]
  BY DEF Fields
<1>2. /\ old.op \in {"inviteAdmin", "createRole", "updateRole", "removeRole", "createPermissions",
                     "removePermission"} \cup Updates
      /\ old.arg \in Arguments /\ old.on \in Instances \cup {None}
      /\ old.pc \in {"email", "role", "sending", "check", "reread", "names", "select", "write",
                     "commit", "done"}
      /\ old.start \in Nat /\ old.copy \in Copies \cup {None} /\ old.plan \in Plans \cup {None}
      /\ old.mail \in {None, "pending", "done", "failed"}
      /\ old.insertion \in {None, "pending", "done"}
      /\ old.answer \in {None, "ok", "refused", "error", "lost"}
  BY DEF RequestRecords
<1>. QED
  BY <1>1, <1>2 DEF RequestRecords

LEMMA Continuing ==
    ASSUME IInv, RequestsOK, NEW r \in Requests, InFlight(r),
           NEW changes, DOMAIN changes \subseteq {"pc", "copy", "plan", "mail", "insertion"},
           Typed(changes), req' = With(r, changes),
           req[r].op = "inviteAdmin" /\ "mail" \in DOMAIN changes => req[r].mail # "done",
           req[r].op = "completeSignup" /\ req[r].pc = "check" => Acceptable(r)
    PROVE  OnlyOf(r) /\ Proceeds(r)
<1>1. Recorded(r) /\ req[r] # None /\ req[r].pc # "done" /\ DOMAIN req = Requests
  BY DEF IInv, RequestOK, InFlight
<1>2. DOMAIN changes \subseteq Fields \ {"op", "arg", "start"}
  BY DEF Fields
<1>3. /\ OnlyOf(r) /\ SameRequest(r)
      /\ \A c \in DOMAIN changes : req'[r][c] = changes[c]
      /\ \A c \in Fields \ DOMAIN changes : req'[r][c] = req[r][c]
  BY <1>1, <1>2, WithChanges
<1>4. req[r] \in RequestRecords
  BY <1>1 DEF RequestsOK
<1>5. req'[r] = [c \in Fields |-> req'[r][c]]
  <2>1. req'[r] = Over(changes, req[r])
    BY <1>1 DEF With
  <2>2. DOMAIN req'[r] = Fields
    BY <1>3 DEF SameRequest
  <2>. QED
    BY <2>1, <2>2 DEF Over
<1>6. /\ req'[r].op = req[r].op /\ req'[r].arg = req[r].arg /\ req'[r].start = req[r].start
      /\ req'[r].on = req[r].on /\ req'[r].answer = req[r].answer
      /\ req'[r].pc = IF "pc" \in DOMAIN changes THEN changes["pc"] ELSE req[r].pc
      /\ req'[r].copy = IF "copy" \in DOMAIN changes THEN changes["copy"] ELSE req[r].copy
      /\ req'[r].plan = IF "plan" \in DOMAIN changes THEN changes["plan"] ELSE req[r].plan
      /\ req'[r].mail = IF "mail" \in DOMAIN changes THEN changes["mail"] ELSE req[r].mail
      /\ req'[r].insertion = IF "insertion" \in DOMAIN changes THEN changes["insertion"]
                             ELSE req[r].insertion
  BY <1>2, <1>3 DEF SameRequest, Fields
<1>7. req'[r] \in RequestRecords
  <2>. DEFINE new == req'[r]
  <2>1. new = [c \in Fields |-> new[c]]
    BY <1>5
  <2>2. new \in RequestRecords
    <3>. HIDE DEF new
    <3>. QED
      BY <1>4, <1>6, <2>1, StillARecord DEF Typed, new
  <2>. QED
    BY <2>2
<1>8. InFlight(r)' /\ GoesOn(r)
  BY <1>1, <1>6, <1>7, RowsAssumption DEF InFlight, Typed, GoesOn, Recorded
<1>. QED
  BY <1>3, <1>7, <1>8 DEF Proceeds

LEMMA Answering ==
    ASSUME IInv, RequestsOK, NEW r \in Requests, InFlight(r),
           NEW answer \in {"ok", "refused", "error", "lost"}, req'[r] = Over(Finished(answer), req[r]),
           req[r].op = "inviteAdmin" =>
              /\ req[r].mail = "done" => answer # "refused"
              /\ answer = "ok" => admin'[req[r].arg.email] # None,
           req[r].op = "completeSignup" /\ answer = "ok" =>
              /\ req[r].pc = "commit"
              /\ req[r].arg.email \in Emails /\ admin'[req[r].arg.email] # None
              /\ admin'[req[r].arg.email].status \in Signed
    PROVE  Proceeds(r)
<1>. DEFINE changes == Finished(answer)
            old == req[r]
            new == req'[r]
<1>1. /\ DOMAIN changes = {"pc", "on", "copy", "plan", "mail", "insertion", "answer"}
      /\ changes["pc"] = "done" /\ changes["answer"] = answer
      /\ \A c \in {"on", "copy", "plan", "mail", "insertion"} : changes[c] = None
  BY DEF Finished
<1>2. /\ DOMAIN old = Fields /\ old \in RequestRecords
  BY DEF IInv, RequestOK, Recorded, InFlight, RequestsOK
<1>. HIDE DEF changes
<1>3. /\ DOMAIN Over(changes, old) = DOMAIN changes \cup DOMAIN old
      /\ \A c \in DOMAIN changes : Over(changes, old)[c] = changes[c]
      /\ \A c \in DOMAIN old \ DOMAIN changes : Over(changes, old)[c] = old[c]
  <2>. HIDE DEF old, new
  <2>. QED
    BY Overridden
<1>4. new = Over(changes, old) /\ DOMAIN new = Fields
  <2>1. new = Over(changes, old)
    BY DEF changes
  <2>. QED
    BY <1>1, <1>2, <1>3, <2>1 DEF Fields
<1>5. new = [c \in Fields |-> new[c]]
  BY <1>4 DEF Over
<1>6. /\ new.op = old.op /\ new.arg = old.arg /\ new.start = old.start /\ new.on = None
      /\ new.pc = "done" /\ new.copy = None /\ new.plan = None /\ new.mail = None
      /\ new.insertion = None /\ new.answer = answer
  BY <1>1, <1>2, <1>3, <1>4 DEF Fields
<1>7. SameRequest(r) /\ ~InFlight(r)' /\ IsAnswered(r)
  BY <1>4, <1>6 DEF SameRequest, InFlight, IsAnswered
<1>8. new \in RequestRecords
  <2>. HIDE DEF new, old
  <2>. QED
    BY <1>2, <1>5, <1>6, StillARecord
<1>. QED
  BY <1>7, <1>8 DEF Proceeds

LEMMA Starting ==
    ASSUME IInv, NEW r \in Requests, NEW op, NEW arg \in Arguments,
           NEW begins \in {"email", "check", "write"}, Begin(r, op, arg, begins),
           op \in {"inviteAdmin", "createRole", "updateRole", "removeRole", "createPermissions",
                   "removePermission"} \cup Updates,
           op \in Updates \cup {"updateRole"} => begins = "check",
           op = "updateRole" => role[arg.role] # None
    PROVE  Started(r)
<1>1. DOMAIN req = Requests /\ req[r] = None
  BY DEF IInv, Begin
<1>2. /\ OnlyOf(r)
      /\ req'[r].op = op /\ req'[r].pc = begins /\ req'[r].answer = None
      /\ req'[r] \in [op : {op}, arg : {arg}, on : Instances, pc : {begins}, start : Nat,
                      copy : {None}, plan : {None}, mail : {None}, insertion : {None},
                      answer : {None}]
      /\ met' = met \cup {{q, p} : q \in {q \in Requests : InFlight(q)}, p \in {r}}
  BY <1>1, Begun
<1>3. req'[r] \in RequestRecords
  BY <1>2 DEF RequestRecords
<1>4. InFlight(r)'
  BY <1>2, <1>3, RowsAssumption DEF InFlight
<1>5. \A q \in Requests : InFlight(q) => {q, r} \in met'
  BY <1>2
<1>6. req'[r].start = Cardinality({q \in Requests : req[q] # None /\ req[q].op = op})
  BY <1>1 DEF Begin
<1>. QED
  BY <1>1, <1>2, <1>3, <1>4, <1>5, <1>6 DEF Started

LEMMA AsksStart ==
    ASSUME IInv, NEW r \in Requests, AskAdmins(r) \/ AskRoles(r)
    PROVE  Started(r)
<1>1. ASSUME NEW e \in Emails \ {Root}, NEW x \in Known, InviteAdmin(r, e, x)
      PROVE  Started(r)
  <2>1. [email |-> e, role |-> x] \in Arguments
    BY DEF Arguments, Known
  <2>. QED
    BY <1>1, <2>1, Starting DEF InviteAdmin, Updates
<1>2. ASSUME NEW e \in Emails, CompleteSignup(r, e) \/ UpdateProfile(r, e)
      PROVE  Started(r)
  <2>1. [email |-> e] \in Arguments
    BY DEF Arguments
  <2>. QED
    BY <1>2, <2>1, Starting DEF CompleteSignup, UpdateProfile, Updates
<1>3. ASSUME NEW e \in Emails, ChangePassword(r, e)
      PROVE  Started(r)
  <2>1. admin[e] \in AdminRecords
    BY <1>3 DEF IInv, TablesOK, ChangePassword, Caller
  <2>2. [email |-> e, current |-> admin[e].password] \in Arguments
    BY <2>1 DEF Arguments, AdminRecords
  <2>. QED
    BY <1>3, <2>2, Starting DEF ChangePassword, Updates
<1>4. ASSUME NEW slug \in Slugs, CreateRole(r, slug, Granted)
      PROVE  Started(r)
  <2>1. [slug |-> slug, permissions |-> Granted] \in Arguments
    BY DEF Arguments
  <2>. QED
    BY <1>4, <2>1, Starting DEF CreateRole
<1>5. ASSUME NEW x \in Known, NEW edit \in Edits, UpdateRole(r, x, edit)
      PROVE  Started(r)
  <2>1. Over([role |-> x], edit) \in Arguments
    BY DEF Arguments, Known
  <2>2. Over([role |-> x], edit).role = x
    BY DEF Over
  <2>. QED
    BY <1>5, <2>1, <2>2, Starting DEF UpdateRole, Known, Updates
<1>6. ASSUME NEW x \in Known, RemoveRole(r, x)
      PROVE  Started(r)
  <2>1. [role |-> x] \in Arguments
    BY DEF Arguments, Known
  <2>. QED
    BY <1>6, <2>1, Starting DEF RemoveRole
<1>7. CASE CreatePermissions(r, HandMade)
  <2>1. [names |-> HandMade] \in Arguments
    BY DEF Arguments
  <2>. QED
    BY <1>7, <2>1, Starting DEF CreatePermissions
<1>8. ASSUME NEW p \in Removable, RemovePermission(r, p)
      PROVE  Started(r)
  <2>1. [name |-> p] \in Arguments
    BY DEF Arguments
  <2>. QED
    BY <1>8, <2>1, Starting DEF RemovePermission, Updates
<1>9. ASSUME NEW e \in Emails, NEW given \in {None, Root} \cup Requests, SignIn(r, e, given)
      PROVE  Started(r)
  <2>1. [email |-> e, current |-> given] \in Arguments
    BY DEF Arguments
  <2>. QED
    BY <1>9, <2>1, Starting DEF SignIn, Updates
<1>10. ASSUME NEW e \in Emails, admin[e] # None
       PROVE  admin[e].password \in {None, Root} \cup Requests
  BY <1>10 DEF IInv, TablesOK, AdminRecords
<1>11. CASE AskAdmins(r)
  BY <1>1, <1>2, <1>3, <1>9, <1>10, <1>11, AskedAssumption DEF AskAdmins
<1>12. CASE AskRoles(r)
  BY <1>4, <1>5, <1>6, <1>7, <1>8, <1>12 DEF AskRoles
<1>. QED
  BY <1>11, <1>12

\* The three ways in which an action changes its request.
LEMMA Answers ==
    ASSUME IInv, RequestsOK, NEW r \in Requests, InFlight(r),
           NEW answer \in {"ok", "refused", "error"}, req' = Answered(r, answer),
           answer = "ok" => req[r].op \notin {"inviteAdmin", "completeSignup"},
           answer = "refused" /\ req[r].op = "inviteAdmin" => req[r].mail # "done"
    PROVE  OnlyOf(r) /\ Proceeds(r)
<1>1. OnlyOf(r) /\ req'[r] = Over(Finished(answer), req[r])
  BY DEF IInv, Answered, With, OnlyOf
<1>. QED
  BY <1>1, Answering

LEMMA Fails ==
    ASSUME IInv, RequestsOK, NEW r \in Requests, InFlight(r), Refuse(r) \/ Error(r),
           req[r].op = "inviteAdmin" /\ Refuse(r) => req[r].mail # "done"
    PROVE  OnlyOf(r) /\ Proceeds(r)
<1>1. CASE Refuse(r)
  BY <1>1, Answers DEF Refuse
<1>2. CASE Error(r)
  BY <1>2, Answers DEF Error
<1>. QED
  BY <1>1, <1>2

LEMMA Continues ==
    ASSUME IInv, RequestsOK, NEW r \in Requests, InFlight(r),
           NEW changes, DOMAIN changes \subseteq {"pc", "copy", "plan", "mail", "insertion"},
           Typed(changes), Continue(r, changes),
           "mail" \in DOMAIN changes => req[r].op # "inviteAdmin",
           req[r].op = "completeSignup" /\ req[r].pc = "check" => Acceptable(r)
    PROVE  OnlyOf(r) /\ Proceeds(r)
BY Continuing DEF Continue

LEMMA InvitationProceeds ==
    ASSUME IInv, RequestsOK, NEW r \in Requests,
           \/ FindEmail(r) \/ FindRole(r) \/ InsertInvited(r)
           \/ PublishInvitation(r) \/ PublicationFails(r) \/ EndInvitation(r)
    PROVE  (OnlyOf(r) /\ Proceeds(r)) \/ \E i \in Instances : Ends(i, "down")
<1>1. /\ InFlight(r) /\ req[r].op = "inviteAdmin" /\ Invitation(r) /\ Recorded(r) /\ req[r] # None
      /\ DOMAIN req = Requests
  BY DEF FindEmail, FindRole, InsertInvited, PublishInvitation, PublicationFails, EndInvitation, At,
         InFlight, IInv, RequestOK
<1>2. CASE FindEmail(r)
  <2>1. req[r].mail # "done"
    BY <1>1, <1>2 DEF FindEmail, At, Invitation
  <2>2. CASE Continue(r, [pc |-> "role"])
    BY <1>1, <2>2, Continues DEF Typed
  <2>. QED
    BY <1>1, <1>2, <2>1, <2>2, Fails DEF FindEmail
<1>3. CASE FindRole(r)
  <2>1. req[r].mail # "done"
    BY <1>1, <1>3 DEF FindRole, At, Invitation
  <2>2. CASE Continue(r, [pc |-> "sending", insertion |-> "pending", mail |-> "pending"])
    <3>1. req' = With(r, [pc |-> "sending", insertion |-> "pending", mail |-> "pending"])
      BY <2>2 DEF Continue
    <3>. QED
      BY <1>1, <2>1, <3>1, Continuing DEF Typed
  <2>. QED
    BY <1>1, <1>3, <2>1, <2>2, Fails DEF FindRole
<1>4. CASE InsertInvited(r)
  <2>1. CASE Continue(r, [insertion |-> "done"])
    BY <1>1, <2>1, Continues DEF Typed
  <2>2. CASE Error(r)
    <3>1. req' = Answered(r, "error")
      BY <2>2 DEF Error
    <3>. QED
      BY <1>1, <3>1, Answers
  <2>3. CASE Ends(req[r].on, "down")
    <3>1. req[r].on \in Instances
      BY <1>1 DEF InFlight, Recorded
    <3>. QED
      BY <2>3, <3>1
  <2>. QED
    BY <1>4, <2>1, <2>2, <2>3 DEF InsertInvited
<1>5. CASE PublishInvitation(r)
  BY <1>1, <1>5, Continuing DEF PublishInvitation, Typed
<1>6. CASE PublicationFails(r)
  BY <1>1, <1>6, Continuing DEF PublicationFails, Typed
<1>7. CASE EndInvitation(r)
  <2>. DEFINE new == NewAdmin("incomplete_profile", req[r].arg.role, None, None, req[r].start + 2)
  <2>1. CASE Error(r)
    <3>1. req' = Answered(r, "error")
      BY <2>1 DEF Error
    <3>. QED
      BY <1>1, <3>1, Answers
  <2>2. CASE admin' = [admin EXCEPT ![req[r].arg.email] = new] /\ req' = Answered(r, "ok")
    <3>1. req[r].arg.email \in Emails /\ req[r].arg.role \in Roles /\ req[r].start \in Nat
      BY <1>1 DEF Invitation, Recorded
    <3>2. new \in AdminRecords
      BY <3>1 DEF NewAdmin, AdminRecords
    <3>. HIDE DEF new
    <3>3. admin'[req[r].arg.email] # None
      BY <2>2, <3>1, <3>2, RowsAssumption DEF IInv, TablesOK
    <3>4. OnlyOf(r) /\ req'[r] = Over(Finished("ok"), req[r])
      BY <1>1, <2>2 DEF Answered, With, OnlyOf
    <3>. QED
      BY <1>1, <3>3, <3>4, Answering
  <2>. QED
    BY <1>7, <2>1, <2>2 DEF EndInvitation
<1>. QED
  BY <1>2, <1>3, <1>4, <1>5, <1>6, <1>7

LEMMA UpdateProceeds ==
    ASSUME IInv, RequestsOK, NEW r \in Requests,
           \/ CheckAdmin(r) \/ CheckSignIn(r) \/ RereadAdmin(r) \/ SelectAdmin(r)
           \/ WriteAdmin(r) \/ PublishLogin(r) \/ CommitAdmin(r)
    PROVE  OnlyOf(r) /\ Proceeds(r)
<1>. DEFINE row == admin[req[r].arg.email]
            op == req[r].op
<1>1. /\ InFlight(r) /\ req[r].op \in Updates /\ req[r].op # "inviteAdmin" /\ AdminUpdate(r)
      /\ req[r].arg.email \in Emails /\ Recorded(r) /\ req[r] # None /\ DOMAIN req = Requests
  BY DEF CheckAdmin, CheckSignIn, At, RereadAdmin, SelectAdmin, WriteAdmin, PublishLogin, CommitAdmin,
         Open, InFlight, IInv, RequestOK, AdminUpdate, Updates
<1>2. CASE CheckAdmin(r)
  <2>1. CASE Acceptable(r) /\ Continue(r, [pc |-> "reread"])
    BY <1>1, <2>1, Continues DEF Typed
  <2>. QED
    BY <1>1, <1>2, <2>1, Fails DEF CheckAdmin
<1>3. CASE RereadAdmin(r)
  <2>. DEFINE old == [c \in Columns |-> row[c]]
              copy == Over(Payload(r), old)
  <2>1. req[r].pc = "reread" /\ row # None
    BY <1>1, <1>3 DEF RereadAdmin, AdminUpdate
  <2>2. /\ row.status \in Entries /\ row.password \in Entries /\ row.profile \in Entries
        /\ row.attempts \in Entries
    BY <1>1, <2>1 DEF IInv, TablesOK, AdminRecords, Entries
  <2>3. DOMAIN old = Columns /\ \A c \in Columns : old[c] \in Entries
    BY <2>2 DEF Columns
  <2>4. DOMAIN Payload(r) \subseteq Columns /\ \A c \in DOMAIN Payload(r) : Payload(r)[c] \in Entries
    <3>1. Mistaken(r) => req[r].plan \in Prices
      BY <1>1, <2>1 DEF AdminUpdate
    <3>2. /\ DOMAIN Payload(r) \subseteq Columns
          /\ "status" \in DOMAIN Payload(r) => Payload(r)["status"] \in Signed
          /\ "password" \in DOMAIN Payload(r) => Payload(r)["password"] \in Authors
          /\ "profile" \in DOMAIN Payload(r) => Payload(r)["profile"] \in Authors
          /\ "attempts" \in DOMAIN Payload(r) => Payload(r)["attempts"] \in Tried
      BY <1>1, <3>1, PayloadTyped
    <3>. QED
      BY <3>2 DEF Columns, Entries, Signed, Tried, Authors
  <2>5. copy = [c \in Columns |-> IF c \in DOMAIN Payload(r) THEN Payload(r)[c] ELSE old[c]]
    <3>. HIDE DEF old
    <3>. QED
      BY <2>3, <2>4 DEF Over
  <2>6. copy \in Copies
    <3>. HIDE DEF old, copy
    <3>. QED
      BY <2>3, <2>4, <2>5 DEF Copies
  <2>7. Continue(r, [pc |-> "select", copy |-> copy])
    BY <1>3 DEF RereadAdmin
  <2>. HIDE DEF copy
  <2>. QED
    BY <1>1, <2>1, <2>6, <2>7, Continues DEF Typed
<1>4. CASE SelectAdmin(r)
  <2>. DEFINE changed == {c \in Columns : req[r].copy[c] # row[c]}
              plan == [c \in changed |-> req[r].copy[c]]
  <2>1. req[r].pc = "select" /\ Entity(req[r].copy)
    BY <1>1, <1>4 DEF SelectAdmin, AdminUpdate
  <2>2. \A c \in Columns : req[r].copy[c] \in Entries
    BY <2>1 DEF Entity, Columns, Authors, Signed, Tried, Entries
  <2>3. plan \in [changed -> Entries] /\ changed \in SUBSET Columns
    BY <2>2
  <2>4. plan \in Plans
    <3>. HIDE DEF plan, changed
    <3>. QED
      BY <2>3 DEF Plans
  <2>5. Continue(r, [pc |-> "write", copy |-> None, plan |-> plan])
    BY <1>4 DEF SelectAdmin
  <2>. HIDE DEF plan
  <2>. QED
    BY <1>1, <2>1, <2>4, <2>5, Continues DEF Typed
<1>5. CASE WriteAdmin(r)
  <2>1. req[r].pc = "write" /\ Continue(r, [pc |-> "commit"])
    BY <1>5 DEF WriteAdmin
  <2>. QED
    BY <1>1, <2>1, Continues DEF Typed
<1>6. CASE CommitAdmin(r)
  <2>1. /\ req[r].pc = "commit" /\ \E answer \in {"ok", "refused"} : req' = Answered(r, answer)
        /\ admin'[req[r].arg.email] # None /\ admin'[req[r].arg.email].status \in Signed
    BY <1>6, CommittedAdmin
  <2>2. PICK answer \in {"ok", "refused"} : req' = Answered(r, answer)
    BY <2>1
  <2>3. OnlyOf(r) /\ req'[r] = Over(Finished(answer), req[r])
    BY <1>1, <2>2 DEF Answered, With, OnlyOf
  <2>. QED
    BY <1>1, <2>1, <2>3, Answering
<1>7. CASE CheckSignIn(r)
  <2>1. op = "signIn"
    BY <1>7 DEF CheckSignIn, At
  <2>2. CASE Refuse(r) \/ Error(r)
    BY <1>1, <2>2, Fails
  <2>3. CASE Continue(r, [pc |-> "reread", mail |-> "pending"])
    BY <1>1, <2>1, <2>3, Continues DEF Typed
  <2>4. ASSUME NEW cost \in Prices, Continue(r, [pc |-> "reread", plan |-> cost])
        PROVE  OnlyOf(r) /\ Proceeds(r)
    <3>1. cost \in Plans
      <4>1. PICK changed \in SUBSET Columns : cost \in [changed -> Entries]
        <5>1. CASE cost = [status |-> "locked"]
          <6>1. cost \in [{"status"} -> Entries] /\ {"status"} \in SUBSET Columns
            BY <5>1 DEF Columns, Entries
          <6>. QED
            BY <6>1
        <5>2. CASE cost \in {[attempts |-> "below"], [attempts |-> "allowed"]}
          <6>1. cost \in [{"attempts"} -> Entries] /\ {"attempts"} \in SUBSET Columns
            BY <5>2 DEF Columns, Entries
          <6>. QED
            BY <6>1
        <5>. QED
          BY <5>1, <5>2 DEF Prices
      <4>. QED
        BY <4>1 DEF Plans
    <3>. QED
      BY <1>1, <2>1, <2>4, <3>1, Continues DEF Typed
  <2>. QED
    BY <1>7, <2>2, <2>3, <2>4, SignInChecked
<1>8. CASE PublishLogin(r)
  <2>1. op = "signIn"
    BY <1>8 DEF PublishLogin
  <2>2. CASE Continue(r, [mail |-> "done"])
    BY <1>1, <2>1, <2>2, Continues DEF Typed
  <2>3. CASE req' = Answered(r, "error")
    BY <1>1, <2>3, Answers
  <2>. QED
    BY <1>8, <2>2, <2>3 DEF PublishLogin
<1>. QED
  BY <1>2, <1>3, <1>4, <1>5, <1>6, <1>7, <1>8

LEMMA RoleProceeds ==
    ASSUME IInv, RequestsOK, NEW r \in Requests, RoleStep(r)
    PROVE  OnlyOf(r) /\ Proceeds(r)
<1>. DEFINE x == req[r].arg.role
            arg == req[r].arg
            copy == req[r].copy
<1>1. /\ InFlight(r) /\ req[r].op \notin Updates \cup {"inviteAdmin"} /\ req[r] # None
      /\ RoleUpdate(r)
  BY DEF RoleStep, CheckNewRole, ReadRole, ReadNames, SelectRole, WriteRole, CommitRole, CheckRemoval,
         DeleteRole, CheckNames, InsertPermissions, CommitPermissions, DeletePermission, Open, At,
         InFlight, Updates, IInv, RequestOK
<1>2. CASE Refuse(r) \/ Error(r)
  BY <1>1, <1>2, Fails
<1>3. CASE req' = Answered(r, "ok")
  BY <1>1, <1>3, Answers DEF Updates
<1>4. ASSUME NEW next \in {"names", "select", "write", "commit"}, Continue(r, [pc |-> next])
      PROVE  OnlyOf(r) /\ Proceeds(r)
  BY <1>1, <1>4, Continues DEF Typed, Updates
<1>5. CASE CheckNewRole(r) /\ ~Refuse(r)
  <2>. DEFINE plan == [new |-> TRUE, slug |-> arg.slug, adds |-> arg.permissions, dels |-> {}]
  <2>1. /\ req[r].op = "createRole" /\ arg.permissions \subseteq permission
        /\ Continue(r, [pc |-> "write", plan |-> plan])
    BY <1>5 DEF CheckNewRole, At
  <2>2. plan \in Plans
    BY <1>1, <2>1 DEF Plans, RoleUpdate, IInv, TablesOK
  <2>. HIDE DEF plan
  <2>. QED
    BY <1>1, <2>1, <2>2, Continues DEF Typed
<1>6. CASE ReadRole(r) /\ ~Refuse(r)
  <2>1. req[r].op = "updateRole" /\ role[x] # None /\ Continue(r, [pc |-> "names", copy |-> role[x]])
    BY <1>6 DEF ReadRole, At
  <2>2. role[x] \in Copies
    BY <1>1, <2>1, RolesTyped DEF Copies, RoleUpdate
  <2>. QED
    BY <1>1, <2>1, <2>2, Continues DEF Typed
<1>7. CASE ReadNames(r) /\ ~Refuse(r)
  <2>. DEFINE new == NewRole(IF arg.slug = None THEN copy.slug ELSE arg.slug, FALSE,
                             (copy.permissions \cup arg.adds) \ arg.dels)
  <2>1. /\ req[r].op = "updateRole" /\ req[r].pc = "names" /\ arg.adds \cup arg.dels \subseteq permission
        /\ Continue(r, [pc |-> "select", copy |-> new])
    BY <1>7 DEF ReadNames, At
  <2>2. copy \in RoleRecords /\ arg.slug \in Slugs \cup {None} /\ permission \subseteq Names
    BY <1>1, <2>1 DEF RoleUpdate, IInv, TablesOK
  <2>3. new \in Copies
    BY <2>1, <2>2 DEF NewRole, RoleRecords, Copies
  <2>. HIDE DEF new
  <2>. QED
    BY <1>1, <2>1, <2>3, Continues DEF Typed
<1>8. CASE SelectRole(r)
  <2>. DEFINE row == role[x]
              plan == IF row = None
                      THEN [new |-> TRUE, slug |-> copy.slug, adds |-> copy.permissions, dels |-> {}]
                      ELSE [new |-> FALSE,
                            slug |-> IF copy.slug = row.slug THEN None ELSE copy.slug,
                            adds |-> copy.permissions \ row.permissions,
                            dels |-> row.permissions \ copy.permissions]
  <2>1. /\ req[r].op = "updateRole" /\ req[r].pc = "select"
        /\ Continue(r, [pc |-> IF Nothing(plan) THEN "commit" ELSE "write", copy |-> None,
                        plan |-> IF Nothing(plan) THEN None ELSE plan])
    BY <1>8 DEF SelectRole, At
  <2>2. copy.slug \in AllSlugs /\ copy.permissions \subseteq Names /\ x \in Roles
    BY <1>1, <2>1 DEF RoleUpdate
  <2>3. plan \in Plans
    <3>1. CASE row = None
      BY <2>2, <3>1 DEF Plans, AllSlugs
    <3>2. CASE row # None
      <4>1. row.permissions \subseteq Names
        BY <2>2, <3>2, RolesTyped
      <4>. QED
        BY <2>2, <3>2, <4>1 DEF Plans, AllSlugs
    <3>. QED
      BY <3>1, <3>2
  <2>. DEFINE changes == [pc |-> IF Nothing(plan) THEN "commit" ELSE "write", copy |-> None,
                          plan |-> IF Nothing(plan) THEN None ELSE plan]
  <2>4. Typed(changes) /\ DOMAIN changes = {"pc", "copy", "plan"} /\ Continue(r, changes)
    <3>. HIDE DEF plan
    <3>. QED
      BY <2>1, <2>3 DEF Typed
  <2>. HIDE DEF changes, plan
  <2>. QED
    BY <1>1, <2>1, <2>4, Continues
<1>. QED
  BY <1>2, <1>3, <1>4, <1>5, <1>6, <1>7, <1>8
  DEF RoleStep, CheckNewRole, ReadRole, ReadNames, WriteRole, CommitRole, CheckRemoval,
      DeleteRole, CheckNames, InsertPermissions, CommitPermissions, DeletePermission

\* In every step a request stays, begins, goes on or is answered.
LEMMA Moves ==
    ASSUME IInv, RequestsOK, [Next]_vars, NEW r \in Requests
    PROVE  req'[r] = req[r] \/ Started(r) \/ Proceeds(r)
<1>1. ASSUME NEW q \in Requests, OnlyOf(q), Started(q) \/ Proceeds(q)
      PROVE  req'[r] = req[r] \/ Started(r) \/ Proceeds(r)
  BY <1>1 DEF OnlyOf
<1>2. ASSUME NEW i \in Instances, NEW how, Ends(i, how)
      PROVE  req'[r] = req[r] \/ Proceeds(r)
  <2>1. req'[r] = IF InFlight(r) /\ req[r].on = i THEN Over(Finished("lost"), req[r]) ELSE req[r]
    BY <1>2 DEF Ends
  <2>2. CASE InFlight(r) /\ req[r].on = i
    BY <2>1, <2>2, Answering
  <2>. QED
    BY <2>1, <2>2
<1>3. ASSUME NEW q \in Requests, AskAdmins(q) \/ AdminStep(q) \/ AskRoles(q) \/ RoleStep(q)
      PROVE  req'[r] = req[r] \/ Started(r) \/ Proceeds(r)
  <2>1. CASE AskAdmins(q) \/ AskRoles(q)
    <3>1. Started(q)
      BY <2>1, AsksStart
    <3>. QED
      BY <1>1, <3>1 DEF Started
  <2>2. CASE AdminStep(q)
    BY <1>1, <1>2, <2>2, InvitationProceeds, UpdateProceeds DEF AdminStep
  <2>3. CASE RoleStep(q)
    BY <1>1, <2>3, RoleProceeds
  <2>. QED
    BY <1>3, <2>1, <2>2, <2>3
<1>4. ASSUME NEW i \in Instances, SeederStep(i)
      PROVE  req'[r] = req[r] \/ Proceeds(r)
  <2>1. CASE SaveSeed(i) \/ SeedRates(i) \/ Crash(i)
    BY <1>2, <2>1 DEF SaveSeed, SeedRates, Crash
  <2>. QED
    BY <1>4, <2>1 DEF SeederStep, SeedPermissions, FindPermissions, CommitSeed, Restart
<1>5. CASE AskList \/ ReadList \/ CountList \/ Rest \/ UNCHANGED vars
  BY <1>5 DEF AskList, ReadList, CountList, Rest, vars, Others
<1>. QED
  BY <1>3, <1>4, <1>5 DEF Next

\* What a step may do to the tables, as far as the mails, the completions and the seeding
\* depend on them.
TablesMove ==
    /\ mailed \subseteq mailed' /\ met \subseteq met'
    /\ \A e \in Emails : admin[e] # None =>
          admin'[e] # None /\ (admin[e].status \in Signed => admin'[e].status \in Signed)
    /\ \A e \in Emails \ {Root} : admin'[e] # None /\ admin[e] = None => e \in mailed
    /\ mailed' # mailed => \E r \in Requests : /\ PublishInvitation(r)
                                               /\ mailed' = mailed \cup {req[r].arg.email}
    /\ permission \subseteq permission'
          \/ \E r \in Requests : req[r].op = "removePermission" /\ InFlight(r) /\ req' = Answered(r, "ok")

LEMMA TablesMoves ==
    ASSUME IInv, [Next]_vars
    PROVE  TablesMove
<1>1. ASSUME UNCHANGED <<admin, permission, mailed>>, met \subseteq met'
      PROVE  TablesMove
  BY <1>1 DEF TablesMove
<1>2. ASSUME NEW r \in Requests,
             UNCHANGED <<tables, mailed, met>> \/ Refuse(r) \/ Error(r)
                \/ \E changes : Continue(r, changes)
      PROVE  TablesMove
  BY <1>1, <1>2 DEF Refuse, Error, Continue, tables
<1>3. ASSUME NEW r \in Requests, AskAdmins(r) \/ AskRoles(r)
      PROVE  TablesMove
  <2>1. ASSUME NEW op, NEW arg, NEW begins, Begin(r, op, arg, begins)
        PROVE  TablesMove
    BY <1>1, <2>1 DEF Begin, tables
  <2>. QED
    BY <1>3, <2>1 DEF AskAdmins, AskRoles, InviteAdmin, CompleteSignup, UpdateProfile, ChangePassword,
                      SignIn, CreateRole, UpdateRole, RemoveRole, CreatePermissions, RemovePermission
<1>4. ASSUME NEW r \in Requests, AdminStep(r)
      PROVE  TablesMove
  <2>1. CASE PublishInvitation(r)
    <3>1. /\ mailed' = mailed \cup {req[r].arg.email} /\ UNCHANGED <<admin, permission, met>>
      BY <2>1 DEF PublishInvitation, tables
    <3>. QED
      BY <2>1, <3>1 DEF TablesMove
  <2>2. CASE PublicationFails(r)
    BY <1>2, <2>2 DEF PublicationFails
  <2>3. CASE InsertInvited(r)
    <3>1. CASE Ends(req[r].on, "down")
      BY <1>1, <3>1 DEF Ends, tables
    <3>. QED
      BY <1>2, <2>3, <3>1 DEF InsertInvited
  <2>4. CASE EndInvitation(r) /\ ~Error(r)
    <3>. DEFINE e == req[r].arg.email
                new == NewAdmin("incomplete_profile", req[r].arg.role, None, None, req[r].start + 2)
    <3>1. /\ InFlight(r) /\ req[r].op = "inviteAdmin" /\ req[r].insertion = "done" /\ req[r].mail = "done"
          /\ admin' = [admin EXCEPT ![e] = new] /\ UNCHANGED <<permission, mailed, met>>
      BY <2>4 DEF EndInvitation, At
    <3>2. e \in Emails /\ e \in mailed /\ admin[e] = None
      BY <3>1 DEF IInv, RequestOK, Invitation
    <3>3. \A d \in Emails \ {e} : admin'[d] = admin[d]
      BY <3>1 DEF IInv, TablesOK
    <3>. HIDE DEF e, new
    <3>. QED
      BY <3>1, <3>2, <3>3 DEF TablesMove
  <2>5. CASE CommitAdmin(r)
    <3>. DEFINE e == req[r].arg.email
    <3>1. /\ e \in Emails /\ admin[e] # None /\ \A d \in Emails \ {e} : admin'[d] = admin[d]
          /\ admin'[e] # None /\ admin'[e].status \in Signed
          /\ UNCHANGED <<permission, mailed, met>>
      BY <2>5, CommittedAdmin
    <3>. HIDE DEF e
    <3>. QED
      BY <3>1 DEF TablesMove
  <2>6. CASE CheckSignIn(r) \/ PublishLogin(r)
    BY <1>2, <2>6, SignInChecked DEF PublishLogin
  <2>. QED
    BY <1>2, <1>4, <2>1, <2>2, <2>3, <2>4, <2>5, <2>6
    DEF AdminStep, FindEmail, FindRole, EndInvitation, CheckAdmin, RereadAdmin, SelectAdmin, WriteAdmin
<1>5. ASSUME NEW r \in Requests, RoleStep(r)
      PROVE  TablesMove
  <2>1. CASE CommitRole(r) \/ DeleteRole(r)
    BY <1>1, <1>2, <2>1 DEF CommitRole, DeleteRole
  <2>2. CASE CommitPermissions(r)
    <3>1. permission \subseteq permission' /\ UNCHANGED <<admin, mailed, met>>
      BY <2>2 DEF CommitPermissions
    <3>. QED
      BY <3>1 DEF TablesMove
  <2>3. CASE DeletePermission(r) /\ ~Refuse(r) /\ ~Error(r)
    <3>1. /\ req[r].op = "removePermission" /\ InFlight(r) /\ req' = Answered(r, "ok")
          /\ UNCHANGED <<admin, mailed, met>>
      BY <2>3 DEF DeletePermission, At
    <3>. QED
      BY <3>1 DEF TablesMove
  <2>. QED
    BY <1>2, <1>5, <2>1, <2>2, <2>3
    DEF RoleStep, CheckNewRole, ReadRole, ReadNames, SelectRole, WriteRole, CheckRemoval, CheckNames,
        InsertPermissions, DeletePermission
<1>6. ASSUME NEW i \in Instances, SeederStep(i)
      PROVE  TablesMove
  <2>1. CASE CommitSeed(i)
    <3>1. /\ permission \subseteq permission' /\ UNCHANGED <<mailed, met>>
          /\ \A e \in Emails \ {Root} : admin'[e] = admin[e]
          /\ admin[Root] # None => admin' = admin
      BY <2>1 DEF CommitSeed, IInv, TablesOK
    <3>. QED
      BY <3>1 DEF TablesMove
  <2>2. ASSUME NEW how, Ends(i, how)
        PROVE  TablesMove
    BY <1>1, <2>2 DEF Ends, tables
  <2>3. CASE UNCHANGED <<tables, mailed, met>>
    BY <1>1, <2>3 DEF tables
  <2>. QED
    BY <1>6, <2>1, <2>2, <2>3 DEF SeederStep, SeedPermissions, FindPermissions, SaveSeed, SeedRates,
                                      Crash, Restart
<1>7. CASE AskList \/ ReadList \/ CountList \/ Rest \/ UNCHANGED vars
  BY <1>1, <1>7 DEF AskList, ReadList, CountList, Rest, vars, Others, tables
<1>. QED
  BY <1>3, <1>4, <1>5, <1>6, <1>7 DEF Next

-----------------------------------------------------------------------------
(* The requests, the mails, the completions. *)

LEMMA RequestsKeep ==
    ASSUME IInv, RequestsOK, [Next]_vars
    PROVE  RequestsOK'
<1>1. IInv'
  BY NextKeeps
<1>2. \A r \in Requests : req'[r] \in RequestRecords \cup {None}
  BY Moves DEF Started, Proceeds, RequestsOK
<1>. QED
  BY <1>1, <1>2 DEF IInv, RequestOK, Recorded, RequestsOK

LEMMA MailsKeep ==
    ASSUME IInv, RequestsOK, MailInv, [Next]_vars
    PROVE  MailInv'
<1>1. IInv' /\ TablesMove
  BY NextKeeps, TablesMoves
<1>2. \A e \in Emails \ {Root} : admin'[e] # None => e \in mailed'
  BY <1>1 DEF MailInv, TablesMove
<1>3. ASSUME NEW e \in mailed', e \notin mailed
      PROVE  e \in Emails /\ \E r \in Requests : Invites(r, e)'
  <2>1. PICK r \in Requests : PublishInvitation(r) /\ e = req[r].arg.email
    BY <1>1, <1>3 DEF TablesMove
  <2>2. InFlight(r) /\ req[r].op = "inviteAdmin" /\ Recorded(r) /\ req[r] # None /\ Invitation(r)
        /\ DOMAIN req = Requests /\ req' = With(r, [mail |-> "done"])
    BY <2>1 DEF PublishInvitation, At, InFlight, IInv, RequestOK
  <2>3. SameRequest(r) /\ req'[r].mail = "done" /\ req'[r].pc = req[r].pc
    BY <2>2, WithChanges DEF Fields
  <2>4. req'[r] \in RequestRecords
    BY <2>2, <2>3, Moves DEF Started, Proceeds, RequestsOK, InFlight
  <2>5. req'[r] # None
    BY <2>4, RowsAssumption
  <2>. QED
    BY <2>1, <2>2, <2>3, <2>5 DEF Invites, InFlight, SameRequest, Invitation
<1>4. ASSUME NEW e \in mailed, NEW r \in Requests, Invites(r, e)
      PROVE  admin'[e] # None \/ Invites(r, e)'
  <2>1. CASE req'[r] = req[r]
    BY <1>4, <2>1 DEF Invites, InFlight
  <2>2. CASE Proceeds(r)
    <3>1. req'[r] # None /\ req'[r].op = "inviteAdmin" /\ req'[r].arg.email = e
      BY <1>4, <2>2, RowsAssumption DEF Proceeds, SameRequest, Invites
    <3>2. CASE InFlight(r)'
      BY <1>4, <2>2, <3>1, <3>2 DEF Proceeds, GoesOn, Invites
    <3>3. CASE ~InFlight(r)'
      BY <1>4, <2>2, <3>1, <3>3 DEF Proceeds, IsAnswered, Invites
    <3>. QED
      BY <3>2, <3>3
  <2>. QED
    BY <1>4, <2>1, <2>2, Moves DEF Started, Invites
<1>5. \A e \in mailed : e \in Emails /\ (admin'[e] # None \/ \E r \in Requests : Invites(r, e)')
  BY <1>1, <1>4 DEF MailInv, TablesMove
<1>. QED
  BY <1>2, <1>3, <1>5 DEF MailInv

\* An answer stays.
LEMMA AnswersStay ==
    ASSUME IInv, RequestsOK, [Next]_vars, NEW r \in Requests, NEW op, Accepted(r, op)
    PROVE  req'[r] = req[r] /\ Accepted(r, op)'
<1>1. req[r] # None /\ ~InFlight(r)
  BY NothingAssumption DEF Accepted, IInv, RequestOK, Recorded, InFlight
<1>. QED
  BY <1>1, Moves DEF Started, Proceeds, Accepted

LEMMA CompletionsKeep ==
    ASSUME IInv, RequestsOK, CompletionInv, [Next]_vars
    PROVE  CompletionInv'
<1>. SUFFICES ASSUME NEW q \in Requests, NEW r \in Requests, q # r
              PROVE  Completion(q, r)'
  BY DEF CompletionInv
<1>1. TablesMove /\ Completion(q, r) /\ Completion(r, q)
  BY TablesMoves DEF CompletionInv
<1>2. \A a, b \in Requests : Overlapped(a, b) => Overlapped(a, b)' /\ Overlapped(b, a)'
  <2>1. \A a, b \in Requests : {a, b} = {b, a}
    OBVIOUS
  <2>. QED
    BY <1>1, <2>1 DEF Overlapped, TablesMove
<1>3. ASSUME InFlight(q)', InFlight(r)'
      PROVE  Overlapped(q, r)'
  <2>1. ASSUME NEW p \in Requests, InFlight(p)'
        PROVE  InFlight(p) \/ Started(p)
    BY <2>1, Moves DEF InFlight, Proceeds
  <2>2. CASE InFlight(q) /\ InFlight(r)
    BY <1>1, <1>2, <2>2 DEF Completion
  <2>3. CASE Started(q)
    <3>1. req'[r] = req[r] /\ InFlight(r)
      BY <1>3, <2>3 DEF Started, OnlyOf, InFlight
    <3>2. {r, q} \in met'
      BY <2>3, <3>1 DEF Started
    <3>3. {r, q} = {q, r}
      OBVIOUS
    <3>. QED
      BY <3>2, <3>3 DEF Overlapped
  <2>4. CASE Started(r)
    <3>1. req'[q] = req[q] /\ InFlight(q)
      BY <1>3, <2>4 DEF Started, OnlyOf, InFlight
    <3>. QED
      BY <2>4, <3>1 DEF Started, Overlapped
  <2>. QED
    BY <1>3, <2>1, <2>2, <2>3, <2>4
<1>4. ASSUME Accepted(q, "completeSignup")', ~Accepted(q, "completeSignup")
      PROVE  /\ InFlight(q) /\ SameRequest(q) /\ req[q].op = "completeSignup" /\ req[q].pc = "commit"
             /\ req[q].answer = None
             /\ req[q].arg.email \in Emails /\ admin'[req[q].arg.email] # None
             /\ admin'[req[q].arg.email].status \in Signed
  <2>1. req'[q] # req[q] /\ ~Started(q)
    BY <1>4, NothingAssumption DEF Accepted, Started
  <2>2. Proceeds(q)
    BY <2>1, Moves
  <2>3. ~InFlight(q)'
    BY <1>4, <2>2, NothingAssumption DEF Accepted, Proceeds, GoesOn
  <2>4. req[q].answer = None
    BY <2>2 DEF Proceeds, InFlight, IInv, RequestOK, Recorded
  <2>. QED
    BY <1>4, <2>2, <2>3, <2>4 DEF Accepted, Proceeds, IsAnswered, SameRequest
<1>5. ASSUME Accepted(q, "completeSignup")'
      PROVE  /\ req'[q].arg.email \in Emails /\ admin'[req'[q].arg.email] # None
             /\ admin'[req'[q].arg.email].status \in Signed
  <2>1. CASE Accepted(q, "completeSignup")
    <3>1. req'[q] = req[q]
      BY <2>1, AnswersStay
    <3>. QED
      BY <1>1, <2>1, <3>1 DEF Completion, TablesMove
  <2>2. CASE ~Accepted(q, "completeSignup")
    BY <1>4, <1>5, <2>2 DEF SameRequest
  <2>. QED
    BY <2>1, <2>2
<1>6. ASSUME Accepted(q, "completeSignup")', Completes(r)', req'[q].arg = req'[r].arg,
             req'[r].pc # "check", req'[r].answer \in {None, "ok"}
      PROVE  Overlapped(q, r)'
  <2>1. ~Started(r)
    BY <1>6 DEF Started, Completes, Updates
  <2>2. \/ Completes(r) /\ req[r].arg = req'[r].arg
           /\ (req'[r] = req[r] \/ Proceeds(r))
    BY <1>6, <2>1, Moves DEF Completes, Proceeds, SameRequest, InFlight
  <2>3. CASE Accepted(q, "completeSignup")
    <3>1. req'[q] = req[q]
      BY <2>3, AnswersStay
    <3>2. CASE req'[r] = req[r]
      BY <1>1, <1>2, <1>6, <2>2, <2>3, <3>1, <3>2 DEF Completion
    <3>3. CASE Proceeds(r) /\ req[r].pc # "check"
      <4>1. req[r].answer = None
        BY <3>3 DEF Proceeds, InFlight, IInv, RequestOK, Recorded
      <4>. QED
        BY <1>1, <1>2, <1>6, <2>2, <2>3, <3>1, <3>3, <4>1 DEF Completion
    <3>4. CASE Proceeds(r) /\ req[r].pc = "check"
      <4>1. req[r].op = "completeSignup" /\ req[r].arg = req[q].arg
        BY <1>6, <2>2, <3>1 DEF Completes
      <4>2. InFlight(r)'
        <5>1. CASE req'[r].answer = None
          BY <1>6, <3>4, <5>1, NothingAssumption DEF Proceeds, IsAnswered
        <5>2. CASE req'[r].answer = "ok"
          BY <3>4, <4>1, <5>2, NothingAssumption DEF Proceeds, IsAnswered, GoesOn
        <5>. QED
          BY <1>6, <5>1, <5>2
      <4>3. Acceptable(r)
        BY <3>4, <4>1, <4>2 DEF Proceeds, GoesOn
      <4>4. admin[req[q].arg.email].status \in Signed
        BY <1>1, <2>3 DEF Completion
      <4>. QED
        BY <4>1, <4>3, <4>4 DEF Acceptable, Signed
    <3>. QED
      BY <2>2, <3>2, <3>3, <3>4
  <2>4. CASE ~Accepted(q, "completeSignup")
    <3>1. /\ InFlight(q) /\ SameRequest(q) /\ req[q].op = "completeSignup" /\ req[q].pc = "commit"
          /\ req[q].answer = None
      BY <1>4, <1>6, <2>4
    <3>2. CASE InFlight(r)
      BY <1>1, <1>2, <3>1, <3>2 DEF Completion
    <3>3. CASE ~InFlight(r)
      <4>1. req'[r] = req[r] /\ req[r].pc = "done" /\ req[r] # None
        BY <2>2, <3>3 DEF Proceeds, InFlight, Completes
      <4>2. req[r].answer # None
        BY <4>1 DEF IInv, RequestOK, Recorded
      <4>3. Accepted(r, "completeSignup") /\ Completes(q) /\ req[r].arg = req[q].arg
        BY <1>6, <2>2, <3>1, <4>1, <4>2 DEF Accepted, Completes, SameRequest, InFlight
      <4>. QED
        BY <1>1, <1>2, <3>1, <4>3 DEF Completion
    <3>. QED
      BY <3>2, <3>3
  <2>. QED
    BY <2>3, <2>4
<1>. QED
  BY <1>3, <1>5, <1>6 DEF Completion

\* What a step may do to a process.
ProcessMove(i) ==
    \/ instance'[i] = instance[i] /\ found'[i] = found[i]
    \/ instance'[i] \notin {"find", "save", "commit", "failed"}
    \/ instance'[i] = "find" /\ SeedPermissions(i)
    \/ /\ instance[i] = "find" /\ instance'[i] = "save"
       /\ found'[i] = permission \cup DefaultPermissions /\ UNCHANGED role
    \/ /\ instance[i] = "save" /\ instance'[i] = "failed"
       /\ ~(found[i] \subseteq permission \cup DefaultPermissions)
    \/ instance[i] = "rates" /\ instance'[i] = "failed"
    \/ instance[i] = "save" /\ instance'[i] = "commit" /\ found'[i] = found[i]

LEMMA ProcessesMove ==
    ASSUME IInv, [Next]_vars, NEW i \in Instances
    PROVE  ProcessMove(i)
<1>1. /\ instance \in
             [Instances -> {"starting", "find", "save", "commit", "rates", "up", "down", "failed"}]
      /\ found \in [Instances -> SUBSET Names]
  BY DEF IInv, ProcessesOK
<1>2. CASE UNCHANGED <<instance, found>>
  BY <1>2 DEF ProcessMove
<1>3. ASSUME NEW j \in Instances, Ends(j, "down")
      PROVE  ProcessMove(i)
  BY <1>1, <1>3 DEF Ends, ProcessMove
<1>4. ASSUME NEW r \in Requests, AskAdmins(r) \/ AskRoles(r)
      PROVE  ProcessMove(i)
  <2>1. ASSUME NEW op, NEW arg, NEW start, Begin(r, op, arg, start)
        PROVE  ProcessMove(i)
    BY <1>2, <2>1 DEF Begin, processes
  <2>. QED
    BY <1>4, <2>1 DEF AskAdmins, AskRoles, InviteAdmin, CompleteSignup, UpdateProfile, ChangePassword,
                      SignIn, CreateRole, UpdateRole, RemoveRole, CreatePermissions, RemovePermission
<1>5. ASSUME NEW r \in Requests, Refuse(r) \/ Error(r) \/ \E changes : Continue(r, changes)
      PROVE  ProcessMove(i)
  BY <1>2, <1>5 DEF Refuse, Error, Continue, processes
<1>6. ASSUME NEW r \in Requests, AdminStep(r)
      PROVE  ProcessMove(i)
  <2>1. CASE InsertInvited(r)
    <3>1. CASE Ends(req[r].on, "down")
      <4>1. req[r].on \in Instances
        BY <2>1 DEF InsertInvited, At, InFlight, IInv, RequestOK, Recorded
      <4>. QED
        BY <1>3, <3>1, <4>1
    <3>. QED
      BY <1>5, <2>1, <3>1 DEF InsertInvited
  <2>2. CASE \/ PublishInvitation(r) \/ PublicationFails(r) \/ EndInvitation(r) \/ PublishLogin(r)
             \/ CommitAdmin(r)
    BY <1>2, <1>5, <2>2
    DEF PublishInvitation, PublicationFails, EndInvitation, PublishLogin, CommitAdmin, processes
  <2>. QED
    BY <1>5, <1>6, <2>1, <2>2
    DEF AdminStep, FindEmail, FindRole, CheckAdmin, CheckSignIn, RereadAdmin, SelectAdmin, WriteAdmin
<1>7. ASSUME NEW r \in Requests, RoleStep(r)
      PROVE  ProcessMove(i)
  <2>1. CASE CommitRole(r) \/ DeleteRole(r) \/ CommitPermissions(r) \/ DeletePermission(r)
    BY <1>2, <1>5, <2>1 DEF CommitRole, DeleteRole, CommitPermissions, DeletePermission, processes
  <2>. QED
    BY <1>5, <1>7, <2>1
    DEF RoleStep, CheckNewRole, ReadRole, ReadNames, SelectRole, WriteRole, CheckRemoval, CheckNames,
        InsertPermissions
<1>8. ASSUME NEW j \in Instances, SeederStep(j)
      PROVE  ProcessMove(i)
  <2>1. CASE SaveSeed(j)
    <3>1. CASE Ends(j, "failed") /\ ~(found[j] \subseteq permission \cup DefaultPermissions)
      BY <1>1, <2>1, <3>1 DEF SaveSeed, Ends, ProcessMove
    <3>2. CASE Move(j, "commit") /\ found' = found
      BY <1>1, <2>1, <3>2 DEF SaveSeed, Move, ProcessMove
    <3>. QED
      BY <2>1, <3>1, <3>2 DEF SaveSeed
  <2>2. CASE Crash(j)
    BY <1>3, <2>2 DEF Crash
  <2>3. CASE FindPermissions(j)
    BY <1>1, <2>3 DEF FindPermissions, Move, ProcessMove, tables
  <2>4. CASE SeedPermissions(j) \/ CommitSeed(j) \/ Restart(j)
    BY <1>1, <2>4 DEF SeedPermissions, CommitSeed, Restart, Move, ProcessMove
  <2>5. CASE SeedRates(j)
    BY <1>1, <2>5 DEF SeedRates, Move, Ends, ProcessMove
  <2>. QED
    BY <1>8, <2>1, <2>2, <2>3, <2>4, <2>5 DEF SeederStep
<1>9. CASE AskList \/ ReadList \/ CountList \/ Rest \/ UNCHANGED vars
  BY <1>2, <1>9 DEF AskList, ReadList, CountList, Rest, vars, Others, processes
<1>. QED
  BY <1>4, <1>6, <1>7, <1>8, <1>9 DEF Next

LEMMA RemovalsKeep ==
    ASSUME IInv, RequestsOK, RemovalInv, [Next]_vars
    PROVE  RemovalInv'
<1>1. CASE Removed
  BY <1>1, AnswersStay DEF Removed, RemovalInv
<1>2. CASE ~(permission \subseteq permission')
  <2>1. PICK r \in Requests :
            req[r].op = "removePermission" /\ InFlight(r) /\ req' = Answered(r, "ok")
    BY <1>2, TablesMoves DEF TablesMove
  <2>2. Recorded(r) /\ DOMAIN req = Requests /\ req[r] # None
    BY <2>1 DEF IInv, RequestOK, InFlight
  <2>3. SameRequest(r) /\ req'[r].pc = "done" /\ req'[r].answer = "ok"
    BY <2>1, <2>2, AnsweredOK
  <2>4. req'[r] # None
    BY <2>1, <2>2, Moves, RequestsKeep, RowsAssumption DEF Started, Proceeds, RequestsOK
  <2>. QED
    BY <2>1, <2>3, <2>4 DEF Accepted, SameRequest, Removed, RemovalInv
<1>3. CASE ~Removed /\ permission \subseteq permission'
  <2>1. ASSUME NEW i \in Instances
        PROVE  instance'[i] = "save" => found'[i] \subseteq permission' \cup DefaultPermissions
    BY <1>3, ProcessesMove DEF RemovalInv, ProcessMove
  <2>. QED
    BY <2>1 DEF RemovalInv
<1>. QED
  BY <1>1, <1>2, <1>3

-----------------------------------------------------------------------------
(* The updates of roles and admins. *)

\* Whoever changes a request that is under way: its own next statement, or the end of the
\* process that serves it.
LEMMA Actor ==
    ASSUME IInv, RequestsOK, [Next]_vars, NEW r \in Requests, InFlight(r), req'[r] # req[r]
    PROVE  AdminStep(r) \/ RoleStep(r) \/ (req'[r].answer = "lost" /\ ~InFlight(r)')
<1>. DEFINE Goal == AdminStep(r) \/ RoleStep(r) \/ (req'[r].answer = "lost" /\ ~InFlight(r)')
<1>1. req[r] # None
  BY DEF InFlight
<1>2. ASSUME NEW i \in Instances, NEW how, Ends(i, how)
      PROVE  Goal
  <2>. DEFINE changes == Finished("lost")
              old == req[r]
  <2>1. req'[r] = Over(changes, old)
    BY <1>2 DEF Ends
  <2>2. changes.answer = "lost" /\ changes.pc = "done" /\ {"answer", "pc"} \subseteq DOMAIN changes
    BY DEF Finished
  <2>3. req'[r].answer = "lost" /\ req'[r].pc = "done"
    <3>1. \A c \in DOMAIN changes : Over(changes, old)[c] = changes[c]
      BY Overridden
    <3>. HIDE DEF changes
    <3>. QED
      BY <2>1, <2>2, <3>1
  <2>. QED
    BY <2>3 DEF InFlight
<1>3. ASSUME NEW q \in Requests, AskAdmins(q) \/ AdminStep(q) \/ AskRoles(q) \/ RoleStep(q)
      PROVE  Goal
  <2>1. CASE AskAdmins(q) \/ AskRoles(q)
    <3>1. Started(q)
      BY <2>1, AsksStart
    <3>. QED
      BY <1>1, <3>1 DEF Started, OnlyOf
  <2>2. CASE AdminStep(q)
    <3>1. OnlyOf(q) \/ \E i \in Instances : Ends(i, "down")
      BY <2>2, InvitationProceeds, UpdateProceeds DEF AdminStep
    <3>2. CASE OnlyOf(q)
      BY <2>2, <3>2 DEF OnlyOf
    <3>. QED
      BY <1>2, <3>1, <3>2
  <2>3. CASE RoleStep(q)
    <3>1. OnlyOf(q)
      BY <2>3, RoleProceeds
    <3>. QED
      BY <2>3, <3>1 DEF OnlyOf
  <2>. QED
    BY <1>3, <2>1, <2>2, <2>3
<1>4. ASSUME NEW i \in Instances, SeederStep(i)
      PROVE  Goal
  <2>1. CASE SaveSeed(i) \/ SeedRates(i) \/ Crash(i)
    BY <1>2, <2>1 DEF SaveSeed, SeedRates, Crash
  <2>. QED
    BY <1>4, <2>1 DEF SeederStep, SeedPermissions, FindPermissions, CommitSeed, Restart
<1>5. CASE AskList \/ ReadList \/ CountList \/ Rest \/ UNCHANGED vars
  BY <1>5 DEF AskList, ReadList, CountList, Rest, vars, Others
<1>. QED
  BY <1>3, <1>4, <1>5 DEF Next

\* What a step may do to a role: nothing, a seeding, a commit, a removal.
RoleSeeded(x) ==
    /\ x = Super /\ role'[x] # None /\ UNCHANGED <<req, met>>
    /\ \E i \in Instances : /\ instance[i] = "commit" /\ instance' = [instance EXCEPT ![i] = "rates"]
                            /\ role'[x].permissions = found[i]

RoleSaved(x) ==
    \E q \in Requests : /\ RoleWriter(q) /\ CommitRole(q) /\ WrittenRole(q) = x /\ x # Super
                        /\ role'[x] = Saved(q) /\ role'[x] # None

RoleGone(x) ==
    \E q \in Requests : /\ At(q, "removeRole", "write") /\ req[q].arg.role = x
                        /\ role'[x] = None /\ req' = Answered(q, "ok") /\ UNCHANGED met

LEMMA RoleMoves ==
    ASSUME IInv, [Next]_vars, NEW x \in Roles
    PROVE  role'[x] = role[x] \/ RoleSeeded(x) \/ RoleSaved(x) \/ RoleGone(x)
<1>. DEFINE Goal == role'[x] = role[x] \/ RoleSeeded(x) \/ RoleSaved(x) \/ RoleGone(x)
<1>1. CASE UNCHANGED role
  BY <1>1
<1>2. ASSUME NEW r \in Requests, Refuse(r) \/ Error(r) \/ \E changes : Continue(r, changes)
      PROVE  Goal
  BY <1>1, <1>2 DEF Refuse, Error, Continue, tables
<1>3. ASSUME NEW r \in Requests, AskAdmins(r) \/ AskRoles(r)
      PROVE  Goal
  <2>1. ASSUME NEW op, NEW arg, NEW begins, Begin(r, op, arg, begins)
        PROVE  Goal
    BY <1>1, <2>1 DEF Begin, tables
  <2>. QED
    BY <1>3, <2>1 DEF AskAdmins, AskRoles, InviteAdmin, CompleteSignup, UpdateProfile, ChangePassword,
                      SignIn, CreateRole, UpdateRole, RemoveRole, CreatePermissions, RemovePermission
<1>4. ASSUME NEW r \in Requests, AdminStep(r)
      PROVE  Goal
  <2>1. CASE \/ PublishInvitation(r) \/ PublicationFails(r) \/ EndInvitation(r) \/ PublishLogin(r)
             \/ CommitAdmin(r)
    BY <1>1, <1>2, <2>1
    DEF PublishInvitation, PublicationFails, EndInvitation, PublishLogin, CommitAdmin, tables
  <2>2. CASE InsertInvited(r)
    <3>1. CASE Ends(req[r].on, "down")
      BY <1>1, <3>1 DEF Ends, tables
    <3>. QED
      BY <1>2, <2>2, <3>1 DEF InsertInvited
  <2>. QED
    BY <1>2, <1>4, <2>1, <2>2
    DEF AdminStep, FindEmail, FindRole, CheckAdmin, CheckSignIn, RereadAdmin, SelectAdmin, WriteAdmin
<1>5. ASSUME NEW r \in Requests, CommitRole(r)
      PROVE  Goal
  <2>1. /\ InFlight(r) /\ req[r].pc = "commit" /\ req[r].op \in {"createRole", "updateRole"}
        /\ role' = [role EXCEPT ![WrittenRole(r)] = Saved(r)] /\ RoleUpdate(r)
    BY <1>5 DEF CommitRole, Open, IInv, RequestOK
  <2>2. WrittenRole(r) \in Roles /\ WrittenRole(r) # Super
    BY <2>1, RolesAssumption DEF RoleUpdate, WrittenRole, Roles
  <2>3. role'[WrittenRole(r)] = Saved(r) /\ \A y \in Roles \ {WrittenRole(r)} : role'[y] = role[y]
    BY <2>1, <2>2 DEF IInv, TablesOK
  <2>4. CASE WrittenRole(r) = x /\ Saved(r) # role[x]
    <3>1. RoleWriter(r)
      BY <2>1, <2>4 DEF Saved, RoleWriter, Open
    <3>2. role'[x] # None
      <4>2. req[r].plan # None /\ (role[x] # None \/ req[r].plan.new)
        BY <2>4 DEF Saved
      <4>3. /\ Saved(r).is_default = FALSE /\ DOMAIN Saved(r) = {"slug", "is_default", "permissions"}
            /\ Saved(r).permissions \subseteq Names /\ Saved(r).slug \in AllSlugs
        <5>1. Planned(r) /\ (role[x] # None => role[x] \in RoleRecords)
          BY <2>1, <4>2, RolesTyped DEF RoleUpdate
        <5>2. CASE req[r].plan.new
          <6>1. Saved(r) = NewRole(req[r].plan.slug, FALSE, req[r].plan.adds)
            BY <4>2, <5>2 DEF Saved
          <6>. QED
            BY <5>1, <5>2, <6>1 DEF NewRole, Planned
        <5>3. CASE ~req[r].plan.new
          <6>1. Saved(r) = NewRole(IF req[r].plan.slug = None THEN role[x].slug ELSE req[r].plan.slug,
                                   FALSE, (role[x].permissions \cup req[r].plan.adds) \ req[r].plan.dels)
            BY <2>4, <4>2, <5>3 DEF Saved
          <6>2. role[x].slug \in AllSlugs /\ role[x].permissions \subseteq Names
            BY <4>2, <5>1, <5>3 DEF RoleRecords, AllSlugs
          <6>. QED
            BY <5>1, <6>1, <6>2 DEF NewRole, Planned
        <5>. QED
          BY <5>2, <5>3
      <4>4. Saved(r) = [slug |-> Saved(r).slug, is_default |-> FALSE, permissions |-> Saved(r).permissions]
        BY <2>4, <4>2 DEF Saved, NewRole
      <4>5. Saved(r) \in RoleRecords
        BY <4>3, <4>4 DEF RoleRecords, AllSlugs
      <4>. QED
        BY <2>3, <2>4, <4>5, RowsAssumption
    <3>. QED
      BY <1>5, <2>2, <2>3, <2>4, <3>1, <3>2 DEF RoleSaved
  <2>. QED
    BY <2>3, <2>4
<1>6. ASSUME NEW r \in Requests, DeleteRole(r)
      PROVE  Goal
  <2>1. CASE Error(r)
    BY <1>2, <2>1
  <2>2. CASE role' = [role EXCEPT ![req[r].arg.role] = None]
    <3>1. At(r, "removeRole", "write") /\ RoleUpdate(r)
      BY <1>6 DEF DeleteRole, IInv, RequestOK
    <3>2. CASE req[r].arg.role = x
      <4>1. role'[x] = None
        BY <2>2, <3>2 DEF IInv, TablesOK
      <4>2. role[x] = None \/ (req' = Answered(r, "ok") /\ UNCHANGED met)
        BY <1>6, <2>2, <3>2, <4>1 DEF DeleteRole, Error, tables
      <4>. QED
        BY <3>1, <3>2, <4>1, <4>2 DEF RoleGone
    <3>3. CASE req[r].arg.role # x
      BY <2>2, <3>3 DEF IInv, TablesOK
    <3>. QED
      BY <3>2, <3>3
  <2>. QED
    BY <1>6, <2>1, <2>2 DEF DeleteRole
<1>7. ASSUME NEW r \in Requests, RoleStep(r)
      PROVE  Goal
  <2>1. CASE CommitPermissions(r) \/ DeletePermission(r)
    BY <1>1, <1>2, <2>1 DEF CommitPermissions, DeletePermission
  <2>. QED
    BY <1>2, <1>5, <1>6, <1>7, <2>1
    DEF RoleStep, CheckNewRole, ReadRole, ReadNames, SelectRole, WriteRole, CheckRemoval, CheckNames,
        InsertPermissions
<1>8. ASSUME NEW i \in Instances, SeederStep(i)
      PROVE  Goal
  <2>1. CASE CommitSeed(i)
    <3>1. /\ instance[i] = "commit" /\ UNCHANGED <<req, met>>
          /\ instance' = [instance EXCEPT ![i] = "rates"]
          /\ role' = [role EXCEPT ![Super] =
                  [slug |-> "super-admin", is_default |-> TRUE, permissions |-> found[i]]]
      BY <2>1 DEF CommitSeed, Move
    <3>3. role'[Super].permissions = found[i] /\ \A y \in Roles \ {Super} : role'[y] = role[y]
      BY <3>1 DEF IInv, TablesOK, Roles
    <3>4. role'[Super] # None
      <4>. DEFINE new == [slug |-> "super-admin", is_default |-> TRUE, permissions |-> found[i]]
      <4>1. new \in RoleRecords
        BY DEF RoleRecords, IInv, ProcessesOK
      <4>. HIDE DEF new
      <4>2. role'[Super] = new
        BY <3>1 DEF new, IInv, TablesOK, Roles
      <4>. QED
        BY <4>1, <4>2, RowsAssumption
    <3>. QED
      BY <3>1, <3>3, <3>4 DEF RoleSeeded
  <2>2. ASSUME NEW how, Ends(i, how)
        PROVE  Goal
    BY <1>1, <2>2 DEF Ends, tables
  <2>. QED
    BY <1>1, <1>8, <2>1, <2>2
    DEF SeederStep, SeedPermissions, FindPermissions, SaveSeed, SeedRates, Crash, Restart, tables
<1>9. CASE AskList \/ ReadList \/ CountList \/ Rest \/ UNCHANGED vars
  BY <1>1, <1>9 DEF AskList, ReadList, CountList, Rest, vars, Others, tables
<1>. QED
  BY <1>3, <1>4, <1>7, <1>8, <1>9 DEF Next

\* What is so of other requests stays so.
LEMMA ChangedStays ==
    ASSUME IInv, RequestsOK, [Next]_vars, NEW r \in Requests, NEW op, Changed(r, op),
           req'[r].arg = req[r].arg
    PROVE  Changed(r, op)'
<1>1. PICK q \in Requests : Overlapped(q, r) /\ Accepted(q, op) /\ req[q].arg.role = req[r].arg.role
  BY DEF Changed
<1>2. req'[q] = req[q] /\ Accepted(q, op)'
  BY <1>1, AnswersStay
<1>3. Overlapped(q, r)'
  BY <1>1, TablesMoves DEF TablesMove, Overlapped
<1>. QED
  BY <1>1, <1>2, <1>3 DEF Changed

LEMMA LoneBefore ==
    ASSUME IInv, [Next]_vars, NEW r \in Requests, Lone(r)'
    PROVE  Lone(r)
BY TablesMoves DEF TablesMove, Overlapped, Lone

LEMMA AcceptedNow ==
    ASSUME IInv, RequestsOK, [Next]_vars, NEW q \in Requests, InFlight(q), req' = Answered(q, "ok")
    PROVE  /\ SameRequest(q) /\ Accepted(q, req[q].op)' /\ ~InFlight(q)' /\ OnlyOf(q)
           /\ req'[q].answer = "ok" /\ req'[q] # req[q]
<1>1. Recorded(q) /\ DOMAIN req = Requests /\ req[q] # None
  BY DEF IInv, RequestOK, InFlight
<1>2. SameRequest(q) /\ OnlyOf(q) /\ ~InFlight(q)' /\ req'[q].pc = "done" /\ req'[q].answer = "ok"
  BY <1>1, AnsweredOK
<1>3. req'[q] # None
  BY <1>1, <1>2, Moves, RowsAssumption DEF Proceeds, Started
<1>4. req'[q] # req[q]
  BY <1>2 DEF InFlight
<1>. QED
  BY <1>2, <1>3, <1>4 DEF Accepted, SameRequest

\* When the row of an update changes under it, another update or a removal is accepted.
LEMMA RowOfAnUpdate ==
    ASSUME IInv, RequestsOK, CompletionInv, EditInv, [Next]_vars, NEW r \in Requests,
           InFlight(r), req[r].op = "updateRole", req[r].pc # "check", req'[r] = req[r]
    PROVE  LET x == req[r].arg.role
           IN  \/ role'[x] = role[x]
               \/ role'[x] = None /\ Changed(r, "removeRole")'
               \/ role'[x] # None /\ Changed(r, "updateRole")'
<1>. DEFINE x == req[r].arg.role
<1>1. x \in Roles /\ x # Super
  BY DEF IInv, RequestOK, RoleUpdate
<1>2. ASSUME NEW q \in Requests, InFlight(q), req' = Answered(q, "ok"), met' = met,
             NEW op, req[q].op = op, req[q].arg.role = x
      PROVE  Changed(r, op)'
  <2>1. SameRequest(q) /\ Accepted(q, op)' /\ q # r
    BY <1>2, AcceptedNow DEF Accepted, SameRequest
  <2>2. Overlapped(q, r)'
    BY <1>2, <2>1 DEF CompletionInv, Completion, Overlapped
  <2>. QED
    BY <1>2, <2>1, <2>2 DEF Changed, SameRequest
<1>3. CASE RoleSaved(x)
  <2>1. PICK q \in Requests : RoleWriter(q) /\ CommitRole(q) /\ WrittenRole(q) = x /\ role'[x] # None
    BY <1>3 DEF RoleSaved
  <2>2. InFlight(q) /\ req[q].op \in {"createRole", "updateRole"} /\ req' = Answered(q, "ok") /\ met' = met
    BY <2>1 DEF CommitRole, Open
  <2>3. req[q].op = "updateRole"
    BY <2>1, <2>2 DEF EditInv, Unborn, WrittenRole, InFlight
  <2>. QED
    BY <1>2, <2>1, <2>2, <2>3 DEF WrittenRole
<1>4. CASE RoleGone(x)
  <2>1. PICK q \in Requests : /\ At(q, "removeRole", "write") /\ req[q].arg.role = x
                              /\ role'[x] = None /\ req' = Answered(q, "ok") /\ UNCHANGED met
    BY <1>4 DEF RoleGone
  <2>. QED
    BY <1>2, <2>1 DEF At
<1>. QED
  BY <1>1, <1>3, <1>4, RoleMoves DEF RoleSeeded

LEMMA Continued ==
    ASSUME IInv, NEW r \in Requests, InFlight(r),
           NEW changes, DOMAIN changes \subseteq {"pc", "copy", "plan", "mail"}, Continue(r, changes)
    PROVE  /\ \A c \in DOMAIN changes : req'[r][c] = changes[c]
           /\ \A c \in Fields \ DOMAIN changes : req'[r][c] = req[r][c]
           /\ SameRequest(r) /\ UNCHANGED tables
<1>1. DOMAIN changes \subseteq Fields \ {"op", "arg", "start"}
  BY DEF Fields
<1>2. DOMAIN req = Requests /\ Recorded(r) /\ req[r] # None
  BY DEF IInv, RequestOK, InFlight
<1>. QED
  BY <1>1, <1>2, WithChanges DEF Continue

LEMMA RoleEditKeeps ==
    ASSUME IInv, RequestsOK, CompletionInv, EditInv, [Next]_vars, NEW r \in Requests
    PROVE  RoleEdit(r)'
<1>. DEFINE x == req[r].arg.role
            row == role[x]
            arg == req[r].arg
            copy == req[r].copy
            plan == req[r].plan
<1>. SUFFICES ASSUME InFlight(r)', req'[r].op = "updateRole", req'[r].pc # "check"
              PROVE  RoleEdit(r)'
  BY DEF RoleEdit
<1>1. InFlight(r) /\ (SameRequest(r) \/ req'[r] = req[r])
  <2>1. ~Started(r)
    BY DEF Started
  <2>. QED
    BY <2>1, Moves DEF Proceeds, InFlight
<1>2. /\ req[r].op = "updateRole" /\ req'[r].arg = arg /\ req[r] # None
      /\ RoleUpdate(r) /\ RoleEdit(r) /\ Recorded(r) /\ DOMAIN req = Requests
      /\ \A op : Changed(r, op) => Changed(r, op)'
  BY <1>1, ChangedStays DEF SameRequest, IInv, RequestOK, EditInv, InFlight
<1>3. x \in Roles
  BY <1>1, <1>2 DEF RoleUpdate
<1>4. CASE req'[r] = req[r]
  <2>1. CASE role'[x] = row
    <3>1. Saved(r)' = Saved(r)
      BY <1>2, <1>4, <2>1 DEF Saved, WrittenRole
    <3>. QED
      BY <1>1, <1>2, <1>4, <2>1, <3>1 DEF RoleEdit, InFlight
  <2>2. CASE role'[x] = None /\ Changed(r, "removeRole")'
    BY <1>1, <1>2, <1>4, <2>2 DEF RoleEdit, InFlight
  <2>3. CASE role'[x] # None /\ Changed(r, "updateRole")'
    BY <1>1, <1>2, <1>4, <2>3 DEF RoleEdit, InFlight
  <2>. QED
    BY <1>1, <1>2, <1>4, <2>1, <2>2, <2>3, RowOfAnUpdate
<1>5. CASE req'[r] # req[r]
  <2>1. RoleStep(r)
    BY <1>1, <1>2, <1>5, Actor DEF AdminStep, FindEmail, FindRole, InsertInvited, PublishInvitation,
       PublicationFails, EndInvitation, CheckAdmin, CheckSignIn, RereadAdmin, SelectAdmin, WriteAdmin,
       PublishLogin, CommitAdmin, At, Updates
  <2>2. \A answer \in {"ok", "refused", "error", "lost"} : req' # Answered(r, answer)
    BY <1>2, AnsweredOK
  <2>3. ReadRole(r) \/ ReadNames(r) \/ SelectRole(r) \/ WriteRole(r)
    BY <1>2, <2>1, <2>2
    DEF RoleStep, CheckNewRole, CommitRole, CheckRemoval, DeleteRole, CheckNames, InsertPermissions,
        CommitPermissions, DeletePermission, At
  <2>5. CASE ReadRole(r)
    <3>1. row # None /\ Continue(r, [pc |-> "names", copy |-> row])
      BY <2>2, <2>5 DEF ReadRole, Refuse
    <3>2. req'[r].pc = "names" /\ req'[r].copy = row /\ role' = role
      BY <1>1, <3>1, Continued DEF tables
    <3>. QED
      BY <1>2, <3>1, <3>2 DEF RoleEdit
  <2>6. CASE ReadNames(r)
    <3>. DEFINE new == NewRole(IF arg.slug = None THEN copy.slug ELSE arg.slug, FALSE,
                               (copy.permissions \cup arg.adds) \ arg.dels)
    <3>1. req[r].pc = "names" /\ Continue(r, [pc |-> "select", copy |-> new])
      BY <2>2, <2>6 DEF ReadNames, Refuse, At
    <3>2. req'[r].pc = "select" /\ req'[r].copy = new /\ role' = role
      <4>. HIDE DEF new
      <4>. QED
        BY <1>1, <3>1, Continued DEF tables
    <3>3. new.permissions = (copy.permissions \cup arg.adds) \ arg.dels
      BY DEF NewRole
    <3>4. new = Edited(arg, copy)
      BY DEF NewRole, Edited
    <3>. HIDE DEF new
    <3>. QED
      BY <1>1, <1>2, <3>1, <3>2, <3>3, <3>4 DEF RoleEdit
  <2>7. CASE SelectRole(r)
    <3>. DEFINE wanted == IF row = None
                          THEN [new |-> TRUE, slug |-> copy.slug, adds |-> copy.permissions, dels |-> {}]
                          ELSE [new |-> FALSE,
                                slug |-> IF copy.slug = row.slug THEN None ELSE copy.slug,
                                adds |-> copy.permissions \ row.permissions,
                                dels |-> row.permissions \ copy.permissions]
                new == IF Nothing(wanted) THEN None ELSE wanted
    <3>1. /\ req[r].pc = "select"
          /\ Continue(r, [pc |-> IF Nothing(wanted) THEN "commit" ELSE "write", copy |-> None,
                          plan |-> new])
      BY <2>7 DEF SelectRole, At
    <3>2. req'[r].pc \in {"write", "commit"} /\ req'[r].plan = new /\ role' = role
      <4>. HIDE DEF new, wanted
      <4>. QED
        BY <1>1, <3>1, Continued DEF tables
    <3>3. arg.adds \ arg.dels \subseteq copy.permissions /\ copy.slug \in AllSlugs /\ x # Super
      BY <1>1, <1>2, <3>1 DEF RoleEdit, RoleUpdate
    <3>4. req'[r].plan # None => req'[r].plan.dels \cap (arg.adds \ arg.dels) = {}
      <4>1. req'[r].plan # None => req'[r].plan = wanted
        BY <3>2
      <4>2. wanted.dels \cap (arg.adds \ arg.dels) = {}
        BY <3>3
      <4>. HIDE DEF wanted
      <4>. QED
        BY <4>1, <4>2
    <3>5. ASSUME row # None, ~Changed(r, "updateRole")
          PROVE  Saved(r)' = Edited(arg, row)
      <4>1. copy = Edited(arg, row)
        BY <1>1, <1>2, <3>1, <3>5 DEF RoleEdit
      <4>2. row \in RoleRecords /\ row.is_default = FALSE /\ None \notin AllSlugs
        BY <1>3, <3>3, <3>5, RolesTyped DEF IInv, TablesOK
      <4>3. row = [slug |-> row.slug, is_default |-> FALSE, permissions |-> row.permissions]
        BY <4>2 DEF RoleRecords
      <4>4. wanted = [new |-> FALSE, slug |-> IF copy.slug = row.slug THEN None ELSE copy.slug,
                      adds |-> copy.permissions \ row.permissions,
                      dels |-> row.permissions \ copy.permissions]
        BY <3>5
      <4>. HIDE DEF wanted
      <4>5. CASE Nothing(wanted)
        <5>1. copy.slug = row.slug /\ copy.permissions = row.permissions
          BY <3>3, <4>2, <4>4, <4>5 DEF Nothing
        <5>2. Saved(r)' = row
          BY <1>2, <3>2, <4>5 DEF Saved, WrittenRole
        <5>3. copy = [slug |-> copy.slug, is_default |-> FALSE, permissions |-> copy.permissions]
          BY <4>1 DEF Edited
        <5>. QED
          BY <4>1, <4>3, <5>1, <5>2, <5>3
      <4>6. CASE ~Nothing(wanted)
        <5>1. req'[r].plan = wanted /\ wanted # None
          <6>1. copy.permissions \subseteq Names /\ row.permissions \subseteq Names
            BY <1>1, <1>2, <3>1, <4>2 DEF RoleUpdate, RoleRecords
          <6>2. wanted \in Plans
            BY <3>3, <4>4, <6>1 DEF Plans, AllSlugs
          <6>. QED
            BY <3>2, <4>6, <6>2, RowsAssumption
        <5>2. /\ wanted.new = FALSE /\ (wanted.slug = IF copy.slug = row.slug THEN None ELSE copy.slug)
              /\ wanted.adds = copy.permissions \ row.permissions
              /\ wanted.dels = row.permissions \ copy.permissions
          BY <4>4
        <5>3. /\ Saved(r)' = NewRole(IF wanted.slug = None THEN row.slug ELSE wanted.slug, FALSE,
                                     (row.permissions \cup wanted.adds) \ wanted.dels)
          BY <1>2, <3>2, <3>5, <5>1, <5>2 DEF Saved, WrittenRole
        <5>4. (row.permissions \cup wanted.adds) \ wanted.dels = copy.permissions
          BY <5>2
        <5>5. (IF wanted.slug = None THEN row.slug ELSE wanted.slug) = copy.slug
          BY <3>3, <4>2, <5>2
        <5>6. copy = NewRole(copy.slug, FALSE, copy.permissions)
          BY <4>1 DEF Edited, NewRole
        <5>. QED
          BY <4>1, <5>3, <5>4, <5>5, <5>6
      <4>. QED
        BY <4>5, <4>6
    <3>. HIDE DEF new, wanted
    <3>6. row = None => Changed(r, "removeRole")
      BY <1>1, <1>2, <3>1 DEF RoleEdit
    <3>7. /\ role'[x] = row /\ req'[r].arg = arg /\ req'[r].pc \notin {"names", "select"}
          /\ role'[x] # None /\ ~Changed(r, "updateRole")' => Saved(r)' = Edited(arg, role'[x])
      BY <1>2, <3>2, <3>5
    <3>. QED
      BY <1>2, <3>4, <3>6, <3>7 DEF RoleEdit
  <2>8. CASE WriteRole(r)
    <3>1. req[r].pc = "write" /\ Continue(r, [pc |-> "commit"])
      BY <2>2, <2>8 DEF WriteRole, Error
    <3>2. DOMAIN [pc |-> "commit"] = {"pc"} /\ {"plan", "copy"} \subseteq Fields \ {"pc"}
      BY DEF Fields
    <3>3. req'[r].pc = "commit" /\ req'[r].plan = plan /\ role' = role
      BY <1>1, <3>1, <3>2, Continued DEF tables
    <3>4. Saved(r)' = Saved(r)
      BY <1>1, <1>2, <3>3 DEF Saved, WrittenRole
    <3>. QED
      BY <1>1, <1>2, <3>1, <3>3, <3>4 DEF RoleEdit
  <2>. QED
    BY <2>3, <2>5, <2>6, <2>7, <2>8
<1>. QED
  BY <1>4, <1>5

LEMMA UnbornKeeps ==
    ASSUME IInv, RequestsOK, EditInv, [Next]_vars, NEW q \in Requests
    PROVE  Unborn(q)'
<1>. SUFFICES ASSUME req'[q] = None \/ (InFlight(q)' /\ req'[q].op = "createRole")
              PROVE  /\ role'[q] = None
                     /\ \A r \in Requests :
                           req'[r] # None /\ req'[r].op = "updateRole" => req'[r].arg.role # q
  BY DEF Unborn
<1>1. req[q] = None \/ (InFlight(q) /\ req[q].op = "createRole")
  BY Moves, RowsAssumption DEF Started, Proceeds, SameRequest, InFlight
<1>2. /\ role[q] = None /\ q \in Roles /\ q # Super
      /\ \A r \in Requests : req[r] # None /\ req[r].op = "updateRole" => req[r].arg.role # q
  BY <1>1, RolesAssumption DEF EditInv, Unborn, Roles
<1>3. ~RoleSaved(q)
  <2>. SUFFICES ASSUME NEW p \in Requests, RoleWriter(p), CommitRole(p), WrittenRole(p) = q
                PROVE  FALSE
    BY DEF RoleSaved
  <2>1. InFlight(p) /\ req[p].op \in {"createRole", "updateRole"} /\ req' = Answered(p, "ok")
    BY DEF CommitRole, Open
  <2>2. p = q
    BY <1>2, <2>1 DEF WrittenRole, InFlight
  <2>3. req'[p] # None /\ ~InFlight(p)'
    BY <2>1, AcceptedNow DEF Accepted
  <2>. QED
    BY <2>2, <2>3
<1>4. role'[q] = None
  BY <1>2, <1>3, RoleMoves DEF RoleSeeded, RoleGone
<1>5. ASSUME NEW r \in Requests, req'[r] # None, req'[r].op = "updateRole"
      PROVE  req'[r].arg.role # q
  BY <1>2, <1>5, Moves DEF Started, Proceeds, SameRequest, InFlight
<1>. QED
  BY <1>4, <1>5

LEMMA InsertsKeep ==
    ASSUME IInv, RequestsOK, EditInv, [Next]_vars, NEW r \in Requests
    PROVE  Inserts(r)'
<1>. DEFINE x == WrittenRole(r)
<1>. SUFFICES ASSUME RoleWriter(r)', req'[r].plan.new
              PROVE  role'[WrittenRole(r)'] = None
  BY DEF Inserts
<1>1. ~Started(r) /\ InFlight(r)' /\ req'[r].pc = "commit" /\ req'[r].plan # None
  BY DEF Started, RoleWriter, Open
<1>2. InFlight(r) /\ (SameRequest(r) \/ req'[r] = req[r])
  BY <1>1, Moves DEF Proceeds, InFlight
<1>3. /\ req[r].op \in {"createRole", "updateRole"} /\ WrittenRole(r)' = x /\ RoleUpdate(r)
      /\ DOMAIN req = Requests /\ Recorded(r) /\ req[r] # None
  BY <1>2 DEF RoleWriter, SameRequest, WrittenRole, IInv, RequestOK, InFlight
<1>4. CASE req'[r] = req[r]
  <2>1. RoleWriter(r) /\ role[x] = None
    BY <1>4 DEF EditInv, Inserts, RoleWriter, Open, InFlight
  <2>2. x \in Roles /\ x # Super
    BY <1>3, <2>1, RolesAssumption DEF RoleWriter, Open, RoleUpdate, WrittenRole, Roles
  <2>3. ~RoleSaved(x)
    <3>. SUFFICES ASSUME NEW q \in Requests, RoleWriter(q), CommitRole(q), WrittenRole(q) = x
                  PROVE  FALSE
      BY DEF RoleSaved
    <3>1. InFlight(q) /\ req' = Answered(q, "ok")
      BY DEF CommitRole, Open
    <3>2. q # r
      BY <1>4, <3>1, AcceptedNow
    <3>. QED
      BY <2>1, <3>2 DEF IInv, Apart
  <2>. QED
    BY <1>3, <2>1, <2>2, <2>3, RoleMoves DEF RoleSeeded, RoleGone
<1>5. CASE req'[r] # req[r]
  <2>1. RoleStep(r)
    BY <1>1, <1>2, <1>3, <1>5, Actor DEF AdminStep, FindEmail, FindRole, InsertInvited,
       PublishInvitation, PublicationFails, EndInvitation, CheckAdmin, CheckSignIn, RereadAdmin,
       SelectAdmin, WriteAdmin, PublishLogin, CommitAdmin, At, Updates
  <2>2. \A answer \in {"ok", "refused", "error", "lost"} : req' # Answered(r, answer)
    BY <1>1, <1>3, AnsweredOK
  <2>3. CheckNewRole(r) \/ ReadRole(r) \/ ReadNames(r) \/ SelectRole(r) \/ WriteRole(r)
    BY <1>3, <2>1, <2>2
    DEF RoleStep, CommitRole, CheckRemoval, DeleteRole, CheckNames, InsertPermissions,
        CommitPermissions, DeletePermission, At
  <2>4. ASSUME NEW changes, Continue(r, changes), DOMAIN changes \subseteq {"pc", "copy", "plan"},
               "pc" \in DOMAIN changes
        PROVE  changes["pc"] = "commit" /\ ("plan" \in DOMAIN changes => changes["plan"] # None)
    BY <1>1, <1>2, <2>4, Continued
  <2>5. CASE CheckNewRole(r)
    BY <2>2, <2>4, <2>5 DEF CheckNewRole, Refuse
  <2>6. CASE ReadRole(r) \/ ReadNames(r)
    BY <2>2, <2>4, <2>6 DEF ReadRole, ReadNames, Refuse
  <2>7. CASE SelectRole(r)
    <3>1. \E plan : Continue(r, [pc |-> IF Nothing(plan) THEN "commit" ELSE "write", copy |-> None,
                                 plan |-> IF Nothing(plan) THEN None ELSE plan])
      BY <2>7 DEF SelectRole
    <3>. QED
      BY <2>4, <3>1
  <2>8. CASE WriteRole(r)
    <3>1. ~Violated(r) /\ Continue(r, [pc |-> "commit"])
      BY <2>2, <2>8 DEF WriteRole, Error
    <3>2. DOMAIN [pc |-> "commit"] = {"pc"} /\ "plan" \in Fields \ {"pc"}
      BY DEF Fields
    <3>3. req'[r].plan = req[r].plan /\ role' = role
      BY <1>2, <3>1, <3>2, Continued DEF tables
    <3>. QED
      BY <1>3, <3>1, <3>3 DEF Violated
  <2>. QED
    BY <2>3, <2>5, <2>6, <2>7, <2>8
<1>. QED
  BY <1>4, <1>5

\* A request that meets nobody is the only one under way, and its row is its own.
LEMMA LoneRow ==
    ASSUME IInv, RequestsOK, CompletionInv, [Next]_vars, NEW r \in Requests,
           InFlight(r), req[r].op \in Updates, Lone(r), admin[req[r].arg.email] # None
    PROVE  admin'[req[r].arg.email] = admin[req[r].arg.email] \/ CommitAdmin(r)
<1>. DEFINE e == req[r].arg.email
            Goal == admin'[e] = admin[e] \/ CommitAdmin(r)
<1>1. \A q \in Requests : InFlight(q) => q = r
  BY DEF CompletionInv, Completion, Lone
<1>2. CASE UNCHANGED admin
  BY <1>2
<1>3. ASSUME NEW q \in Requests, AskAdmins(q) \/ AskRoles(q)
      PROVE  Goal
  <2>1. ASSUME NEW op, NEW arg, NEW begins, Begin(q, op, arg, begins)
        PROVE  Goal
    BY <1>2, <2>1 DEF Begin, tables
  <2>. QED
    BY <1>3, <2>1 DEF AskAdmins, AskRoles, InviteAdmin, CompleteSignup, UpdateProfile, ChangePassword,
                      SignIn, CreateRole, UpdateRole, RemoveRole, CreatePermissions, RemovePermission
<1>4. ASSUME NEW q \in Requests, AdminStep(q)
      PROVE  Goal
  <2>1. q = r
    BY <1>1, <1>4
    DEF AdminStep, FindEmail, FindRole, InsertInvited, PublishInvitation, PublicationFails,
        EndInvitation, CheckAdmin, CheckSignIn, RereadAdmin, SelectAdmin, WriteAdmin, PublishLogin,
        CommitAdmin, At, Open
  <2>2. \/ CheckAdmin(r) \/ CheckSignIn(r) \/ RereadAdmin(r) \/ SelectAdmin(r) \/ WriteAdmin(r)
        \/ PublishLogin(r) \/ CommitAdmin(r)
    BY <1>4, <2>1 DEF AdminStep, FindEmail, FindRole, InsertInvited, PublishInvitation,
       PublicationFails, EndInvitation, At, Updates
  <2>. QED
    BY <1>2, <2>2
    DEF CheckAdmin, CheckSignIn, RereadAdmin, SelectAdmin, WriteAdmin, PublishLogin, Continue, Refuse,
        Error, tables
<1>5. ASSUME NEW q \in Requests, RoleStep(q)
      PROVE  Goal
  BY <1>1, <1>5
  DEF RoleStep, CheckNewRole, ReadRole, ReadNames, SelectRole, WriteRole, CommitRole, CheckRemoval,
      DeleteRole, CheckNames, InsertPermissions, CommitPermissions, DeletePermission, At, Open, Updates
<1>6. ASSUME NEW i \in Instances, SeederStep(i)
      PROVE  Goal
  <2>1. CASE CommitSeed(i)
    <3>1. CASE admin[Root] # None
      BY <1>2, <2>1, <3>1 DEF CommitSeed
    <3>2. CASE admin[Root] = None
      <4>1. e # Root /\ e \in Emails
        BY <3>2 DEF IInv, RequestOK, AdminUpdate
      <4>. QED
        BY <2>1, <3>2, <4>1 DEF CommitSeed, IInv, TablesOK
    <3>. QED
      BY <3>1, <3>2
  <2>2. ASSUME NEW how, Ends(i, how)
        PROVE  Goal
    BY <1>2, <2>2 DEF Ends, tables
  <2>. QED
    BY <1>2, <1>6, <2>1, <2>2
    DEF SeederStep, SeedPermissions, FindPermissions, SaveSeed, SeedRates, Crash, Restart, tables
<1>7. CASE AskList \/ ReadList \/ CountList \/ Rest \/ UNCHANGED vars
  BY <1>2, <1>7 DEF AskList, ReadList, CountList, Rest, vars, Others, tables
<1>. QED
  BY <1>3, <1>4, <1>5, <1>6, <1>7 DEF Next

\* What save() writes is what makes the row the entity.
LEMMA DifferenceApplied ==
    ASSUME NEW row, NEW payload, Columns \subseteq DOMAIN row, DOMAIN payload \subseteq Columns,
           NEW copy, copy = Over(payload, [c \in Columns |-> row[c]]),
           NEW plan, plan = [c \in {c \in Columns : copy[c] # row[c]} |-> copy[c]]
    PROVE  Over(plan, row) = Over(payload, row)
<1>1. \A c \in Columns : copy[c] = IF c \in DOMAIN payload THEN payload[c] ELSE row[c]
  BY DEF Over
<1>2. DOMAIN plan \cup DOMAIN row = DOMAIN payload \cup DOMAIN row
  OBVIOUS
<1>3. \A c \in DOMAIN row : (IF c \in DOMAIN plan THEN plan[c] ELSE row[c])
                            = (IF c \in DOMAIN payload THEN payload[c] ELSE row[c])
  BY <1>1
<1>4. DOMAIN payload \cup DOMAIN row = DOMAIN row
  OBVIOUS
<1>. QED
  BY <1>2, <1>3, <1>4 DEF Over

\* What an update does from its second read on: it copies the row, compares the copy with
\* the row, or keeps what it is going to write.
Copied(r) ==
    /\ req[r].pc = "reread" /\ req'[r].pc = "select"
    /\ req'[r].copy = Over(Payload(r), [c \in Columns |-> admin[req[r].arg.email][c]])

Compared(r) ==
    /\ req[r].pc = "select" /\ req'[r].pc = "write"
    /\ req'[r].plan = [c \in {c \in Columns : req[r].copy[c] # admin[req[r].arg.email][c]}
                         |-> req[r].copy[c]]

Kept(r) ==
    req[r].pc \in {"write", "commit"} /\ req'[r].pc = "commit" /\ req'[r].plan = req[r].plan

LEMMA UpdateGoesOn ==
    ASSUME IInv, RequestsOK, [Next]_vars, NEW r \in Requests, InFlight(r)', req'[r] # req[r],
           req'[r].op \in Updates, req'[r].pc \in {"select", "write", "commit"}
    PROVE  /\ InFlight(r) /\ req[r].op \in Updates /\ SameRequest(r) /\ UNCHANGED tables
           /\ Mistaken(r)' <=> Mistaken(r)
           /\ Copied(r) \/ Compared(r) \/ Kept(r)
<1>. DEFINE row == admin[req[r].arg.email]
<1>1. InFlight(r) /\ SameRequest(r)
  <2>1. ~Started(r)
    BY DEF Started
  <2>. QED
    BY <2>1, Moves DEF Proceeds
<1>2. /\ req[r].op \in Updates /\ req'[r].op = req[r].op
      /\ Recorded(r) /\ DOMAIN req = Requests /\ req[r] # None
  BY <1>1 DEF SameRequest, IInv, RequestOK, InFlight
<1>3. AdminStep(r)
  BY <1>1, <1>2, Actor
  DEF RoleStep, CheckNewRole, ReadRole, ReadNames, SelectRole, WriteRole, CommitRole, CheckRemoval,
      DeleteRole, CheckNames, InsertPermissions, CommitPermissions, DeletePermission, At, Open, Updates
<1>4. /\ req' # Answered(r, "ok") /\ req' # Answered(r, "refused") /\ req' # Answered(r, "error")
      /\ req' # Answered(r, IF Mistaken(r) THEN "refused" ELSE "ok")
  <2>1. \A answer \in {"ok", "refused", "error", "lost"} : req' # Answered(r, answer)
    BY <1>2, AnsweredOK
  <2>. QED
    BY <2>1
<1>5. \/ CheckAdmin(r) \/ CheckSignIn(r) \/ RereadAdmin(r) \/ SelectAdmin(r) \/ WriteAdmin(r)
      \/ PublishLogin(r)
  BY <1>2, <1>3, <1>4 DEF AdminStep, FindEmail, FindRole, InsertInvited, PublishInvitation,
     PublicationFails, EndInvitation, CommitAdmin, At, Updates
<1>6. ASSUME NEW changes, DOMAIN changes \subseteq {"pc", "copy", "plan", "mail"},
             "pc" \in DOMAIN changes, changes["pc"] = "reread", Continue(r, changes)
      PROVE  FALSE
  <2>1. req'[r]["pc"] = "reread"
    BY <1>1, <1>6, Continued
  <2>. QED
    BY <2>1
<1>7. CASE CheckAdmin(r)
  BY <1>4, <1>6, <1>7 DEF CheckAdmin, Refuse
<1>8. CASE CheckSignIn(r)
  BY <1>4, <1>6, <1>8 DEF CheckSignIn, Refuse, Error
<1>9. ASSUME NEW changes, DOMAIN changes \subseteq {"pc", "copy", "plan"}, Continue(r, changes)
      PROVE  /\ UNCHANGED tables /\ (Mistaken(r)' <=> Mistaken(r))
             /\ \A c \in DOMAIN changes : req'[r][c] = changes[c]
             /\ "plan" \notin DOMAIN changes => req'[r].plan = req[r].plan
  <2>1. {"mail", "plan"} \subseteq Fields /\ "mail" \notin DOMAIN changes
    BY <1>9 DEF Fields
  <2>2. /\ \A c \in DOMAIN changes : req'[r][c] = changes[c]
        /\ \A c \in Fields \ DOMAIN changes : req'[r][c] = req[r][c]
        /\ UNCHANGED tables
    BY <1>1, <1>9, Continued
  <2>3. req'[r].mail = req[r].mail
    BY <2>1, <2>2
  <2>. QED
    BY <1>2, <2>1, <2>2, <2>3 DEF Mistaken
<1>10. CASE RereadAdmin(r)
  <2>. DEFINE copy == Over(Payload(r), [c \in Columns |-> row[c]])
  <2>1. req[r].pc = "reread" /\ Continue(r, [pc |-> "select", copy |-> copy])
    BY <1>10 DEF RereadAdmin
  <2>2. /\ UNCHANGED tables /\ (Mistaken(r)' <=> Mistaken(r))
        /\ req'[r].pc = "select" /\ req'[r].copy = copy
    <3>. HIDE DEF copy
    <3>. QED
      BY <2>1, <1>9
  <2>. QED
    BY <1>1, <1>2, <2>1, <2>2 DEF Copied
<1>11. CASE SelectAdmin(r)
  <2>. DEFINE changed == {c \in Columns : req[r].copy[c] # row[c]}
              plan == [c \in changed |-> req[r].copy[c]]
  <2>1. req[r].pc = "select" /\ Continue(r, [pc |-> "write", copy |-> None, plan |-> plan])
    BY <1>11 DEF SelectAdmin
  <2>2. /\ UNCHANGED tables /\ (Mistaken(r)' <=> Mistaken(r))
        /\ req'[r].pc = "write" /\ req'[r].plan = plan
    <3>. HIDE DEF plan
    <3>. QED
      BY <2>1, <1>9
  <2>. QED
    BY <1>1, <1>2, <2>1, <2>2 DEF Compared
<1>12. CASE WriteAdmin(r)
  <2>1. req[r].pc = "write" /\ Continue(r, [pc |-> "commit"])
    BY <1>12 DEF WriteAdmin
  <2>2. /\ UNCHANGED tables /\ (Mistaken(r)' <=> Mistaken(r))
        /\ req'[r].pc = "commit" /\ req'[r].plan = req[r].plan
    BY <2>1, <1>9
  <2>. QED
    BY <1>1, <1>2, <2>1, <2>2 DEF Kept
<1>13. CASE PublishLogin(r)
  <2>1. req[r].pc = "commit" /\ req[r].mail = "pending" /\ Continue(r, [mail |-> "done"])
    BY <1>4, <1>13 DEF PublishLogin, Open
  <2>2. DOMAIN [mail |-> "done"] = {"mail"} /\ {"pc", "plan"} \subseteq Fields \ {"mail"}
    BY DEF Fields
  <2>3. /\ UNCHANGED tables /\ req'[r].mail = "done"
        /\ req'[r].pc = "commit" /\ req'[r].plan = req[r].plan
    BY <1>1, <2>1, <2>2, Continued
  <2>4. ~Mistaken(r) /\ ~Mistaken(r)'
    BY <2>1, <2>3, NothingAssumption DEF Mistaken
  <2>. QED
    BY <1>1, <1>2, <2>1, <2>3, <2>4 DEF Kept
<1>. QED
  BY <1>5, <1>7, <1>8, <1>10, <1>11, <1>12, <1>13

LEMMA AdminEditKeeps ==
    ASSUME IInv, RequestsOK, CompletionInv, EditInv, [Next]_vars, NEW r \in Requests
    PROVE  AdminEdit(r)'
<1>. DEFINE e == req[r].arg.email
            row == admin[e]
<1>. SUFFICES ASSUME InFlight(r)', req'[r].op \in Updates, Lone(r)', ~Mistaken(r)',
                     req'[r].pc \in {"select", "write", "commit"}
              PROVE  AdminEdit(r)'
  BY DEF AdminEdit
<1>1. InFlight(r) /\ (SameRequest(r) \/ req'[r] = req[r])
  <2>1. ~Started(r)
    BY DEF Started
  <2>. QED
    BY <2>1, Moves DEF Proceeds, InFlight
<1>2. /\ req[r].op \in Updates /\ req'[r].op = req[r].op /\ req'[r].arg = req[r].arg /\ Lone(r)
      /\ AdminUpdate(r) /\ AdminEdit(r) /\ Recorded(r) /\ DOMAIN req = Requests /\ req[r] # None
      /\ e \in Emails
  BY <1>1, LoneBefore DEF SameRequest, IInv, RequestOK, EditInv, InFlight, AdminUpdate
<1>3. ~CommitAdmin(r)
  <2>. SUFFICES ASSUME CommitAdmin(r)
                PROVE  FALSE
    OBVIOUS
  <2>1. \E answer \in {"ok", "refused"} : req' = Answered(r, answer)
    BY DEF CommitAdmin
  <2>. QED
    BY <1>2, <2>1, AnsweredOK
<1>4. ~Mistaken(r)
  <2>1. CASE req'[r] = req[r]
    BY <2>1 DEF Mistaken
  <2>2. CASE req'[r] # req[r]
    BY <2>2, UpdateGoesOn
  <2>. QED
    BY <2>1, <2>2
<1>5. Payload(r)' = Payload(r)
  BY <1>2, <1>4 DEF Payload
<1>6. CASE req'[r] = req[r]
  <2>1. row # None
    BY <1>1, <1>2, <1>6 DEF AdminUpdate
  <2>2. admin'[e] = row
    BY <1>1, <1>2, <1>3, <2>1, LoneRow
  <2>. QED
    BY <1>1, <1>2, <1>4, <1>5, <1>6, <2>2 DEF AdminEdit
<1>7. CASE req'[r] # req[r]
  <2>1. admin' = admin /\ (Copied(r) \/ Compared(r) \/ Kept(r))
    BY <1>7, UpdateGoesOn DEF tables
  <2>2. CASE Copied(r)
    BY <1>2, <1>5, <2>1, <2>2 DEF Copied, AdminEdit
  <2>3. CASE Compared(r)
    <3>. DEFINE copy == req[r].copy
                plan == [c \in {c \in Columns : copy[c] # row[c]} |-> copy[c]]
    <3>1. req[r].pc = "select" /\ req'[r].pc = "write" /\ req'[r].plan = plan
      BY <2>3 DEF Compared
    <3>2. copy = Over(Payload(r), [c \in Columns |-> row[c]])
      BY <1>1, <1>2, <1>4, <3>1 DEF AdminEdit
    <3>3. row # None
      BY <1>1, <1>2, <3>1 DEF AdminUpdate
    <3>4. Columns \subseteq DOMAIN row
      BY <1>2, <3>3 DEF IInv, TablesOK, AdminRecords, Columns
    <3>5. DOMAIN Payload(r) \subseteq Columns
      BY <1>2, <1>4, PayloadTyped
    <3>6. Over(plan, row) = Over(Payload(r), row)
      <4>1. plan = [c \in {c \in Columns : copy[c] # row[c]} |-> copy[c]]
        OBVIOUS
      <4>. HIDE DEF plan, row, copy
      <4>. QED
        BY <3>2, <3>4, <3>5, <4>1, DifferenceApplied
    <3>. HIDE DEF plan
    <3>. QED
      BY <1>2, <1>5, <2>1, <3>1, <3>6 DEF AdminEdit
  <2>4. CASE Kept(r)
    BY <1>1, <1>2, <1>4, <1>5, <2>1, <2>4 DEF Kept, AdminEdit
  <2>. QED
    BY <2>1, <2>2, <2>3, <2>4
<1>. QED
  BY <1>6, <1>7

LEMMA OneSeedsKeeps ==
    ASSUME IInv, RequestsOK, EditInv, [Next]_vars
    PROVE  OneSeeds'
<1>1. ASSUME NEW i \in Instances, Seeding(i)'
      PROVE  Seeding(i) \/ SeedPermissions(i)
  BY <1>1, ProcessesMove DEF ProcessMove, Seeding
<1>2. ASSUME NEW i \in Instances, NEW j \in Instances, Seeding(j)', SeedPermissions(i)
      PROVE  i = j
  <2>1. j # i => ~Seeding(j) /\ instance'[j] = instance[j]
    BY <1>2 DEF SeedPermissions, Move, IInv, ProcessesOK
  <2>. QED
    BY <1>2, <2>1 DEF Seeding
<1>3. \A i, j \in Instances : Seeding(i)' /\ Seeding(j)' => i = j
  BY <1>1, <1>2 DEF EditInv, OneSeeds
<1>4. ASSUME NEW i \in Instances, instance'[i] \in {"save", "commit"}, role'[Super] # None
      PROVE  role'[Super].permissions \subseteq found'[i]
  <2>1. Super \in Roles
    BY DEF Roles
  <2>2. CASE role'[Super] = role[Super]
    <3>1. role[Super].permissions \subseteq permission
      BY <1>4, <2>1, <2>2 DEF IInv, ReferencesHold
    <3>2. \/ instance[i] \in {"save", "commit"} /\ found'[i] = found[i]
          \/ found'[i] = permission \cup DefaultPermissions
      BY <1>4, ProcessesMove DEF ProcessMove
    <3>. QED
      BY <1>4, <2>2, <3>1, <3>2 DEF EditInv, OneSeeds
  <2>3. CASE RoleSeeded(Super)
    <3>1. PICK j \in Instances : instance[j] = "commit" /\ instance' = [instance EXCEPT ![j] = "rates"]
      BY <2>3 DEF RoleSeeded
    <3>2. i # j /\ instance'[i] = instance[i]
      BY <1>4, <3>1 DEF IInv, ProcessesOK
    <3>. QED
      BY <1>4, <3>1, <3>2 DEF EditInv, OneSeeds, Seeding
  <2>. QED
    BY <1>4, <2>1, <2>2, <2>3, RoleMoves DEF RoleSaved, RoleGone
<1>. QED
  BY <1>3, <1>4 DEF OneSeeds

LEMMA EditsKeep ==
    ASSUME IInv, RequestsOK, CompletionInv, EditInv, [Next]_vars
    PROVE  EditInv'
BY RoleEditKeeps, UnbornKeeps, InsertsKeep, AdminEditKeeps, OneSeedsKeeps DEF EditInv

\* A request that is accepted in a step has committed in it.
LEMMA Commits ==
    ASSUME IInv, RequestsOK, [Next]_vars, NEW r \in Requests, Accepts(r)
    PROVE  /\ req[r].op \in Updates => CommitAdmin(r) /\ ~Mistaken(r)
           /\ req[r].op = "updateRole" => CommitRole(r)
<1>1. InFlight(r) /\ req'[r].answer = "ok" /\ Recorded(r) /\ DOMAIN req = Requests /\ req[r] # None
  BY DEF Accepts, IInv, RequestOK, InFlight
<1>2. req'[r] # req[r] /\ req[r].answer = None
  BY <1>1, NothingAssumption DEF Recorded, InFlight
<1>3. AdminStep(r) \/ RoleStep(r)
  BY <1>1, <1>2, Actor
<1>4. /\ ~Refuse(r) /\ ~Error(r)
      /\ req' # Answered(r, "error") /\ req' # Answered(r, "refused")
  BY <1>1, AnsweredOK DEF Refuse, Error
<1>5. ASSUME NEW changes, DOMAIN changes \subseteq {"pc", "copy", "plan", "mail"},
             Continue(r, changes)
      PROVE  FALSE
  <2>1. "answer" \in Fields \ DOMAIN changes
    BY <1>5 DEF Fields
  <2>. QED
    BY <1>1, <1>2, <1>5, <2>1, Continued, NothingAssumption
<1>6. ASSUME req[r].op \in Updates
      PROVE  CommitAdmin(r) /\ ~Mistaken(r)
  <2>1. \/ CheckAdmin(r) \/ CheckSignIn(r) \/ RereadAdmin(r) \/ SelectAdmin(r) \/ WriteAdmin(r)
        \/ PublishLogin(r) \/ CommitAdmin(r)
    BY <1>3, <1>6
    DEF AdminStep, FindEmail, FindRole, InsertInvited, PublishInvitation, PublicationFails,
        EndInvitation, RoleStep, CheckNewRole, ReadRole, ReadNames, SelectRole, WriteRole, CommitRole,
        CheckRemoval, DeleteRole, CheckNames, InsertPermissions, CommitPermissions,
        DeletePermission, At, Updates
  <2>2. ~CheckSignIn(r)
    BY <1>4, <1>5 DEF CheckSignIn
  <2>3. ~PublishLogin(r)
    BY <1>4, <1>5 DEF PublishLogin
  <2>4. CommitAdmin(r)
    BY <1>4, <1>5, <2>1, <2>2, <2>3 DEF CheckAdmin, RereadAdmin, SelectAdmin, WriteAdmin
  <2>. QED
    BY <1>4, <2>4 DEF CommitAdmin
<1>7. ASSUME req[r].op = "updateRole"
      PROVE  CommitRole(r)
  <2>1. ReadRole(r) \/ ReadNames(r) \/ SelectRole(r) \/ WriteRole(r) \/ CommitRole(r)
    BY <1>3, <1>7
    DEF AdminStep, FindEmail, FindRole, InsertInvited, PublishInvitation, PublicationFails,
        EndInvitation, CheckAdmin, CheckSignIn, RereadAdmin, SelectAdmin, WriteAdmin, PublishLogin,
        CommitAdmin, RoleStep, CheckNewRole, CheckRemoval, DeleteRole, CheckNames, InsertPermissions, CommitPermissions,
        DeletePermission, At, Updates
  <2>. QED
    BY <1>4, <1>5, <2>1 DEF ReadRole, ReadNames, SelectRole, WriteRole
<1>. QED
  BY <1>6, <1>7

\* Whoever locks an admin: an update that writes so.
LEMMA WhoLocks ==
    ASSUME IInv, [Next]_vars, NEW e \in Emails, admin'[e] # None, admin'[e].status = "locked"
    PROVE  \/ admin[e] # None /\ admin[e].status = "locked"
           \/ \E r \in Requests : /\ CommitAdmin(r) /\ req[r].arg.email = e
                                  /\ "status" \in DOMAIN req[r].plan
                                  /\ req[r].plan["status"] = "locked"
<1>. DEFINE Goal == \/ admin[e] # None /\ admin[e].status = "locked"
                    \/ \E r \in Requests : /\ CommitAdmin(r) /\ req[r].arg.email = e
                                           /\ "status" \in DOMAIN req[r].plan
                                           /\ req[r].plan["status"] = "locked"
<1>1. CASE UNCHANGED admin \/ admin'[e] = admin[e]
  BY <1>1
<1>2. ASSUME NEW r \in Requests,
             UNCHANGED tables \/ Refuse(r) \/ Error(r) \/ \E changes : Continue(r, changes)
      PROVE  Goal
  BY <1>1, <1>2 DEF Refuse, Error, Continue, tables
<1>3. ASSUME NEW r \in Requests, AskAdmins(r) \/ AskRoles(r)
      PROVE  Goal
  <2>1. ASSUME NEW op, NEW arg, NEW begins, Begin(r, op, arg, begins)
        PROVE  Goal
    BY <1>1, <2>1 DEF Begin, tables
  <2>. QED
    BY <1>3, <2>1 DEF AskAdmins, AskRoles, InviteAdmin, CompleteSignup, UpdateProfile, ChangePassword,
                      SignIn, CreateRole, UpdateRole, RemoveRole, CreatePermissions, RemovePermission
<1>4. ASSUME NEW r \in Requests, AdminStep(r)
      PROVE  Goal
  <2>1. CASE EndInvitation(r) /\ ~Error(r)
    <3>. DEFINE d == req[r].arg.email
                new == NewAdmin("incomplete_profile", req[r].arg.role, None, None, req[r].start + 2)
    <3>1. admin' = [admin EXCEPT ![d] = new] /\ new.status = "incomplete_profile"
      BY <2>1 DEF EndInvitation, NewAdmin
    <3>. HIDE DEF d, new
    <3>2. e # d
      BY <3>1 DEF IInv, TablesOK
    <3>. QED
      BY <1>1, <3>1, <3>2 DEF IInv, TablesOK
  <2>2. CASE CommitAdmin(r)
    <3>. DEFINE d == req[r].arg.email
    <3>1. /\ d \in Emails /\ admin[d] # None /\ \A c \in Emails \ {d} : admin'[c] = admin[c]
          /\ admin'[d].status = IF "status" \in DOMAIN req[r].plan THEN req[r].plan["status"]
                                ELSE admin[d].status
      BY <2>2, CommittedAdmin
    <3>2. CASE e = d
      BY <2>2, <3>1, <3>2
    <3>. QED
      BY <1>1, <3>1, <3>2
  <2>3. CASE InsertInvited(r)
    BY <1>1, <1>2, <2>3 DEF InsertInvited, Ends, tables
  <2>. QED
    BY <1>2, <1>4, <2>1, <2>2, <2>3
    DEF AdminStep, FindEmail, FindRole, PublishInvitation, PublicationFails, EndInvitation, CheckAdmin,
        CheckSignIn, RereadAdmin, SelectAdmin, WriteAdmin, PublishLogin, tables
<1>5. ASSUME NEW r \in Requests, RoleStep(r)
      PROVE  Goal
  BY <1>1, <1>2, <1>5
  DEF RoleStep, CheckNewRole, ReadRole, ReadNames, SelectRole, WriteRole, CommitRole, CheckRemoval,
      DeleteRole, CheckNames, InsertPermissions, CommitPermissions, DeletePermission
<1>6. ASSUME NEW i \in Instances, SeederStep(i)
      PROVE  Goal
  <2>1. CASE CommitSeed(i)
    <3>. DEFINE new == [status |-> "active", role |-> Super, password |-> Root, profile |-> Root,
                        attempts |-> "below", created_at |-> 0]
    <3>1. (admin' = admin \/ admin' = [admin EXCEPT ![Root] = new]) /\ new.status = "active"
      BY <2>1 DEF CommitSeed
    <3>. HIDE DEF new
    <3>2. e # Root \/ admin' = admin
      BY <3>1 DEF IInv, TablesOK
    <3>. QED
      BY <1>1, <3>1, <3>2 DEF IInv, TablesOK
  <2>. QED
    BY <1>1, <1>6, <2>1
    DEF SeederStep, SeedPermissions, FindPermissions, SaveSeed, SeedRates, Crash, Restart, Ends, tables
<1>7. CASE AskList \/ ReadList \/ CountList \/ Rest \/ UNCHANGED vars
  BY <1>1, <1>7 DEF AskList, ReadList, CountList, Rest, vars, Others, tables
<1>. QED
  BY <1>3, <1>4, <1>5, <1>6, <1>7 DEF Next

LEMMA LocksKeep ==
    ASSUME IInv, RequestsOK, LockInv, [Next]_vars
    PROVE  LockInv'
<1>1. ASSUME NEW e, Repelled(e)
      PROVE  Repelled(e)'
  <2>1. PICK r \in Requests : /\ req[r] # None /\ req[r].op = "signIn" /\ req[r].arg.email = e
                              /\ req[r].answer = "refused"
    BY <1>1 DEF Repelled
  <2>2. ~InFlight(r)
    BY <2>1, NothingAssumption DEF IInv, RequestOK, Recorded, InFlight
  <2>3. req'[r] = req[r]
    BY <2>1, <2>2, Moves DEF Started, Proceeds
  <2>. QED
    BY <2>1, <2>3 DEF Repelled
<1>2. ASSUME NEW e \in Emails, admin'[e] # None, admin'[e].status = "locked"
      PROVE  Repelled(e)'
  <2>1. CASE admin[e] # None /\ admin[e].status = "locked"
    BY <1>1, <2>1 DEF LockInv
  <2>2. ASSUME NEW r \in Requests, CommitAdmin(r), req[r].arg.email = e,
               "status" \in DOMAIN req[r].plan, req[r].plan["status"] = "locked"
        PROVE  Repelled(e)'
    <3>1. /\ InFlight(r) /\ req[r].pc = "commit" /\ req[r].op \in Updates
          /\ req' = Answered(r, IF Mistaken(r) THEN "refused" ELSE "ok")
      BY <2>2 DEF CommitAdmin, Open
    <3>2. Recorded(r) /\ DOMAIN req = Requests /\ req[r] # None
      BY <3>1 DEF IInv, RequestOK, InFlight
    <3>3. CASE Mistaken(r)
      <4>1. SameRequest(r) /\ req'[r].answer = "refused"
        BY <3>1, <3>2, <3>3, AnsweredOK
      <4>2. req'[r] # None
        BY <3>1, <3>2, Moves, RowsAssumption DEF Proceeds, Started
      <4>. QED
        BY <2>2, <3>3, <4>1, <4>2 DEF Mistaken, SameRequest, Repelled
    <3>4. CASE ~Mistaken(r)
      BY <1>1, <2>2, <3>1, <3>4 DEF LockInv, LockKnown
    <3>. QED
      BY <3>3, <3>4
  <2>. QED
    BY <1>2, <2>1, <2>2, WhoLocks
<1>3. ASSUME NEW r \in Requests
      PROVE  LockKnown(r)'
  <2>. DEFINE e == req[r].arg.email
              row == admin[e]
  <2>. SUFFICES ASSUME InFlight(r)', req'[r].op \in Updates, ~Mistaken(r)',
                       req'[r].pc \in {"select", "write", "commit"}
                PROVE  LockKnown(r)'
    BY DEF LockKnown
  <2>1. CASE req'[r] = req[r]
    <3>1. InFlight(r) /\ ~Mistaken(r) /\ LockKnown(r)
      BY <2>1 DEF InFlight, Mistaken, LockInv
    <3>. QED
      BY <1>1, <2>1, <3>1 DEF LockKnown
  <2>2. CASE req'[r] # req[r]
    <3>1. /\ InFlight(r) /\ req[r].op \in Updates /\ req'[r].arg = req[r].arg
          /\ ~Mistaken(r) /\ (Copied(r) \/ Compared(r) \/ Kept(r))
      BY <2>2, UpdateGoesOn DEF SameRequest
    <3>2. LockKnown(r) /\ AdminUpdate(r) /\ e \in Emails
      BY <3>1 DEF LockInv, IInv, RequestOK, AdminUpdate
    <3>3. CASE Copied(r)
      <4>. DEFINE old == [c \in Columns |-> row[c]]
      <4>1. /\ req[r].pc = "reread" /\ req'[r].pc = "select" /\ row # None
            /\ req'[r].copy = Over(Payload(r), old)
        BY <3>1, <3>2, <3>3 DEF Copied, AdminUpdate
      <4>2. "status" \in DOMAIN old /\ old["status"] = row.status
        BY DEF Columns
      <4>3. "status" \in DOMAIN Payload(r) => Payload(r)["status"] = "active"
        BY <3>1 DEF Payload, Updates
      <4>4. req'[r].copy["status"] = "locked" => row.status = "locked"
        <5>. DEFINE new == Payload(r)
        <5>. HIDE DEF old, new
        <5>1. /\ \A c \in DOMAIN new : Over(new, old)[c] = new[c]
              /\ \A c \in DOMAIN old \ DOMAIN new : Over(new, old)[c] = old[c]
          BY Overridden
        <5>2. "status" \in DOMAIN new => new["status"] = "active"
          BY <4>3 DEF new
        <5>3. req'[r].copy = Over(new, old)
          BY <4>1 DEF new
        <5>. QED
          BY <4>2, <5>1, <5>2, <5>3
      <4>. QED
        BY <1>1, <3>1, <3>2, <4>1, <4>4 DEF LockInv, LockKnown
    <3>4. CASE Compared(r)
      BY <1>1, <3>1, <3>2, <3>4 DEF Compared, LockKnown
    <3>5. CASE Kept(r)
      BY <1>1, <3>1, <3>2, <3>5 DEF Kept, LockKnown
    <3>. QED
      BY <3>1, <3>3, <3>4, <3>5
  <2>. QED
    BY <2>1, <2>2
<1>. QED
  BY <1>2, <1>3 DEF LockInv

FullInv == IInv /\ RequestsOK /\ MailInv /\ CompletionInv /\ RemovalInv /\ EditInv /\ LockInv

LEMMA FullInvariance == Spec => []FullInv
<1>1. Init => FullInv
  <2>. SUFFICES ASSUME Init
                PROVE  FullInv
    OBVIOUS
  <2>1. /\ req = [r \in Requests |-> None]
        /\ \A i \in Instances : instance[i] \in {"starting", "up"}
    BY DEF Init, Fresh, InUseAlready
  <2>2. RequestsOK /\ CompletionInv /\ RemovalInv
    BY <2>1 DEF RequestsOK, CompletionInv, Completion, RemovalInv, Accepted, Completes, InFlight
  <2>3. EditInv
    <3>1. \A q \in Requests : role[q] = None
      BY RolesAssumption DEF Init, Fresh, InUseAlready, Roles
    <3>. QED
      BY <2>1, <3>1 DEF EditInv, RoleEdit, Unborn, Inserts, AdminEdit, OneSeeds, RoleWriter, Open,
                        InFlight, Seeding
  <2>4. MailInv
    <3>1. CASE Fresh
      BY <3>1 DEF Fresh, MailInv
    <3>2. CASE InUseAlready
      <4>. DEFINE invited == NewAdmin("incomplete_profile", Super, None, None, 1)
                  root == Over([attempts |-> "allowed"], NewAdmin("active", Super, Root, Root, 0))
      <4>1. invited \in AdminRecords
        BY DEF NewAdmin, AdminRecords, Roles
      <4>. HIDE DEF invited, root
      <4>2. /\ mailed = {Invited}
            /\ admin = [e \in Emails |-> CASE e = Root -> root [] e = Invited -> invited [] OTHER -> None]
        BY <3>2 DEF InUseAlready, invited, root
      <4>. QED
        BY <4>1, <4>2, RowsAssumption, RootAssumption DEF MailInv
    <3>. QED
      BY <3>1, <3>2 DEF Init
  <2>5. LockInv
    <3>1. \A r \in Requests : LockKnown(r)
      BY <2>1 DEF LockKnown, InFlight
    <3>2. CASE Fresh
      BY <3>1, <3>2 DEF Fresh, LockInv
    <3>3. CASE InUseAlready
      <4>. DEFINE invited == NewAdmin("incomplete_profile", Super, None, None, 1)
                  root == Over([attempts |-> "allowed"], NewAdmin("active", Super, Root, Root, 0))
      <4>1. invited.status = "incomplete_profile" /\ root.status = "active"
        BY RootInUse DEF NewAdmin
      <4>. HIDE DEF invited, root
      <4>2. admin = [e \in Emails |-> CASE e = Root -> root [] e = Invited -> invited [] OTHER -> None]
        BY <3>3 DEF InUseAlready, invited, root
      <4>3. \A e \in Emails : admin[e] # None => admin[e] \in {root, invited}
        BY <4>2
      <4>. QED
        BY <3>1, <4>1, <4>3 DEF LockInv
    <3>. QED
      BY <3>2, <3>3 DEF Init
  <2>. QED
    BY <2>2, <2>3, <2>4, <2>5, InitOK DEF FullInv
<1>2. FullInv /\ [Next]_vars => FullInv'
  BY NextKeeps, RequestsKeep, MailsKeep, CompletionsKeep, RemovalsKeep, EditsKeep, LocksKeep DEF FullInv
<1>. QED
  BY <1>1, <1>2, PTL DEF Spec

-----------------------------------------------------------------------------
(* What follows from it. *)

\* The tables, the processes and the requests keep their types, whatever requests, crashes
\* and restarts interleave: an admin has a password exactly when the invitation is
\* completed, and the seeded role is the only default one.
THEOREM TypeCorrect == Spec => []TypeOK
<1>1. FullInv => TypeOK
  BY DEF FullInv, IInv, TypeOK
<1>. QED
  BY <1>1, FullInvariance, PTL

\* However many invitations, updates and removals meet: an admin has a role that is there,
\* a role has permissions that are there, and no two roles share a slug.
THEOREM ReferencesKept == Spec => []ReferencesHold
<1>1. IInv => ReferencesHold
  BY DEF IInv
<1>. QED
  BY <1>1, Invariance, PTL

\* A process that serves finds what the seeder promises, however many seed and crash and
\* whatever the requests of the others change; but that the root admin is locked when
\* somebody has signed in at his address with a wrong password once too often.
THEOREM SeededUp == Spec => []UpMeansSeeded
<1>1. FullInv => UpMeansSeeded
  BY RootAssumption DEF FullInv, IInv, Seeded, LockInv, UpMeansSeeded, Signed
<1>. QED
  BY <1>1, FullInvariance, PTL

\* So while a process serves, the root admin passes the guards of every handler that the
\* default permissions open at all, or is locked, and somebody who signed in at his address
\* was refused: no invitation, no update and no seeding shuts him out, a sign-in alone does.
THEOREM RootAdmitted ==
    Spec => []((\E i \in Instances : instance[i] = "up") =>
                  \/ \A h \in Handlers \ Unreachable : Caller(Root, h)
                  \/ admin[Root].status = "locked" /\ Repelled(Root))
<1>1. ASSUME UpMeansSeeded, NEW i \in Instances, instance[i] = "up", NEW h \in Handlers \ Unreachable,
             ~(admin[Root].status = "locked" /\ Repelled(Root))
      PROVE  Caller(Root, h)
  <2>1. /\ DefaultPermissions \subseteq role[Super].permissions
        /\ admin[Root] # None /\ admin[Root].role = Super /\ admin[Root].status = "active"
    BY <1>1 DEF UpMeansSeeded
  <2>2. PermissionsGuard(DefaultPermissions, h)
    BY DEF Unreachable
  <2>3. PermissionsGuard(role[Super].permissions, h)
    BY <2>1, <2>2 DEF PermissionsGuard
  <2>4. ValidToken(admin[Root].status, TRUE)
    BY <2>1 DEF ValidToken, Refused
  <2>. QED
    BY <2>1, <2>3, <2>4 DEF Caller
<1>2. UpMeansSeeded => ((\E i \in Instances : instance[i] = "up") =>
                          \/ \A h \in Handlers \ Unreachable : Caller(Root, h)
                          \/ admin[Root].status = "locked" /\ Repelled(Root))
  BY <1>1
<1>. QED
  BY SeededUp, <1>2, PTL

\* Nobody is on the table without having been mailed, and nobody is mailed in vain unless
\* a request fails: although the mail leaves before the row is committed.
THEOREM MailsMatch == Spec => []MailsMatchInvitations
<1>1. FullInv => MailsMatchInvitations
  BY DEF FullInv, MailInv, Invites, MailsMatchInvitations
<1>. QED
  BY <1>1, FullInvariance, PTL

\* Of two completions of one invitation that do not overlap, however many others do, only
\* the first one is accepted.
THEOREM CompletedOnce == Spec => []OneCompletion
<1>1. FullInv => OneCompletion
  <2>. SUFFICES ASSUME FullInv, NEW q \in Requests, NEW r \in Requests, q # r,
                       Accepted(q, "completeSignup"), Accepted(r, "completeSignup"),
                       req[q].arg = req[r].arg
                PROVE  Overlapped(q, r)
    BY DEF OneCompletion
  <2>1. req[r].pc = "done"
    BY NothingAssumption DEF FullInv, IInv, RequestOK, Recorded, Accepted
  <2>. QED
    BY <2>1 DEF FullInv, CompletionInv, Completion, Accepted, Completes
<1>. QED
  BY <1>1, FullInvariance, PTL

\* However many processes seed one database, and however often they crash and start again,
\* the transaction of a seeding fails on what others have written only when a permission was
\* removed.
THEOREM SeedingFails == Spec => SeedFailsOnlyByRemoval
<1>1. ASSUME FullInv, [Next]_vars
      PROVE  SeedsInPeace
  <2>. SUFFICES ASSUME NEW i \in Instances, Seeding(i), instance'[i] = "failed"
                PROVE  Removed
    BY DEF SeedsInPeace, Removed
  <2>1. ProcessMove(i)
    BY <1>1, ProcessesMove DEF FullInv
  <2>2. instance[i] = "save" /\ ~(found[i] \subseteq permission \cup DefaultPermissions)
    BY <2>1 DEF ProcessMove, Seeding
  <2>. QED
    BY <1>1, <2>2 DEF FullInv, RemovalInv
<1>. QED
  BY <1>1, FullInvariance, PTL DEF Spec, SeedFailsOnlyByRemoval

\* However many updates, removals and seedings of roles meet: a role loses a permission only
\* to an update that revokes it, or that does not ask for it and overlapped another one, and
\* comes back only by an update that overlapped its removal.
THEOREM OverlapsUndo == Spec => OnlyOverlapsUndo
<1>1. ASSUME FullInv, [Next]_vars
      PROVE  RolesUndone
  <2>. SUFFICES ASSUME NEW x \in Roles, role'[x] # None
                PROVE  /\ role[x] # None =>
                             \A p \in role[x].permissions \ role'[x].permissions :
                                 \E r \in Requests :
                                    /\ Accepts(r) /\ req[r].op = "updateRole" /\ req[r].arg.role = x
                                    /\ \/ p \in req[r].arg.dels
                                       \/ p \notin req[r].arg.adds /\ Changed(r, "updateRole")
                       /\ role[x] = None =>
                             \/ x = Super
                             \/ \E r \in Requests : Accepts(r) /\ req[r].op = "createRole" /\ x = r
                             \/ \E r \in Requests :
                                   /\ Accepts(r) /\ req[r].op = "updateRole" /\ req[r].arg.role = x
                                   /\ Changed(r, "removeRole")
    BY <1>1 DEF RolesUndone
  <2>. USE DEF FullInv
  <2>1. CASE role'[x] = role[x]
    BY <2>1
  <2>2. CASE RoleSeeded(x)
    <3>1. x = Super /\ \E i \in Instances : instance[i] = "commit" /\ role'[x].permissions = found[i]
      BY <2>2 DEF RoleSeeded
    <3>2. role[x] # None => role[x].permissions \subseteq role'[x].permissions
      BY <1>1, <3>1 DEF EditInv, OneSeeds
    <3>. QED
      BY <3>1, <3>2
  <2>3. CASE RoleSaved(x)
    <3>1. PICK r \in Requests : /\ RoleWriter(r) /\ CommitRole(r) /\ WrittenRole(r) = x
                                /\ role'[x] = Saved(r)
      BY <2>3 DEF RoleSaved
    <3>2. /\ InFlight(r) /\ req[r].pc = "commit" /\ req[r].plan # None
          /\ req[r].op \in {"createRole", "updateRole"} /\ req' = Answered(r, "ok")
      BY <3>1 DEF CommitRole, RoleWriter, Open
    <3>3. Accepts(r)
      BY <1>1, <3>2, AcceptedNow DEF Accepts
    <3>4. CASE req[r].op = "createRole"
      <4>1. x = r /\ role[x] = None
        BY <1>1, <3>1, <3>2, <3>4 DEF WrittenRole, EditInv, Unborn
      <4>. QED
        BY <3>3, <3>4, <4>1
    <3>5. CASE req[r].op = "updateRole"
      <4>. DEFINE arg == req[r].arg
                  row == role[x]
                  plan == req[r].plan
      <4>1. arg.role = x /\ RoleEdit(r) /\ Inserts(r)
        BY <1>1, <3>1, <3>5 DEF WrittenRole, EditInv
      <4>2. row = None => Changed(r, "removeRole")
        BY <3>2, <3>5, <4>1 DEF RoleEdit
      <4>3. ASSUME row # None, NEW p \in row.permissions, p \notin role'[x].permissions
            PROVE  p \in arg.dels \/ (p \notin arg.adds /\ Changed(r, "updateRole"))
        <5>1. ~plan.new
          BY <3>1, <4>1, <4>3 DEF Inserts
        <5>2. role'[x] = NewRole(IF plan.slug = None THEN row.slug ELSE plan.slug, FALSE,
                                 (row.permissions \cup plan.adds) \ plan.dels)
          BY <3>1, <3>2, <4>3, <5>1 DEF Saved
        <5>3. p \in plan.dels /\ plan.dels \cap (arg.adds \ arg.dels) = {}
          BY <3>2, <3>5, <4>1, <4>3, <5>2 DEF NewRole, RoleEdit
        <5>4. ~Changed(r, "updateRole") => role'[x] = Edited(arg, row)
          BY <3>1, <3>2, <3>5, <4>1, <4>3 DEF RoleEdit
        <5>. QED
          BY <4>3, <5>3, <5>4 DEF Edited
      <4>. QED
        BY <3>3, <3>5, <4>1, <4>2, <4>3
    <3>. QED
      BY <3>2, <3>4, <3>5
  <2>. QED
    BY <1>1, <2>1, <2>2, <2>3, RoleMoves DEF RoleGone
<1>. QED
  BY <1>1, FullInvariance, PTL DEF Spec, OnlyOverlapsUndo

\* An update of an admin or a role that met no other request makes of the row what it was
\* asked for and nothing else, whatever processes seed, crash and start meanwhile.
THEOREM LoneApply == Spec => LoneUpdatesApply
<1>1. ASSUME FullInv, [Next]_vars
      PROVE  UpdatesApplied
  <2>. SUFFICES ASSUME NEW r \in Requests, Accepts(r), Lone(r)
                PROVE  Applied(r)
    BY DEF UpdatesApplied
  <2>. USE DEF FullInv
  <2>. DEFINE arg == req[r].arg
  <2>1. InFlight(r)
    BY DEF Accepts
  <2>2. CASE req[r].op \in Updates
    <3>1. /\ CommitAdmin(r) /\ ~Mistaken(r) /\ req[r].pc = "commit" /\ AdminEdit(r)
          /\ admin' = [admin EXCEPT ![arg.email] = Over(req[r].plan, admin[arg.email])]
      BY <1>1, <2>2, Commits DEF CommitAdmin, Open, EditInv
    <3>2. Over(req[r].plan, admin[arg.email]) = Over(Payload(r), admin[arg.email])
      BY <2>1, <2>2, <3>1 DEF AdminEdit
    <3>3. req[r].op # "updateRole"
      BY <2>2 DEF Updates
    <3>. QED
      BY <2>2, <3>1, <3>2, <3>3 DEF Applied
  <2>3. CASE req[r].op = "updateRole"
    <3>1. /\ req[r].pc = "commit" /\ RoleEdit(r)
          /\ role' = [role EXCEPT ![arg.role] = Saved(r)]
      BY <1>1, <2>3, Commits DEF CommitRole, Open, EditInv, WrittenRole
    <3>2. \A op : ~Changed(r, op)
      BY DEF Changed, Lone
    <3>3. Saved(r) = Edited(arg, role[arg.role])
      BY <2>1, <2>3, <3>1, <3>2 DEF RoleEdit
    <3>4. req[r].op \notin Updates
      BY <2>3 DEF Updates
    <3>. QED
      BY <2>3, <3>1, <3>3, <3>4 DEF Applied
  <2>. QED
    BY <2>2, <2>3 DEF Applied
<1>. QED
  BY <1>1, FullInvariance, PTL DEF Spec, LoneUpdatesApply

-----------------------------------------------------------------------------
(* The list of the admins. *)

\* The members of K, those of the greatest t first.
Later(K, t, e) == {d \in K : t[d] > t[e]}
Ranked(K, t) == [k \in 1 .. Cardinality(K) |-> CHOOSE e \in K : Cardinality(Later(K, t, e)) = k - 1]

Dates(K, t) == /\ IsFiniteSet(K) /\ t \in [K -> Nat]
               /\ \A d, e \in K : t[d] = t[e] => d = e

\* Members at different times have different places, and every place is taken.
LEMMA Ranks ==
    ASSUME NEW K, NEW t, Dates(K, t)
    PROVE  LET rank(e) == Cardinality(Later(K, t, e))
               list    == Ranked(K, t)
           IN  /\ Cardinality(K) \in Nat
               /\ \A e \in K : rank(e) \in 0 .. Cardinality(K) - 1
               /\ \A d, e \in K : t[d] > t[e] => rank(d) < rank(e)
               /\ list \in [1 .. Cardinality(K) -> K]
               /\ \A k \in 1 .. Cardinality(K) : rank(list[k]) = k - 1
               /\ \A e \in K : list[rank(e) + 1] = e
<1>. DEFINE rank(e) == Cardinality(Later(K, t, e))
            n == Cardinality(K)
            list == Ranked(K, t)
<1>. USE DEF Dates
<1>1. n \in Nat
  BY FS_CardinalityType
<1>2. \A e \in K : IsFiniteSet(Later(K, t, e)) /\ rank(e) \in Nat
  <2>. SUFFICES ASSUME NEW e \in K
                PROVE  IsFiniteSet(Later(K, t, e)) /\ rank(e) \in Nat
    OBVIOUS
  <2>1. Later(K, t, e) \in SUBSET K
    BY DEF Later
  <2>. QED
    BY <2>1, FS_Subset, FS_CardinalityType
<1>3. ASSUME NEW e \in K
      PROVE  rank(e) \in 0 .. n - 1
  <2>1. Later(K, t, e) \in SUBSET K /\ e \notin Later(K, t, e)
    BY DEF Later
  <2>2. rank(e) <= n /\ (rank(e) = n => K = Later(K, t, e))
    BY <2>1, FS_Subset
  <2>. QED
    BY <1>1, <1>2, <2>1, <2>2
<1>4. ASSUME NEW d \in K, NEW e \in K, t[d] > t[e]
      PROVE  rank(d) < rank(e)
  <2>1. Later(K, t, d) \in SUBSET Later(K, t, e)
    BY <1>4 DEF Later
  <2>2. d \in Later(K, t, e) \ Later(K, t, d)
    BY <1>4 DEF Later
  <2>3. rank(d) <= rank(e) /\ (rank(d) = rank(e) => Later(K, t, e) = Later(K, t, d))
    BY <1>2, <2>1, FS_Subset
  <2>. QED
    BY <1>2, <2>2, <2>3
<1>5. \A d, e \in K : rank(d) = rank(e) => d = e
  <2>. SUFFICES ASSUME NEW d \in K, NEW e \in K, d # e
                PROVE  rank(d) # rank(e)
    OBVIOUS
  <2>1. t[d] > t[e] \/ t[e] > t[d]
    OBVIOUS
  <2>. QED
    BY <1>2, <1>4, <2>1
<1>6. \A k \in 1 .. n : \E e \in K : rank(e) = k - 1
  <2>. DEFINE f == [e \in K |-> rank(e)]
  <2>. HIDE DEF rank
  <2>1. f \in Injection(K, 0 .. n - 1)
    BY <1>3, <1>5 DEF Injection, IsInjective
  <2>2. IsFiniteSet(0 .. n - 1) /\ Cardinality(0 .. n - 1) = n
    BY <1>1, FS_Interval
  <2>3. f \in Surjection(K, 0 .. n - 1)
    <3>. HIDE DEF f
    <3>. QED
      BY <2>1, <2>2, FS_Injection
  <2>4. \A j \in 0 .. n - 1 : \E e \in K : f[e] = j
    <3>. HIDE DEF f
    <3>. QED
      BY <2>3 DEF Surjection
  <2>5. \A k \in 1 .. n : k - 1 \in 0 .. n - 1
    BY <1>1
  <2>. QED
    BY <2>4, <2>5
<1>7. \A k \in 1 .. n : list[k] \in K /\ rank(list[k]) = k - 1
  BY <1>6 DEF Ranked
<1>8. list \in [1 .. n -> K]
  BY <1>7 DEF Ranked
<1>9. \A e \in K : list[rank(e) + 1] = e
  <2>. SUFFICES ASSUME NEW e \in K
                PROVE  list[rank(e) + 1] = e
    OBVIOUS
  <2>. HIDE DEF list, rank
  <2>1. rank(e) + 1 \in 1 .. n /\ (rank(e) + 1) - 1 = rank(e)
    BY <1>1, <1>3
  <2>. QED
    BY <1>5, <1>7, <2>1
<1>. QED
  BY <1>1, <1>3, <1>4, <1>7, <1>8, <1>9

\* One member more: it is put before those it is later than, and the others keep their order.
LEMMA OneMore ==
    ASSUME NEW K, NEW t, NEW x, NEW s, Dates(K, t), x \notin K, Dates(K \cup {x}, s),
           \A e \in K : s[e] = t[e]
    PROVE  \E k \in 1 .. Len(Ranked(K, t)) + 1 :
              Ranked(K \cup {x}, s) = Lists!With(Ranked(K, t), k, x)
<1>. DEFINE M == K \cup {x}
            n == Cardinality(K)
            old(e) == Cardinality(Later(K, t, e))
            new(e) == Cardinality(Later(M, s, e))
            k == new(x) + 1
            list == Ranked(K, t)
            more == Ranked(M, s)
<1>1. n \in Nat /\ Cardinality(M) = n + 1 /\ IsFiniteSet(K)
  BY FS_AddElement, FS_CardinalityType DEF Dates
<1>2. /\ \A e \in K : old(e) \in 0 .. n - 1 /\ list[old(e) + 1] = e
      /\ list \in [1 .. n -> K]
  BY Ranks
<1>3. /\ \A e \in M : new(e) \in 0 .. n
      /\ \A d, e \in M : s[d] > s[e] => new(d) < new(e)
      /\ more \in [1 .. n + 1 -> M]
      /\ \A j \in 1 .. n + 1 : new(more[j]) = j - 1
  <2>1. Dates(M, s)
    OBVIOUS
  <2>. HIDE DEF M
  <2>. QED
    BY <1>1, <2>1, Ranks
<1>4. ASSUME NEW e \in K
      PROVE  new(e) = IF s[x] > s[e] THEN old(e) + 1 ELSE old(e)
  <2>1. Later(M, s, e) = IF s[x] > s[e] THEN Later(K, t, e) \cup {x} ELSE Later(K, t, e)
    BY DEF Later
  <2>2. IsFiniteSet(Later(K, t, e)) /\ x \notin Later(K, t, e)
    <3>1. Later(K, t, e) \in SUBSET K
      BY DEF Later
    <3>. QED
      BY <1>1, <3>1, FS_Subset
  <2>. QED
    BY <2>1, <2>2, FS_AddElement
<1>5. Len(list) = n
  BY <1>1, <1>2
<1>6. new(x) \in 0 .. n /\ k \in 1 .. n + 1
  <2>1. x \in M
    OBVIOUS
  <2>. HIDE DEF M, new
  <2>. QED
    BY <1>1, <1>3, <2>1
<1>7. ASSUME NEW j \in 1 .. n + 1
      PROVE  more[j] = IF j < k THEN list[j] ELSE IF j = k THEN x ELSE list[j - 1]
  <2>. DEFINE e == more[j]
  <2>1. e \in M /\ new(e) = j - 1
    BY <1>3
  <2>. HIDE DEF e, old, new, list
  <2>2. CASE e = x
    <3>1. new(x) = j - 1
      BY <2>1, <2>2
    <3>2. j = k
      BY <1>1, <1>6, <3>1
    <3>. QED
      BY <2>2, <3>2 DEF e
  <2>3. CASE e \in K /\ s[x] > s[e]
    <3>1. new(x) < new(e) /\ new(e) = old(e) + 1 /\ old(e) \in 0 .. n - 1 /\ list[old(e) + 1] = e
      BY <1>2, <1>3, <1>4, <2>3
    <3>2. new(x) \in 0 .. n
      BY <1>3
    <3>3. j > k /\ old(e) + 1 = j - 1
      BY <1>1, <2>1, <3>1, <3>2
    <3>. QED
      BY <1>6, <3>1, <3>3 DEF e
  <2>4. CASE e \in K /\ ~(s[x] > s[e])
    <3>1. s[e] > s[x]
      <4>1. s[e] # s[x] /\ s[e] \in Nat /\ s[x] \in Nat
        BY <2>4 DEF Dates
      <4>. QED
        BY <2>4, <4>1
    <3>2. new(e) < new(x) /\ new(e) = old(e) /\ old(e) \in 0 .. n - 1 /\ list[old(e) + 1] = e
      BY <1>2, <1>3, <1>4, <2>4, <3>1
    <3>3. new(x) \in 0 .. n
      BY <1>3
    <3>4. j < k /\ old(e) + 1 = j
      BY <1>1, <2>1, <3>2, <3>3
    <3>. QED
      BY <1>6, <3>2, <3>4 DEF e
  <2>. QED
    BY <2>1, <2>2, <2>3, <2>4 DEF e
<1>8. more = [j \in 1 .. n + 1 |-> IF j < k THEN list[j] ELSE IF j = k THEN x ELSE list[j - 1]]
  <2>. HIDE DEF more, list, k
  <2>. QED
    BY <1>3, <1>7
<1>9. more = Lists!With(list, k, x)
  BY <1>5, <1>8 DEF Lists!With
<1>. HIDE DEF more, list, k
<1>. QED
  BY <1>5, <1>6, <1>9 DEF more, list

\* Invitations are numbered, and an admin has the number of the invitation, or one of the
\* first two: no two admins are created at one time.
KnownAdmins == {e \in Emails : admin[e] # None}
Created == [e \in KnownAdmins |-> admin[e].created_at]
Invitations == {q \in Requests : req[q] # None /\ req[q].op = "inviteAdmin"}

OrderInv ==
    /\ \A q \in Invitations : req[q].start < Cardinality(Invitations)
    /\ \A q, r \in Invitations : req[q].start = req[r].start => q = r
    /\ \A d, e \in KnownAdmins : admin[d].created_at = admin[e].created_at => d = e
    /\ \A e \in KnownAdmins :
          /\ admin[e].created_at < Cardinality(Invitations) + 2
          /\ \A r \in Invitations : InFlight(r) => admin[e].created_at # req[r].start + 2
    /\ page \in Nat \ {0}

\* What a step may do to the list: nothing, or it adds an admin, the first one or the one of
\* an invitation that is accepted.
AdminsStay ==
    \A e \in Emails : /\ admin'[e] = None <=> admin[e] = None
                      /\ admin[e] # None => admin'[e].created_at = admin[e].created_at

AdminAdded(e) ==
    /\ admin[e] = None /\ admin'[e] # None /\ \A d \in Emails \ {e} : admin'[d] = admin[d]
    /\ \/ KnownAdmins = {} /\ admin'[e].created_at = 0 /\ UNCHANGED req
       \/ \E r \in Invitations : /\ InFlight(r) /\ ~InFlight(r)'
                                 /\ admin'[e].created_at = req[r].start + 2

LEMMA AdminsMove ==
    ASSUME IInv, [Next]_vars
    PROVE  AdminsStay \/ \E e \in Emails : AdminAdded(e)
<1>1. CASE UNCHANGED admin
  BY <1>1 DEF AdminsStay
<1>2. ASSUME NEW r \in Requests,
             UNCHANGED tables \/ Refuse(r) \/ Error(r) \/ \E changes : Continue(r, changes)
      PROVE  UNCHANGED admin
  BY <1>2 DEF Refuse, Error, Continue, tables
<1>3. ASSUME NEW r \in Requests, AskAdmins(r) \/ AskRoles(r)
      PROVE  UNCHANGED admin
  <2>1. ASSUME NEW op, NEW arg, NEW begins, Begin(r, op, arg, begins)
        PROVE  UNCHANGED admin
    BY <2>1 DEF Begin, tables
  <2>. QED
    BY <1>3, <2>1 DEF AskAdmins, AskRoles, InviteAdmin, CompleteSignup, UpdateProfile, ChangePassword,
                      SignIn, CreateRole, UpdateRole, RemoveRole, CreatePermissions, RemovePermission
<1>4. ASSUME NEW r \in Requests, AdminStep(r)
      PROVE  AdminsStay \/ \E e \in Emails : AdminAdded(e)
  <2>1. CASE EndInvitation(r) /\ ~Error(r)
    <3>. DEFINE e == req[r].arg.email
                new == NewAdmin("incomplete_profile", req[r].arg.role, None, None, req[r].start + 2)
    <3>1. /\ InFlight(r) /\ req[r].op = "inviteAdmin" /\ req[r].insertion = "done"
          /\ admin' = [admin EXCEPT ![e] = new] /\ req' = Answered(r, "ok")
      BY <2>1 DEF EndInvitation, At
    <3>2. /\ e \in Emails /\ req[r].arg.role \in Roles /\ admin[e] = None
          /\ Recorded(r) /\ DOMAIN req = Requests /\ req[r] # None
      BY <3>1 DEF IInv, RequestOK, Invitation, InFlight
    <3>3. new \in AdminRecords /\ new.created_at = req[r].start + 2
      BY <3>1, <3>2 DEF NewAdmin, AdminRecords, Recorded
    <3>4. ~InFlight(r)'
      BY <3>1, <3>2, AnsweredOK DEF InFlight
    <3>. HIDE DEF e, new
    <3>5. admin'[e] = new /\ \A d \in Emails \ {e} : admin'[d] = admin[d]
      BY <3>1, <3>2 DEF IInv, TablesOK
    <3>6. new # None
      BY <3>3, RowsAssumption
    <3>. QED
      BY <3>1, <3>2, <3>3, <3>4, <3>5, <3>6 DEF AdminAdded, Invitations
  <2>2. CASE CommitAdmin(r)
    <3>. DEFINE e == req[r].arg.email
    <3>1. /\ e \in Emails /\ admin[e] # None /\ \A d \in Emails \ {e} : admin'[d] = admin[d]
          /\ admin'[e] # None /\ admin'[e].created_at = admin[e].created_at
      BY <2>2, CommittedAdmin
    <3>. HIDE DEF e
    <3>. QED
      BY <3>1 DEF AdminsStay
  <2>3. CASE InsertInvited(r)
    BY <1>1, <1>2, <2>3 DEF InsertInvited, Ends, tables
  <2>. QED
    BY <1>1, <1>2, <1>4, <2>1, <2>2, <2>3
    DEF AdminStep, FindEmail, FindRole, PublishInvitation, PublicationFails, EndInvitation, CheckAdmin,
        CheckSignIn, RereadAdmin, SelectAdmin, WriteAdmin, PublishLogin
<1>5. ASSUME NEW r \in Requests, RoleStep(r)
      PROVE  UNCHANGED admin
  BY <1>2, <1>5
  DEF RoleStep, CheckNewRole, ReadRole, ReadNames, SelectRole, WriteRole, CommitRole, CheckRemoval,
      DeleteRole, CheckNames, InsertPermissions, CommitPermissions, DeletePermission
<1>6. ASSUME NEW i \in Instances, SeederStep(i)
      PROVE  AdminsStay \/ \E e \in Emails : AdminAdded(e)
  <2>1. CASE CommitSeed(i) /\ admin[Root] = None
    <3>. DEFINE new == [status |-> "active", role |-> Super, password |-> Root, profile |-> Root,
                        attempts |-> "below", created_at |-> 0]
    <3>1. KnownAdmins = {}
      BY <2>1 DEF IInv, Seeded, KnownAdmins
    <3>2. new \in AdminRecords /\ new.created_at = 0
      BY DEF AdminRecords, Roles
    <3>. HIDE DEF new
    <3>3. admin' = [admin EXCEPT ![Root] = new] /\ UNCHANGED req
      BY <2>1 DEF CommitSeed, new
    <3>4. admin'[Root] = new /\ new # None /\ \A d \in Emails \ {Root} : admin'[d] = admin[d]
      BY <3>2, <3>3, RootAssumption, RowsAssumption DEF IInv, TablesOK
    <3>. QED
      BY <2>1, <3>1, <3>2, <3>3, <3>4, RootAssumption DEF AdminAdded
  <2>. QED
    BY <1>1, <1>6, <2>1
    DEF SeederStep, SeedPermissions, FindPermissions, SaveSeed, CommitSeed, SeedRates, Crash, Restart,
        Ends, tables
<1>7. CASE AskList \/ ReadList \/ CountList \/ Rest \/ UNCHANGED vars
  BY <1>1, <1>7 DEF AskList, ReadList, CountList, Rest, vars, Others, tables
<1>. QED
  BY <1>1, <1>3, <1>4, <1>5, <1>6, <1>7 DEF Next

LEMMA PagesCount ==
    ASSUME page \in Nat \ {0}, [Next]_vars
    PROVE  page' \in Nat \ {0}
<1>1. CASE CountList
  <2>. DEFINE next == paginateResult(Len(AdminRows), page, Limit).next_page
  <2>1. next = page + 1 \/ next = None
    BY DEF paginateResult
  <2>2. (next = None /\ page' = page) \/ (next # None /\ page' = next)
    BY <1>1 DEF CountList
  <2>. HIDE DEF next
  <2>. QED
    BY <2>1, <2>2
<1>2. CASE ~CountList
  BY <1>2 DEF Next, AskList, ReadList, Rest, vars, client
<1>. QED
  BY <1>1, <1>2

LEMMA OrderKeeps ==
    ASSUME IInv, RequestsOK, OrderInv, [Next]_vars
    PROVE  OrderInv'
<1>. DEFINE n == Cardinality(Invitations)
<1>1. n \in Nat /\ IsFiniteSet(Invitations) /\ page' \in Nat \ {0}
  <2>1. Invitations \in SUBSET Requests
    BY DEF Invitations
  <2>. QED
    BY <2>1, RequestsAssumption, FS_Subset, FS_CardinalityType, PagesCount DEF OrderInv
<1>2. \A q \in Invitations : req[q].start \in Nat
  BY DEF IInv, RequestOK, Recorded, Invitations
<1>3. \A e \in KnownAdmins : admin[e].created_at \in Nat
  BY DEF IInv, TablesOK, AdminRecords, KnownAdmins
<1>4. CASE \E r \in Requests : Started(r) /\ req'[r].op = "inviteAdmin"
  <2>1. PICK r \in Requests : Started(r) /\ req'[r].op = "inviteAdmin"
    BY <1>4
  <2>2. /\ req[r] = None /\ req'[r] # None /\ \A q \in Requests \ {r} : req'[q] = req[q]
        /\ req'[r].start = n
    BY <2>1, RowsAssumption DEF Started, OnlyOf, Invitations
  <2>3. Invitations' = Invitations \cup {r} /\ r \notin Invitations
    BY <2>1, <2>2 DEF Invitations
  <2>4. Cardinality(Invitations') = n + 1
    BY <1>1, <2>3, FS_AddElement
  <2>5. AdminsStay
    <3>1. ASSUME NEW e \in Emails, AdminAdded(e)
          PROVE  FALSE
      BY <2>2, <3>1 DEF AdminAdded, InFlight, Invitations
    <3>. QED
      BY <3>1, AdminsMove
  <2>6. /\ KnownAdmins' = KnownAdmins
        /\ \A e \in KnownAdmins : admin'[e].created_at = admin[e].created_at
    BY <2>5 DEF AdminsStay, KnownAdmins
  <2>7. \A q \in Invitations : req'[q] = req[q]
    BY <2>2, <2>3 DEF Invitations
  <2>8. \A q \in Invitations' : req'[q].start < Cardinality(Invitations')
    BY <1>1, <1>2, <2>2, <2>3, <2>4, <2>7 DEF OrderInv
  <2>9. \A p, q \in Invitations' : req'[p].start = req'[q].start => p = q
    BY <1>1, <1>2, <2>2, <2>3, <2>7 DEF OrderInv
  <2>10. \A d, e \in KnownAdmins' : admin'[d].created_at = admin'[e].created_at => d = e
    BY <2>6 DEF OrderInv
  <2>11. ASSUME NEW e \in KnownAdmins'
         PROVE  /\ admin'[e].created_at < Cardinality(Invitations') + 2
                /\ \A q \in Invitations' : InFlight(q)' => admin'[e].created_at # req'[q].start + 2
    <3>1. e \in KnownAdmins /\ admin'[e].created_at = admin[e].created_at
      BY <2>6
    <3>2. admin[e].created_at \in Nat /\ admin[e].created_at < n + 2
      BY <1>3, <3>1 DEF OrderInv
    <3>3. ASSUME NEW q \in Invitations, InFlight(q)'
          PROVE  admin[e].created_at # req'[q].start + 2
      BY <2>7, <3>1, <3>3 DEF OrderInv, InFlight
    <3>. QED
      BY <1>1, <2>2, <2>3, <2>4, <3>1, <3>2, <3>3
  <2>. QED
    BY <1>1, <2>8, <2>9, <2>10, <2>11 DEF OrderInv
<1>5. CASE ~\E r \in Requests : Started(r) /\ req'[r].op = "inviteAdmin"
  <2>1. ASSUME NEW q \in Requests
        PROVE  /\ q \in Invitations' <=> q \in Invitations
               /\ q \in Invitations => /\ req'[q].start = req[q].start
                                       /\ InFlight(q)' => InFlight(q)
    <3>1. CASE req'[q] = req[q]
      BY <3>1 DEF Invitations, InFlight
    <3>2. CASE Started(q)
      BY <1>5, <3>2 DEF Started, Invitations
    <3>3. CASE Proceeds(q)
      <4>1. /\ InFlight(q) /\ req[q] # None /\ req'[q] # None
            /\ req'[q].op = req[q].op /\ req'[q].start = req[q].start
        BY <3>3, RowsAssumption DEF Proceeds, SameRequest, InFlight
      <4>. QED
        BY <4>1 DEF Invitations
    <3>. QED
      BY <3>1, <3>2, <3>3, Moves
  <2>2. /\ Invitations' = Invitations
        /\ \A q \in Invitations : req'[q].start = req[q].start /\ (InFlight(q)' => InFlight(q))
    <3>1. Invitations \subseteq Requests /\ Invitations' \subseteq Requests
      BY DEF Invitations
    <3>. QED
      BY <2>1, <3>1
  <2>3. CASE AdminsStay
    <3>1. /\ KnownAdmins' = KnownAdmins
          /\ \A e \in KnownAdmins : admin'[e].created_at = admin[e].created_at
      BY <2>3 DEF AdminsStay, KnownAdmins
    <3>. QED
      BY <1>1, <2>2, <3>1 DEF OrderInv
  <2>4. ASSUME NEW e \in Emails, AdminAdded(e)
        PROVE  OrderInv'
    <3>1. /\ KnownAdmins' = KnownAdmins \cup {e} /\ e \notin KnownAdmins
          /\ \A d \in KnownAdmins : admin'[d] = admin[d]
      BY <2>4 DEF AdminAdded, KnownAdmins
    <3>2. CASE KnownAdmins = {} /\ admin'[e].created_at = 0
      BY <1>1, <1>2, <2>2, <3>1, <3>2 DEF OrderInv
    <3>3. ASSUME NEW r \in Invitations, InFlight(r), ~InFlight(r)', admin'[e].created_at = req[r].start + 2
          PROVE  OrderInv'
      <4>1. \A q \in Invitations' : InFlight(q)' => q # r /\ admin'[e].created_at # req'[q].start + 2
        BY <1>2, <2>2, <3>3 DEF OrderInv
      <4>2. admin'[e].created_at < Cardinality(Invitations') + 2
        BY <1>1, <1>2, <2>2, <3>3 DEF OrderInv
      <4>3. \A d \in KnownAdmins : admin'[d].created_at # admin'[e].created_at
        BY <3>1, <3>3 DEF OrderInv
      <4>4. \A d, c \in KnownAdmins' : admin'[d].created_at = admin'[c].created_at => d = c
        BY <3>1, <4>3 DEF OrderInv
      <4>5. \A d \in KnownAdmins' :
               /\ admin'[d].created_at < Cardinality(Invitations') + 2
               /\ \A q \in Invitations' : InFlight(q)' => admin'[d].created_at # req'[q].start + 2
        BY <2>2, <3>1, <4>1, <4>2 DEF OrderInv
      <4>. QED
        BY <1>1, <2>2, <4>4, <4>5 DEF OrderInv
    <3>. QED
      BY <2>4, <3>2, <3>3 DEF AdminAdded
  <2>. QED
    BY <2>3, <2>4, AdminsMove
<1>. QED
  BY <1>4, <1>5

LEMMA OrderInitially == Init => OrderInv
<1>. SUFFICES ASSUME Init
              PROVE  OrderInv
  OBVIOUS
<1>1. Invitations = {} /\ Cardinality(Invitations) = 0 /\ page = 1
  BY FS_EmptySet DEF Init, Invitations
<1>2. CASE Fresh
  BY <1>1, <1>2 DEF Fresh, OrderInv, KnownAdmins
<1>3. CASE InUseAlready
  <2>. DEFINE invited == NewAdmin("incomplete_profile", Super, None, None, 1)
              root == Over([attempts |-> "allowed"], NewAdmin("active", Super, Root, Root, 0))
  <2>1. invited.created_at = 1 /\ root.created_at = 0
    BY RootInUse DEF NewAdmin
  <2>. HIDE DEF invited, root
  <2>2. admin = [e \in Emails |-> CASE e = Root -> root [] e = Invited -> invited [] OTHER -> None]
    BY <1>3 DEF InUseAlready, invited, root
  <2>3. \A e \in KnownAdmins : \/ e = Root /\ admin[e].created_at = 0
                               \/ e = Invited /\ admin[e].created_at = 1
    BY <2>1, <2>2, RootAssumption DEF KnownAdmins
  <2>. QED
    BY <1>1, <2>3 DEF OrderInv
<1>. QED
  BY <1>2, <1>3 DEF Init

\* ORDER BY created_at DESC: the rows of the list are the admins by their times.
LEMMA RowsAreRanked ==
    ASSUME IInv, OrderInv
    PROVE  Dates(KnownAdmins, Created) /\ AdminRows = Ranked(KnownAdmins, Created)
<1>. DEFINE n == Cardinality(KnownAdmins)
            rank(e) == Cardinality(Later(KnownAdmins, Created, e))
            list == Ranked(KnownAdmins, Created)
            newer(e) == {d \in KnownAdmins : admin[d].created_at > admin[e].created_at}
            row(k) == CHOOSE e \in KnownAdmins : Cardinality(newer(e)) = k - 1
<1>1. IsFiniteSet(KnownAdmins)
  <2>1. KnownAdmins \in SUBSET Emails
    BY DEF KnownAdmins
  <2>. QED
    BY <2>1, RootAssumption, FS_Subset
<1>2. \A e \in KnownAdmins : admin[e].created_at \in Nat /\ Created[e] = admin[e].created_at
  BY DEF IInv, TablesOK, AdminRecords, KnownAdmins, Created
<1>3. Created \in [KnownAdmins -> Nat]
  BY <1>2 DEF Created
<1>4. Dates(KnownAdmins, Created)
  BY <1>1, <1>2, <1>3 DEF Dates, OrderInv
<1>5. \A e \in KnownAdmins : newer(e) = Later(KnownAdmins, Created, e)
  BY <1>2 DEF Later
<1>6. /\ n \in Nat
      /\ list \in [1 .. n -> KnownAdmins]
      /\ \A k \in 1 .. n : rank(list[k]) = k - 1
      /\ \A e \in KnownAdmins : list[rank(e) + 1] = e
  BY <1>4, Ranks
<1>7. ASSUME NEW k \in 1 .. n
      PROVE  row(k) = list[k]
  <2>. HIDE DEF list, rank
  <2>1. list[k] \in KnownAdmins /\ rank(list[k]) = k - 1
    BY <1>6
  <2>2. Cardinality(newer(list[k])) = k - 1
    BY <1>5, <2>1 DEF rank
  <2>3. row(k) \in KnownAdmins /\ Cardinality(newer(row(k))) = k - 1
    <3>. HIDE DEF newer
    <3>. QED
      BY <2>1, <2>2
  <2>. HIDE DEF row, newer
  <2>4. rank(row(k)) = k - 1
    BY <1>5, <2>3 DEF rank
  <2>5. (k - 1) + 1 = k
    BY <1>6
  <2>. QED
    BY <1>6, <2>3, <2>4, <2>5
<1>8. AdminRows = [k \in 1 .. n |-> row(k)]
  BY DEF AdminRows, KnownAdmins
<1>9. AdminRows = list
  <2>. HIDE DEF row, list
  <2>. QED
    BY <1>6, <1>7, <1>8
<1>. QED
  BY <1>4, <1>9

LEMMA RowsStayRanked ==
    (IInv /\ OrderInv)' => (Dates(KnownAdmins, Created) /\ AdminRows = Ranked(KnownAdmins, Created))'
<1>1. IInv /\ OrderInv => Dates(KnownAdmins, Created) /\ AdminRows = Ranked(KnownAdmins, Created)
  BY RowsAreRanked
<1>. QED
  BY <1>1, PTL

\* It is a list of addresses without repetitions, and holds those of all admins.
LEMMA RowsAreAList ==
    ASSUME IInv, OrderInv
    PROVE  /\ AdminRows \in Seq(Emails) /\ Len(AdminRows) = Cardinality(KnownAdmins)
           /\ Lists!Distinct(AdminRows)
           /\ Lists!Elements(AdminRows) = KnownAdmins /\ ToSet(AdminRows) = KnownAdmins
<1>. DEFINE n == Cardinality(KnownAdmins)
            rank(e) == Cardinality(Later(KnownAdmins, Created, e))
<1>1. /\ n \in Nat
      /\ \A e \in KnownAdmins : rank(e) \in 0 .. n - 1 /\ AdminRows[rank(e) + 1] = e
      /\ AdminRows \in [1 .. n -> KnownAdmins]
      /\ \A k \in 1 .. n : rank(AdminRows[k]) = k - 1
  BY RowsAreRanked, Ranks
<1>. HIDE DEF rank
<1>2. KnownAdmins \subseteq Emails
  BY DEF KnownAdmins
<1>3. AdminRows \in [1 .. n -> Emails]
  BY <1>1, <1>2
<1>4. AdminRows \in Seq(Emails) /\ Len(AdminRows) = n
  BY <1>1, <1>3
<1>5. Lists!Distinct(AdminRows)
  BY <1>1, <1>4 DEF Lists!Distinct
<1>6. \A e \in KnownAdmins : \E k \in 1 .. n : AdminRows[k] = e
  <2>1. \A e \in KnownAdmins : rank(e) + 1 \in 1 .. n
    BY <1>1
  <2>. QED
    BY <1>1, <2>1
<1>7. Lists!Elements(AdminRows) = KnownAdmins /\ ToSet(AdminRows) = KnownAdmins
  BY <1>1, <1>4, <1>6 DEF Lists!Elements, ToSet
<1>. QED
  BY <1>4, <1>5, <1>7

\* A step of the administration leaves the list alone or inserts one row.
LEMMA ListGrows ==
    ASSUME IInv, IInv', OrderInv, OrderInv', [Next]_vars, UNCHANGED client
    PROVE  [Lists!Next]_Lists!vars
<1>1. /\ Dates(KnownAdmins, Created) /\ AdminRows = Ranked(KnownAdmins, Created)
      /\ Dates(KnownAdmins', Created') /\ AdminRows' = Ranked(KnownAdmins', Created')
  <2>1. Dates(KnownAdmins', Created') /\ AdminRows' = Ranked(KnownAdmins', Created')
    BY RowsStayRanked DEF Dates, Ranked, Later
  <2>. QED
    BY <2>1, RowsAreRanked
<1>2. CASE AdminsStay
  <2>1. KnownAdmins' = KnownAdmins
    BY <1>2 DEF AdminsStay, KnownAdmins
  <2>2. Created' = Created
    BY <1>2, <2>1 DEF AdminsStay, Created, KnownAdmins
  <2>. QED
    BY <1>1, <2>1, <2>2 DEF Lists!vars, Lists!client, client
<1>3. ASSUME NEW e \in Emails, AdminAdded(e)
      PROVE  Lists!Next
  <2>1. /\ KnownAdmins' = KnownAdmins \cup {e} /\ e \notin KnownAdmins
        /\ \A d \in KnownAdmins : admin'[d] = admin[d]
    BY <1>3 DEF AdminAdded, KnownAdmins
  <2>2. \A d \in KnownAdmins : Created'[d] = Created[d]
    BY <2>1 DEF Created
  <2>3. PICK k : /\ k \in 1 .. Len(AdminRows) + 1
                 /\ AdminRows' = Lists!With(AdminRows, k, e)
    <3>1. \A K, t, x, s :
             /\ Dates(K, t) /\ x \notin K /\ Dates(K \cup {x}, s)
             /\ \A d \in K : s[d] = t[d]
             => \E k \in 1 .. Len(Ranked(K, t)) + 1 :
                   Ranked(K \cup {x}, s) = Lists!With(Ranked(K, t), k, x)
      BY OneMore
    <3>2. /\ Dates(KnownAdmins, Created) /\ e \notin KnownAdmins
          /\ Dates(KnownAdmins \cup {e}, Created')
          /\ \A d \in KnownAdmins : Created'[d] = Created[d]
      BY <1>1, <2>1, <2>2
    <3>3. AdminRows = Ranked(KnownAdmins, Created) /\ AdminRows' = Ranked(KnownAdmins \cup {e}, Created')
      BY <1>1, <2>1
    <3>. QED
      BY <3>1, <3>2, <3>3
  <2>4. e \notin Lists!Present
    BY <2>1, RowsAreAList DEF Lists!Present
  <2>5. UNCHANGED Lists!client
    BY DEF client, Lists!client
  <2>6. Lists!Insert(e, k)
    BY <2>3, <2>4, <2>5 DEF Lists!Insert
  <2>. QED
    BY <2>3, <2>6 DEF Lists!Next
<1>. QED
  BY <1>2, <1>3, AdminsMove

\* skip and take of the SQL select what a page of a list is.
LEMMA PageOfAdmins ==
    ASSUME IInv, OrderInv
    PROVE  GetAdmins(page) = Lists!Page(AdminRows, page)
<1>. DEFINE low == (page - 1) * Limit
            high == page * Limit
            n == Len(AdminRows)
            last == IF high < n THEN high ELSE n
            sub == SubSeq(AdminRows, low + 1, last)
<1>1. AdminRows \in Seq(Emails) /\ n \in Nat
  BY RowsAreAList
<1>2. low \in Nat /\ high \in Nat
  <2>1. Limit \in Nat /\ page \in Nat /\ page - 1 \in Nat
    BY LimitAssumption DEF OrderInv
  <2>2. \A i, j \in Nat : i * j \in Nat
    OBVIOUS
  <2>. QED
    BY <2>1, <2>2
<1>3. GetAdmins(page) = ToSet(sub)
  BY DEF GetAdmins
<1>4. Lists!Page(AdminRows, page) = {AdminRows[k] : k \in {k \in 1 .. n : low < k /\ k <= high}}
  BY DEF Lists!Page
<1>. HIDE DEF low, high, n
<1>5. last \in Nat /\ last <= n
  BY <1>1, <1>2
<1>6. ToSet(sub) = {AdminRows[k] : k \in low + 1 .. last}
  <2>. HIDE DEF last
  <2>. DEFINE m == IF low + 1 <= last THEN last - (low + 1) + 1 ELSE 0
  <2>1. /\ m \in Nat /\ \A i \in 1 .. m : low + i \in low + 1 .. last
        /\ \A k \in low + 1 .. last : k - low \in 1 .. m /\ low + (k - low) = k
    BY <1>2, <1>5
  <2>2. DOMAIN sub = 1 .. m /\ \A i \in 1 .. m : sub[i] = AdminRows[low + i]
    BY <1>1, <1>2, <1>5 DEF n
  <2>. HIDE DEF sub, m
  <2>. QED
    BY <2>1, <2>2 DEF ToSet
<1>7. low + 1 .. last = {k \in 1 .. n : low < k /\ k <= high}
  BY <1>1, <1>2
<1>. QED
  BY <1>3, <1>4, <1>6, <1>7

\* The client does with the list what a client of Listing does.
LEMMA ClientLists ==
    ASSUME IInv, OrderInv, AskList \/ ReadList \/ CountList
    PROVE  Lists!Ask \/ Lists!ReadRows \/ Lists!CountRows
<1>1. AdminRows' = AdminRows
  <2>1. admin' = admin
    BY DEF AskList, ReadList, CountList, Others, tables
  <2>. QED
    BY <2>1 DEF AdminRows
<1>2. CASE AskList
  <2>1. ToSet(AdminRows) = Lists!Present
    BY RowsAreAList DEF Lists!Present
  <2>. QED
    BY <1>1, <1>2, <2>1 DEF AskList, Lists!Ask
<1>3. CASE ReadList
  BY <1>1, <1>3, PageOfAdmins DEF ReadList, Lists!ReadRows
<1>4. CASE CountList
  <2>1. \A n, p : Lists!paginateResult(n, p, Limit).next_page = paginateResult(n, p, Limit).next_page
    BY DEF Lists!paginateResult, paginateResult
  <2>. QED
    BY <1>1, <1>4, <2>1 DEF CountList, Lists!CountRows
<1>. QED
  BY <1>2, <1>3, <1>4

LEMMA ListInitially ==
    ASSUME Init, IInv, OrderInv
    PROVE  Lists!Init
BY RowsAreAList DEF Init, Lists!Init

LEMMA ListMoves ==
    ASSUME IInv, IInv', OrderInv, OrderInv', [Next]_vars
    PROVE  [Lists!Next]_Lists!vars
<1>1. CASE AskList \/ ReadList \/ CountList
  BY <1>1, ClientLists DEF Lists!Next
<1>2. CASE ~(AskList \/ ReadList \/ CountList)
  <2>1. UNCHANGED client
    BY <1>2 DEF Next, Rest, vars
  <2>. QED
    BY <2>1, ListGrows
<1>. QED
  BY <1>1, <1>2

\* getAdmins implements Listing: whatever the administration does between the queries of a
\* client, the rows it selects from stay in their order, only new ones come between them,
\* and each answer is a page of them.
THEOREM ImplementsList == Spec => ImplementsListing
<1>1. FullInv /\ FullInv' /\ OrderInv /\ OrderInv' /\ [Next]_vars => [Lists!Next]_Lists!vars
  BY ListMoves DEF FullInv
<1>2. FullInv /\ OrderInv /\ [Next]_vars => OrderInv'
  BY OrderKeeps DEF FullInv
<1>3. Init => OrderInv /\ Lists!Init
  BY OrderInitially, InitOK, ListInitially
<1>. QED
  BY FullInvariance, <1>1, <1>2, <1>3, PTL DEF Spec, ImplementsListing, Lists!Spec

Shown == INSTANCE ListingProofs WITH Rows <- Emails, Tied <- {}, rows <- AdminRows

\* So a client that follows next_page of getAdmins to the end has got every admin there was
\* when it began, for any limit and whoever is invited, seeded or changed meanwhile.
THEOREM EveryAdminShown == Spec => [](pc = "done" => first \subseteq seen)
<1>1. Lists!Init => Shown!Init
  BY DEF Lists!Init, Shown!Init, Lists!Distinct, Shown!Distinct
<1>2. [Lists!Next]_Lists!vars => [Shown!Next]_Shown!vars
  BY DEF Lists!Next, Shown!Next, Lists!vars, Shown!vars, Lists!client, Shown!client,
         Lists!Insert, Shown!Insert, Lists!With, Shown!With, Lists!Reorder, Shown!Reorder,
         Lists!Ask, Shown!Ask, Lists!Present, Shown!Present, Lists!Elements, Shown!Elements,
         Lists!ReadRows, Shown!ReadRows, Lists!Page, Shown!Page, Lists!CountRows, Shown!CountRows,
         Lists!paginateResult, Shown!paginateResult, Lists!Ceiling, Shown!Ceiling
<1>3. Shown!Spec => []Shown!EveryRowSeen
  BY Shown!ListingComplete, LimitAssumption, NoneAssumption
<1>4. Shown!EveryRowSeen => (pc = "done" => first \subseteq seen)
  BY DEF Shown!EveryRowSeen
<1>. QED
  BY ImplementsList, <1>1, <1>2, <1>3, <1>4, PTL DEF ImplementsListing, Lists!Spec, Shown!Spec

=============================================================================
