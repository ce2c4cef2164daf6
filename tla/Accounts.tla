-------------------------------- MODULE Accounts --------------------------------
(***************************************************************************)
(* User accounts: sign-up, sign-in with its counter of failures, the       *)
(* confirmation code, and what a signed-in user does to the account        *)
(* (auth.service.ts, users.service.ts, the check of jwt.strategy.ts).      *)
(*                                                                         *)
(* Every update reads the user through the repository, on a connection of  *)
(* its own, merges what it changes and gives the whole entity to save().   *)
(* save() reads the row again and writes each column in which the entity   *)
(* differs: also one that somebody else has changed in between.            *)
(*                                                                         *)
(* Requests are served once, in the order of their numbers.                *)
(***************************************************************************)
EXTENDS Integers, FiniteSets

CONSTANTS
    Requests,    \* 1 .. n
    MaxPerUser,  \* bound: requests of a user at the same time
    PoolSize,    \* connections of an instance: 10, the default of pg
    Users,       \* e-mail addresses
    Codes,       \* confirmation codes
    Passwords,   \* hashes
    Profiles,    \* what a profile update changes
    Allowed,     \* ALLOWED_LOGIN_ATTEMPTS
    None

ASSUME RequestsAssumption ==
    Requests \subseteq Nat /\ IsFiniteSet(Requests) /\ MaxPerUser \in Nat \ {0}
ASSUME AllowedAssumption == Allowed \in Nat

\* Transactions that ask for a second connection leave one for each other.
ASSUME PoolAssumption == PoolSize > Cardinality(Requests)

VARIABLES
    users,     \* the users table: a row for each address, or None
    wallets,   \* users that have the NGN wallet of the sign-up
    mails,     \* codes mailed, with the user
    pc,        \* where each request is
    op,        \* what it does
    user,      \* the user whose row it works on, None until it is known
    change,    \* the payload of update(), the code of a verification before
    entity,    \* what it has in memory for save()
    write,     \* what its INSERT or UPDATE writes
    failures   \* history: wrong passwords for each user

table == <<users, wallets>>
local == <<op, user, change, entity, write>>
vars  == <<table, mails, pc, local, failures>>

Columns  == {"status", "verified", "attempts", "code", "password", "profile"}
Statuses == {"inactive", "active", "locked", "deleted"}
Fresh    == [status : {"inactive"}, verified : {FALSE}, attempts : {0},
             code : Codes, password : Passwords, profile : Profiles]
Rows     == [status : Statuses, verified : BOOLEAN, attempts : 0 .. Allowed,
             code : Codes, password : Passwords, profile : Profiles]
Nothing  == [c \in {} |-> None]

ASSUME NoneAssumption == None \notin Rows \cup Users

\* manager.merge, and an UPDATE.
Merge(row, values) ==
    [c \in Columns |-> IF c \in DOMAIN values THEN values[c] ELSE row[c]]

\* The columns save() writes: those in which the entity differs from the row.
Differences(new, row) == [c \in {d \in Columns : new[d] # row[d]} |-> new[c]]

\* The account is neither locked, deleted nor deactivated.
Usable(row) ==
    /\ row.status \notin {"locked", "deleted"}
    /\ ~(row.status = "inactive" /\ row.verified)

Init ==
    /\ users \in [Users -> Fresh \cup {None}]
    /\ \A u, v \in Users :
          users[u] # None /\ users[v] # None /\ users[u].code = users[v].code => u = v
    /\ wallets = {u \in Users : users[u] # None}
    /\ mails = {<<u, users[u].code>> : u \in wallets}
    /\ pc = [r \in Requests |-> "idle"]
    /\ op = [r \in Requests |-> None]
    /\ user = [r \in Requests |-> None]
    /\ change = [r \in Requests |-> Nothing]
    /\ entity = [r \in Requests |-> Nothing]
    /\ write = [r \in Requests |-> Nothing]
    /\ failures = [u \in Users |-> 0]

-----------------------------------------------------------------------------
(* Connections, and the start and end of a request. *)

Active(r) == pc[r] \notin {"idle", "done"}

\* updateWithoutTxn saves in a transaction of its own, on a second connection.
Nested(r) == op[r] = "failure"

FreeConnection ==
    Cardinality({r \in Requests : Active(r)})
        + Cardinality({r \in Requests : Nested(r) /\ pc[r] \in {"update", "commit"}}) < PoolSize

\* One more request may work on the row of u (a code may be anybody's).
Calm(u) == Cardinality({r \in Requests : Active(r) /\ user[r] \in {u, None}}) < MaxPerUser

Begin(r, what, u, values) ==
    /\ pc[r] = "idle"
    /\ \A o \in Requests : o < r => pc[o] # "idle"
    /\ FreeConnection
    /\ op' = [op EXCEPT ![r] = what]
    /\ user' = [user EXCEPT ![r] = u]
    /\ change' = [change EXCEPT ![r] = values]
    /\ pc' = [pc EXCEPT ![r] =
                 IF what \in {"profile", "password", "delete"} THEN "reread" ELSE "read"]
    /\ UNCHANGED <<table, mails, entity, write, failures>>

\* COMMIT or ROLLBACK, and the answer.
Leave(r) ==
    /\ pc' = [pc EXCEPT ![r] = "done"]
    /\ op' = [op EXCEPT ![r] = None]
    /\ user' = [user EXCEPT ![r] = None]
    /\ change' = [change EXCEPT ![r] = Nothing]
    /\ entity' = [entity EXCEPT ![r] = Nothing]
    /\ write' = [write EXCEPT ![r] = Nothing]

\* The public endpoints.
SignUp(r) == \E u \in Users : Calm(u) /\ Begin(r, "signUp", u, Nothing)
SignIn(r) == \E u \in Users : Calm(u) /\ Begin(r, "signIn", u, Nothing)
ResendOtp(r) == \E u \in Users : Calm(u) /\ Begin(r, "resend", u, Nothing)

\* Somebody has got a mail, maybe an old one.
VerifyEmail(r) ==
    /\ \A u \in Users : Calm(u)
    /\ \E m \in mails : Begin(r, "verify", None, [code |-> m[2]])

\* The endpoints of signed-in users.  Their own findOneBy only tells that there is
\* such a user, which the strategy has seen already; changePassword also compares
\* the current password, and changes nothing when that is wrong.
Authorized(u) == users[u] # None /\ Usable(users[u])

UpdateProfile(r) ==
    \E u \in Users, p \in Profiles :
        Calm(u) /\ Authorized(u) /\ Begin(r, "profile", u, [profile |-> p])

ChangePassword(r) ==
    \E u \in Users, w \in Passwords :
        Calm(u) /\ Authorized(u) /\ Begin(r, "password", u, [password |-> w])

DeleteAccount(r) ==
    \E u \in Users :
        Calm(u) /\ Authorized(u) /\ Begin(r, "delete", u, [status |-> "deleted"])

-----------------------------------------------------------------------------
(* The first findOne of the public endpoints, and what follows from it. *)

\* The request goes on with update(), or with the INSERT.
Proceed(r, what, u, values) ==
    /\ pc' = [pc EXCEPT ![r] = "reread"]
    /\ op' = [op EXCEPT ![r] = what]
    /\ user' = [user EXCEPT ![r] = u]
    /\ change' = [change EXCEPT ![r] = values]
    /\ UNCHANGED <<table, mails, entity, write>>

Reads(r, what) == pc[r] = "read" /\ op[r] = what /\ FreeConnection

Known(r) == user[r] # None /\ users[user[r]] # None

\* generateOtp looks whether a code is taken, and returns it all the same: the code
\* it tries next is dropped.
NewUser(r) ==
    /\ Reads(r, "signUp")
    /\ ~Known(r)
    /\ \E row \in Fresh : write' = [write EXCEPT ![r] = row]
    /\ pc' = [pc EXCEPT ![r] = "insert"]
    /\ UNCHANGED <<table, mails, op, user, change, entity, failures>>

\* Mutant: the check of the limit is left out.
WrongPasswordUnlimited(r) ==
    /\ Reads(r, "signIn")
    /\ Known(r)
    /\ users[user[r]].status # "locked"
    /\ Proceed(r, "failure", user[r], [attempts |-> users[user[r]].attempts + 1])
    /\ failures' = [failures EXCEPT ![user[r]] = IF @ <= Allowed THEN @ + 1 ELSE @]

\* Mutant: the account is locked one attempt early.
WrongPasswordTooSoon(r) ==
    /\ Reads(r, "signIn")
    /\ Known(r)
    /\ users[user[r]].status # "locked"
    /\ LET row == users[user[r]] IN
       Proceed(r, "failure", user[r],
               IF row.attempts + 1 >= Allowed THEN [status |-> "locked"]
               ELSE [attempts |-> row.attempts + 1])
    /\ failures' = [failures EXCEPT ![user[r]] = IF @ <= Allowed THEN @ + 1 ELSE @]

\* A locked account is refused before the password is looked at, any other after.
WrongPassword(r) ==
    /\ Reads(r, "signIn")
    /\ Known(r)
    /\ users[user[r]].status # "locked"
    /\ LET row == users[user[r]] IN
       Proceed(r, "failure", user[r],
               IF row.attempts >= Allowed THEN [status |-> "locked"]
               ELSE [attempts |-> row.attempts + 1])
    /\ failures' = [failures EXCEPT ![user[r]] = IF @ <= Allowed THEN @ + 1 ELSE @]

\* Mutant: a sign-in activates the account, verified or not.
RightPasswordActivates(r) ==
    /\ Reads(r, "signIn")
    /\ Known(r)
    /\ Usable(users[user[r]])
    /\ Proceed(r, "signIn", user[r], [status |-> "active"])
    /\ UNCHANGED failures

RightPassword(r) ==
    /\ Reads(r, "signIn")
    /\ Known(r)
    /\ Usable(users[user[r]])
    /\ Proceed(r, "signIn", user[r], [attempts |-> 0])
    /\ UNCHANGED failures

NewCode(r) ==
    /\ Reads(r, "resend")
    /\ Known(r)
    /\ ~users[user[r]].verified
    /\ \E c \in Codes : Proceed(r, "resend", user[r], [code |-> c])
    /\ UNCHANGED failures

\* Mutant: an address is verified as often as somebody has its code.
CodeFoundAgain(r) ==
    /\ Reads(r, "verify")
    /\ \E u \in Users :
          /\ users[u] # None
          /\ users[u].code = change[r].code
          /\ Proceed(r, "verify", u, [verified |-> TRUE, status |-> "active", attempts |-> 0])
    /\ UNCHANGED failures

\* Neither the expiry of the code nor the status of the account is looked at.
CodeFound(r) ==
    /\ Reads(r, "verify")
    /\ \E u \in Users :
          /\ users[u] # None
          /\ users[u].code = change[r].code
          /\ ~users[u].verified
          /\ Proceed(r, "verify", u, [verified |-> TRUE, status |-> "active", attempts |-> 0])
    /\ UNCHANGED failures

\* The request is thrown out on what it has read.
Refuse(r) ==
    /\ pc[r] = "read"
    /\ FreeConnection
    /\ CASE op[r] = "signUp" -> Known(r)
         [] op[r] = "signIn" -> Known(r) => ~Usable(users[user[r]])
         [] op[r] = "resend" -> Known(r) => users[user[r]].verified
         [] op[r] = "verify" ->
               ~ \E u \in Users : users[u] # None /\ users[u].code = change[r].code
                                  /\ ~users[u].verified
    /\ Leave(r)
    /\ UNCHANGED <<table, mails, failures>>

-----------------------------------------------------------------------------
(* update() and updateWithoutTxn(): findOne, merge, save. *)

Reread(r) ==
    /\ pc[r] = "reread"
    /\ FreeConnection
    /\ entity' = [entity EXCEPT ![r] = Merge(users[user[r]], change[r])]
    /\ pc' = [pc EXCEPT ![r] = "select"]
    /\ UNCHANGED <<table, mails, op, user, change, write, failures>>

\* These change a column that is not modelled here as well: login_times, the
\* expiry of the code, the salt of the hash.
AlwaysWrites == {"signIn", "verify", "resend", "password"}

\* Messages are published inside the transaction.
AfterWrite(r) ==
    IF op[r] \in {"signUp", "signIn", "verify", "resend", "password"} THEN "publish" ELSE "commit"

\* The SELECT of save().
Select(r) ==
    /\ pc[r] = "select"
    /\ Nested(r) => FreeConnection
    /\ LET columns == Differences(entity[r], users[user[r]]) IN
          /\ write' = [write EXCEPT ![r] = columns]
          /\ pc' = [pc EXCEPT ![r] =
                IF columns = Nothing /\ op[r] \notin AlwaysWrites THEN AfterWrite(r) ELSE "update"]
    /\ entity' = [entity EXCEPT ![r] = Nothing]
    /\ UNCHANGED <<table, mails, op, user, change, failures>>

\* o has written, and holds its row and its code until it commits.
HasWritten(o) ==
    /\ pc[o] \in {"publish", "commit"}
    /\ write[o] # Nothing \/ op[o] \in AlwaysWrites

SameCode(r, row) ==
    "code" \in DOMAIN write[r] /\ "code" \in DOMAIN row /\ write[r].code = row.code

\* Mutant: the sign-in has locked the row that updateWithoutTxn is to update.
WaitsForItself(r) ==
    Nested(r) \/ \E o \in Requests \ {r} :
        HasWritten(o) /\ (user[o] = user[r] \/ SameCode(r, write[o]))

\* Somebody else's uncommitted row, or value of the unique code, is in the way.
Waits(r) ==
    \E o \in Requests \ {r} :
        HasWritten(o) /\ (user[o] = user[r] \/ SameCode(r, write[o]))

\* The address is registered, or the code is another user's.
Duplicate(r) ==
    \/ op[r] = "signUp" /\ Known(r)
    \/ \E u \in Users \ {user[r]} : users[u] # None /\ SameCode(r, users[u])

Update(r) ==
    /\ pc[r] = "update"
    /\ ~Waits(r)
    /\ ~Duplicate(r)
    /\ pc' = [pc EXCEPT ![r] = AfterWrite(r)]
    /\ UNCHANGED <<table, mails, local, failures>>

\* Mutant: the wallet is saved outside the transaction.
InsertAndOpenWallet(r) ==
    /\ pc[r] = "insert"
    /\ ~Waits(r)
    /\ ~Duplicate(r)
    /\ wallets' = wallets \cup {user[r]}
    /\ pc' = [pc EXCEPT ![r] = AfterWrite(r)]
    /\ UNCHANGED <<users, mails, local, failures>>

\* UsersService.create: the user and the wallet.
Insert(r) ==
    /\ pc[r] = "insert"
    /\ ~Waits(r)
    /\ ~Duplicate(r)
    /\ pc' = [pc EXCEPT ![r] = AfterWrite(r)]
    /\ UNCHANGED <<table, mails, local, failures>>

\* A unique constraint is violated.
DuplicateKey(r) ==
    /\ pc[r] \in {"insert", "update"}
    /\ ~Waits(r)
    /\ Duplicate(r)
    /\ Leave(r)
    /\ UNCHANGED <<table, mails, failures>>

-----------------------------------------------------------------------------
(* The end. *)

\* Mutant: only the sign-up mails a code.
PublishWelcome(r) ==
    /\ pc[r] = "publish"
    /\ pc' = [pc EXCEPT ![r] = "commit"]
    /\ mails' = IF op[r] = "signUp" THEN mails \cup {<<user[r], write[r].code>>} ELSE mails
    /\ UNCHANGED <<table, local, failures>>

\* A mail for a new code, an activity for anything else.
Publish(r) ==
    /\ pc[r] = "publish"
    /\ pc' = [pc EXCEPT ![r] = "commit"]
    /\ mails' = CASE op[r] = "signUp" -> mails \cup {<<user[r], write[r].code>>}
                  [] op[r] = "resend" -> mails \cup {<<user[r], change[r].code>>}
                  [] OTHER -> mails
    /\ UNCHANGED <<table, local, failures>>

Commit(r) ==
    /\ pc[r] = "commit"
    /\ IF op[r] = "signUp"
       THEN /\ users' = [users EXCEPT ![user[r]] = write[r]]
            /\ wallets' = wallets \cup {user[r]}
       ELSE /\ users' = [users EXCEPT ![user[r]] = Merge(@, write[r])]
            /\ UNCHANGED wallets
    /\ Leave(r)
    /\ UNCHANGED <<mails, failures>>

\* A statement or the publication fails, or the process dies: nothing is written,
\* what was published stays published.
Fails(r) ==
    /\ Active(r)
    /\ Leave(r)
    /\ UNCHANGED <<table, mails, failures>>

-----------------------------------------------------------------------------

Submit(r) ==
    \/ SignUp(r) \/ SignIn(r) \/ ResendOtp(r) \/ VerifyEmail(r)
    \/ UpdateProfile(r) \/ ChangePassword(r) \/ DeleteAccount(r)

Progress(r) ==
    \/ NewUser(r) \/ WrongPassword(r) \/ RightPassword(r) \/ NewCode(r) \/ CodeFound(r)
    \/ Refuse(r) \/ Reread(r) \/ Select(r) \/ Update(r) \/ Insert(r) \/ DuplicateKey(r)
    \/ Publish(r) \/ Commit(r)

\* Every request has been answered.
Finished == (\A r \in Requests : pc[r] = "done") /\ UNCHANGED vars

Next == (\E r \in Requests : Submit(r) \/ Progress(r) \/ Fails(r)) \/ Finished

\* Requests that have begun go on: the event loop runs them, PostgreSQL answers.
Fairness == \A r \in Requests : WF_vars(Progress(r))

Safety == Init /\ [][Next]_vars
Spec   == Safety /\ Fairness

-----------------------------------------------------------------------------
(* Properties. *)

\* What the operations are expected to do to the table.
L == INSTANCE Lifecycle

Partial(f) == DOMAIN f \subseteq Columns

TypeOK ==
    /\ users \in [Users -> Rows \cup {None}]
    /\ wallets \subseteq Users
    /\ mails \subseteq Users \X Codes
    /\ pc \in [Requests -> {"idle", "read", "reread", "select", "update", "insert",
                            "publish", "commit", "done"}]
    /\ op \in [Requests -> {"signUp", "signIn", "failure", "resend", "verify",
                            "profile", "password", "delete", None}]
    /\ user \in [Requests -> Users \cup {None}]
    /\ \A r \in Requests : Partial(change[r]) /\ Partial(write[r])
    /\ entity \in [Requests -> Rows \cup {Nothing}]
    /\ failures \in [Users -> 0 .. Allowed + 1]

\* A user can always be told what is in the table: whatever is rolled back, sent
\* twice or saved from an old entity, each row's code is one its user was mailed.
StoredCodesWereMailed ==
    \A u \in Users : users[u] # None => <<u, users[u].code>> \in mails

\* A sign-up makes the user and the wallet, or neither.
UsersHaveWallets == wallets = {u \in Users : users[u] # None}

\* Overlapping sign-ins can only miscount to the user's advantage: the counter is
\* never above the wrong passwords given, and the lock takes one more than allowed.
LockNeedsFailures ==
    \A u \in Users : users[u] # None =>
        /\ users[u].attempts <= failures[u]
        /\ users[u].status = "locked" => failures[u] > Allowed

\* Every request is answered: neither row locks, nor unique keys, nor the second
\* connection each transaction asks for hold it up for ever.
EveryRequestAnswered == \A r \in Requests : pc[r] # "idle" ~> pc[r] = "done"

\* When the requests of each user are served one at a time, each is one atomic step
\* of the account, or none.
StepsOfTheLifecycle == L!Spec

\* A verified account that has been deleted or locked does not come back.
StaysBlocked ==
    [][\A u \in Users :
          users[u] # None /\ users[u].verified /\ users[u].status \in {"locked", "deleted"}
              => users'[u].verified /\ users'[u].status \in {"locked", "deleted"}]_vars

=============================================================================
