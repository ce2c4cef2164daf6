------------------------------- MODULE Lifecycle -------------------------------
(***************************************************************************)
(* What a caller of auth.service.ts and users.service.ts expects: each     *)
(* operation is one atomic step of one account, or no step at all.  Reads, *)
(* whole-entity saves, locks, mails and failures are hidden.               *)
(***************************************************************************)
EXTENDS Integers

CONSTANTS Users, Codes, Passwords, Profiles, Allowed, None

VARIABLES users, wallets

Fresh == [status : {"inactive"}, verified : {FALSE}, attempts : {0},
          code : Codes, password : Passwords, profile : Profiles]

Registered == {u \in Users : users[u] # None}

OwnCodes == \A u, v \in Registered : users[u].code = users[v].code => u = v

\* An account that its owner can use.
Usable(u) ==
    /\ u \in Registered
    /\ users[u].status = "active" \/ (users[u].status = "inactive" /\ ~users[u].verified)

Init ==
    /\ users \in [Users -> Fresh \cup {None}]
    /\ OwnCodes
    /\ wallets = Registered

SignUp(u) ==
    /\ u \notin Registered
    /\ \E row \in Fresh : users' = [users EXCEPT ![u] = row]
    /\ wallets' = wallets \cup {u}

WrongPassword(u) ==
    /\ u \in Registered
    /\ users[u].status # "locked"
    /\ IF users[u].attempts < Allowed
       THEN users' = [users EXCEPT ![u].attempts = @ + 1]
       ELSE users' = [users EXCEPT ![u].status = "locked"]
    /\ UNCHANGED wallets

SignIn(u) ==
    /\ Usable(u)
    /\ users' = [users EXCEPT ![u].attempts = 0]
    /\ UNCHANGED wallets

ResendCode(u) ==
    /\ u \in Registered
    /\ ~users[u].verified
    /\ \E c \in Codes : users' = [users EXCEPT ![u].code = c]
    /\ UNCHANGED wallets

\* Once for an account, whatever its status.
Verify(u) ==
    /\ u \in Registered
    /\ ~users[u].verified
    /\ users' = [users EXCEPT ![u].verified = TRUE, ![u].status = "active", ![u].attempts = 0]
    /\ UNCHANGED wallets

UpdateProfile(u) ==
    /\ Usable(u)
    /\ \E p \in Profiles : users' = [users EXCEPT ![u].profile = p]
    /\ UNCHANGED wallets

ChangePassword(u) ==
    /\ Usable(u)
    /\ \E w \in Passwords : users' = [users EXCEPT ![u].password = w]
    /\ UNCHANGED wallets

Delete(u) ==
    /\ Usable(u)
    /\ users' = [users EXCEPT ![u].status = "deleted"]
    /\ UNCHANGED wallets

Step(u) ==
    \/ SignUp(u) \/ WrongPassword(u) \/ SignIn(u) \/ ResendCode(u) \/ Verify(u)
    \/ UpdateProfile(u) \/ ChangePassword(u) \/ Delete(u)

\* Two accounts never have the same code.
Next == \E u \in Users : Step(u) /\ OwnCodes'

Spec == Init /\ [][Next]_<<users, wallets>>

=============================================================================
