-------------------------------- MODULE Access --------------------------------
(***************************************************************************)
(* Who may call what: the permissions the seeder installs, what the        *)
(* handlers of every controller demand, and the guards in front of them.   *)
(***************************************************************************)
EXTENDS Integers, FiniteSets

\* The names of the table permissions.constants.ts, by the entity of each.
DefaultPermissions ==
    {"create:Admin", "view:Admin", "update:Admin", "sanction:Admin"}
    \cup {"view:User", "update:User", "delete:User", "sanction:User"}
    \cup {"view:Transaction", "view:Analytics"}
    \cup {"view:Role", "create:Role", "update:Role"}
    \cup {"view:Permission", "view:Activity", "view:Wallet"}

\* A handler with @Public, or of a controller without guards; one that any valid token
\* will do for; and one that wants a verified email as well.
Public   == "public"
AnyToken == "any token"
Verified == "verified email"

\* What the handlers of admins.controller.ts demand.
AdminHandlers ==
    [inviteAdmin          |-> "create:Admin",
     getAdmins            |-> "view:Admin",
     completeSignup       |-> Public,
     updateProfile        |-> AnyToken,
     changePassword       |-> AnyToken,
     getProfile           |-> AnyToken,
     AdminGetTransactions |-> "view:Transaction",
     AdminGetTransaction  |-> "view:Transaction",
     GetUsers             |-> "view:User"]

\* The rest of them.
AdminViews ==
    [getUserStatistics |-> "view:Analytics",
     GetUser           |-> "view:User",
     getActivities     |-> "view:Activity",
     getAdmin          |-> "view:Admin"]

\* What the handlers of roles.controller.ts demand.
RoleHandlers ==
    [createRole |-> "create:Role", findAllRoles |-> "view:Role",
     getRoleUsers |-> "view:Role", findOneRole |-> "view:Role",
     updateRole |-> "update:Role", removeRole |-> "delete:Role"]

\* What the handlers of permissions.controller.ts demand.  The service's create,
\* createMany, update and remove have no route.
PermissionHandlers ==
    [findAllPermissions |-> "view:Permission", findOnePermission |-> "view:Permission"]

\* What the handlers of users.controller.ts, wallets.controller.ts,
\* transactions.controller.ts and activities.controller.ts demand, behind AuthGuard('jwt').
UserHandlers ==
    [getMe |-> AnyToken, updateMe |-> AnyToken, changeMyPassword |-> AnyToken,
     deleteAccount |-> AnyToken]
WalletHandlers ==
    [getWallets |-> AnyToken, fundWallet |-> Verified, convertCurrency |-> Verified,
     trade |-> Verified]
TransactionHandlers == [getTransactions |-> AnyToken, getTransaction |-> AnyToken]
ActivityHandlers    == [getOwnActivities |-> AnyToken]

\* auth.controller.ts and countries.controller.ts have no guard.
AuthHandlers ==
    [signUpUser |-> Public, resendSignUpOtp |-> Public, signIn |-> Public,
     signInAdmin |-> Public, confirmation_token |-> Public]
CountryHandlers == [getCountries |-> Public, getCountryById |-> Public, getFxRates |-> Public]

Controllers ==
    {AdminHandlers, AdminViews, RoleHandlers, PermissionHandlers, UserHandlers, WalletHandlers,
     TransactionHandlers, ActivityHandlers, AuthHandlers, CountryHandlers}

Handlers == UNION {DOMAIN c : c \in Controllers}
Demand(handler) == (CHOOSE c \in Controllers : handler \in DOMAIN c)[handler]

\* PermissionsGuard: one of the permissions of the caller's role has the name.
PermissionsGuard(held, handler) ==
    Demand(handler) \in {Public, AnyToken, Verified} \/ Demand(handler) \in held

\* JwtStrategy.validate: the token is of somebody, and not of one of these.
Refused == {"locked", "suspended", "deleted"}
ValidToken(status, is_email_verified) ==
    /\ status \notin Refused
    /\ status = "inactive" => ~is_email_verified

\* EmailVerifiedGuard.
EmailVerifiedGuard(is_email_verified, handler) == Demand(handler) = Verified => is_email_verified

\* The status the guards answer with, 200 when they let the caller pass.  The body of the
\* last one says 403.
Guards(caller, handler) ==
    CASE Demand(handler) = Public -> 200
      [] Demand(handler) # Public /\ ~(caller.known /\ ValidToken(caller.status, caller.verified)) -> 401
      [] OTHER -> IF ~EmailVerifiedGuard(caller.verified, handler) THEN 403
                  ELSE IF ~PermissionsGuard(caller.held, handler) THEN 401
                  ELSE 200

\* The handlers nobody can call with the seeded permissions alone: DELETE of a role
\* demands one that the seeder does not install and no route creates.
Unreachable == {h \in Handlers : ~PermissionsGuard(DefaultPermissions, h)}

=============================================================================
