------------------------------- MODULE Payloads -------------------------------
(***************************************************************************)
(* What the ValidationPipe of main.ts lets through: the DTOs, as the       *)
(* predicates their decorators make.                                       *)
(*                                                                         *)
(* A field that is left out is None.  A text of a body is a record of its  *)
(* length and of what it says; a text of a query is a value, "" included,  *)
(* and Malformed stands for one that is no email, no date or not in the    *)
(* enumeration.  Amounts are in hundredths of what the client writes.      *)
(* Properties that no DTO declares are refused by forbidNonWhitelisted.    *)
(***************************************************************************)
EXTENDS Pagination, FiniteSets

CONSTANT Malformed

\* IsNotEmpty, MinLength and MaxLength; with IsOptional.
NotEmpty(text)         == text # None /\ text.length > 0
AtLeast(text, n)       == text # None /\ text.length >= n
Between(text, m, n)    == text # None /\ text.length \in m .. n
Optional(field, valid) == field # None => valid

IsEmail(text) == NotEmpty(text) /\ text.says # Malformed

-----------------------------------------------------------------------------
(* Bodies. *)

PhoneNumberDto(p) == NotEmpty(p.country_code) /\ Between(p.phone, 10, 11)

AddressDto(p) ==
    \A field \in {"house_number", "street", "lga", "state", "country"} : NotEmpty(p[field])

SignupDto(p) ==
    /\ NotEmpty(p.first_name) /\ NotEmpty(p.last_name)
    /\ Optional(p.middle_name, NotEmpty(p.middle_name))
    /\ p.phone_number # None /\ PhoneNumberDto(p.phone_number)
    /\ IsEmail(p.email) /\ AtLeast(p.password, 6)

SigninDto(p) == IsEmail(p.email) /\ NotEmpty(p.password)
ResendSignUpOtpDto(p) == IsEmail(p.email)

ChangePasswordDto(p) == AtLeast(p.current_password, 6) /\ AtLeast(p.new_password, 6)

\* updateProfile of a user, of an admin.
UpdateProfileDto(p) ==
    /\ \A field \in {"first_name", "last_name", "middle_name"} :
          Optional(p[field], NotEmpty(p[field]))
    /\ Optional(p.phone_number, PhoneNumberDto(p.phone_number))
    /\ p.gender \in {None, "male", "female"}
    /\ Optional(p.address_info, AddressDto(p.address_info))

UpdateAdminProfileDto(p) ==
    /\ Optional(p.address, AddressDto(p.address))
    /\ Optional(p.phone_number, PhoneNumberDto(p.phone_number))
    /\ p.gender \in {None, "male", "female"}
    /\ p.image # Malformed

InviteAdminDto(p) == IsEmail(p.email) /\ NotEmpty(p.role_id)

CompleteAdminSignupDto(p) ==
    /\ IsEmail(p.email) /\ NotEmpty(p.first_name) /\ NotEmpty(p.last_name)
    /\ Optional(p.phone_number, PhoneNumberDto(p.phone_number))
    /\ Optional(p.address, AddressDto(p.address))
    /\ p.gender \in {None, "male", "female"}
    /\ Between(p.password, 8, 20)
    /\ NotEmpty(p.confirm_password) /\ p.confirm_password = p.password

CreateRoleDto(p) == AtLeast(p.name, 5) /\ AtLeast(p.description, 5) /\ p.permissions # {}

UpdateRoleDto(p) ==
    /\ Optional(p.name, AtLeast(p.name, 5)) /\ Optional(p.description, AtLeast(p.description, 5))
    /\ Optional(p.permissions, p.permissions # {})
    /\ Optional(p.remove_permissions, p.remove_permissions # {})

FundWalletDto(p)      == p.amount >= 100 /\ NotEmpty(p.currency)
ConvertCurrencyDto(p) == NotEmpty(p.from_currency) /\ NotEmpty(p.to_currency) /\ p.amount >= 100
TradeCurrencyDto(p) ==
    /\ NotEmpty(p.base_currency) /\ NotEmpty(p.quote_currency)
    /\ p.amount >= 1 /\ p.action \in {"buy", "sell"}

-----------------------------------------------------------------------------
(* Queries. *)

\* page and limit: converted by @Type, IsNumber, Min(1).
Paged(q) ==
    \A field \in {"page", "limit"} : Optional(q[field], q[field] # Malformed /\ q[field] >= 1)

\* GetRolesDto, GetPermissionsDto, GetCountriesDto are no more than that.
GetRolesDto(q)       == Paged(q)
GetPermissionsDto(q) == Paged(q)
GetCountriesDto(q)   == Paged(q)

TransactionTypes    == {"funding", "conversion", "trade", "withdrawal", "fee"}
TransactionFlows    == {"debit", "credit"}
TransactionStatuses == {"pending", "abandoned", "failed", "completed", "success", "reversed"}
UserStatuses ==
    {"active", "inactive", "deleted", "incomplete_profile", "suspended", "pending", "locked"}
AdminStatuses == {"active", "inactive", "suspended", "deleted"}

\* The end of a period is checked only when the query has a startDate, which no DTO
\* declares: anything passes.
GetTransactionsDto(q) ==
    Paged(q) /\ q.type \in {None} \cup TransactionTypes /\ q.start_date # Malformed

\* is_transfer is to be a boolean, which a query string never holds.
AdminGetTransactionsDto(q) ==
    /\ Paged(q) /\ q.start_date # Malformed
    /\ q.type \in {None} \cup TransactionTypes
    /\ q.flow \in {None} \cup TransactionFlows
    /\ q.status \in {None} \cup TransactionStatuses
    /\ q.is_transfer = None

GetUsersDto(q) ==
    /\ Paged(q) /\ q.start_date # Malformed
    /\ q.status \in {None} \cup UserStatuses
    /\ q.kyc_tier \in {None, "tier_one", "tier_two", "tier_three", "none"}
    /\ q.email \notin {"", Malformed}

GetAdminsDto(q) ==
    /\ Paged(q) /\ q.start_date # Malformed
    /\ q.status \in {None} \cup AdminStatuses
    /\ q.email \notin {"", Malformed}

GetActivitiesDto(q)    == Paged(q) /\ q.from # Malformed /\ q.entity \in {None, "admin", "user"}
GetOwnActivitiesDto(q) == Paged(q) /\ q.from # Malformed

=============================================================================
