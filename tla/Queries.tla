-------------------------------- MODULE Queries --------------------------------
(***************************************************************************)
(* The handlers that only read: the searches of the transactions, users,   *)
(* admins and activities with their filters, the single rows, the          *)
(* statistics of the users and the rates for a base.                       *)
(*                                                                         *)
(* A table is a set of rows.  A search yields the rows its filters select; *)
(* which of them are on a page is a matter of module Listing.              *)
(***************************************************************************)
EXTENDS Payloads

\* A filter applies when its value is truthy: neither left out nor empty.
Given(value) == value \notin {None, ""}
Is(value, column) == Given(value) => column = value

\* The user_id of a caller: JwtStrategy puts the row of the token's user or admin into the
\* request, and that of an admin has no such property.
CurrentUserId(user_type, id) == IF user_type = "admin" THEN None ELSE id

\* The bounds of a period, each applied if it is given.
Within(from, to, at) == (from # None => at >= from) /\ (to # None => at <= to)

-----------------------------------------------------------------------------
(* Transactions. *)

\* A parameter that is undefined is sent as NULL, which equals nothing.
getTransactions(table, user_id, q) ==
    {t \in table :
        /\ user_id # None /\ t.user_id = user_id
        /\ Is(q.type, t.type) /\ Is(q.reference, t.reference)
        /\ Within(q.start_date, q.end_date, t.created_at)}

adminGetTransactions(table, q) ==
    {t \in table :
        /\ Is(q.user_id, t.user_id) /\ Is(q.session_id, t.session_id)
        /\ q.is_transfer = TRUE => t.is_transfer
        /\ Is(q.flow, t.flow) /\ Is(q.status, t.status)
        /\ Is(q.type, t.type) /\ Is(q.reference, t.reference)
        /\ Within(q.start_date, q.end_date, t.created_at)}

\* What the database refuses: two filters name columns the table does not have, the end of
\* a period can be anything, and an id is any text although the column is a uuid.
NoSuchColumn(q) == Given(q.product_id) \/ Given(q.operator_id)
NoDate(to)      == to = Malformed
NoUuid(id)      == id = Malformed

-----------------------------------------------------------------------------
(* Users and admins, activities. *)

\* names: what ILIKE finds in the first, last and middle name.
Named(name, row) == Given(name) => name \in row.names

\* getUsers reads no kyc_tier, though its DTO accepts one.
getUsers(table, q) ==
    {u \in table :
        /\ Is(q.status, u.status) /\ Is(q.email, u.email)
        /\ Within(q.start_date, q.end_date, u.created_at)
        /\ Named(q.name, u)}

getAdmins(table, q) ==
    {a \in table :
        /\ Is(q.status, a.status) /\ Is(q.email, a.email)
        /\ Within(q.start_date, q.end_date, a.created_at)
        /\ Named(q.name, a)}

getActivities(table, q) ==
    {a \in table :
        /\ Is(q.activity_id, a.activity_id)
        /\ Is(q.entity_id, a.entity_id) /\ Is(q.entity, a.entity)
        /\ Within(q.from, q.to, a.event_date)}

\* What the handler of the own activities makes of its query.
OwnQuery(user_id, q) ==
    [activity_id |-> q.activity_id, entity_id |-> user_id, entity |-> "user",
     from |-> q.from, to |-> q.to]

-----------------------------------------------------------------------------
(* Answers. *)

\* AllExceptionsFilter: an HttpException keeps its status, anything else becomes 500.
BadRequest          == [status |-> 400, rows |-> {}]
NotFound            == [status |-> 404, rows |-> {}]
InternalServerError == [status |-> 500, rows |-> {}]

\* TransformResponseInterceptor and paginateResult: the documents, and the pagination of
\* the selected rows.
Listed(q, rows) ==
    [status |-> 200, rows |-> rows,
     pagination |-> paginateResult(Cardinality(rows), IF q.page = None THEN 1 ELSE q.page,
                                   IF q.limit = None THEN 20 ELSE q.limit)]

\* A list handler: the pipe, the query and its answer.
Search(accepted, readable, q, rows) ==
    IF ~accepted THEN BadRequest ELSE IF ~readable THEN InternalServerError ELSE Listed(q, rows)

SearchTransactions(table, user_id, q) ==
    Search(GetTransactionsDto(q), ~NoDate(q.end_date), q, getTransactions(table, user_id, q))
AdminSearchTransactions(table, q) ==
    Search(AdminGetTransactionsDto(q),
           ~NoDate(q.end_date) /\ ~NoSuchColumn(q) /\ ~NoUuid(q.user_id), q,
           adminGetTransactions(table, q))
SearchUsers(table, q)  == Search(GetUsersDto(q), ~NoDate(q.end_date), q, getUsers(table, q))
SearchAdmins(table, q) == Search(GetAdminsDto(q), ~NoDate(q.end_date), q, getAdmins(table, q))
SearchActivities(table, q) ==
    Search(GetActivitiesDto(q), ~NoDate(q.to) /\ ~NoUuid(q.activity_id), q, getActivities(table, q))
SearchOwnActivities(table, user_id, q) ==
    Search(GetOwnActivitiesDto(q), ~NoDate(q.to) /\ ~NoUuid(q.activity_id), q,
           getActivities(table, OwnQuery(user_id, q)))

\* The lists without filters.
ListRoles(table, q)       == Search(GetRolesDto(q), TRUE, q, table)
ListPermissions(table, q) == Search(GetPermissionsDto(q), TRUE, q, table)
ListCountries(table, q)   == Search(GetCountriesDto(q), TRUE, q, table)

\* One row, or 404.
Found(id, rows) ==
    IF NoUuid(id) THEN InternalServerError
    ELSE IF rows = {} THEN NotFound
    ELSE [status |-> 200, rows |-> rows]

\* findOneBy leaves out a condition whose value is undefined.
getTransaction(table, user_id, id) ==
    Found(id, {t \in table : t.transaction_id = id /\ (user_id # None => t.user_id = user_id)})
adminGetTransaction(table, id) == Found(id, {t \in table : t.transaction_id = id})
getUser(table, id)        == Found(id, {u \in table : u.user_id = id})
getAdmin(table, id)       == Found(id, {a \in table : a.admin_id = id})
findRole(table, id)       == Found(id, {r \in table : r.role_id = id})
findPermission(table, id) == Found(id, {p \in table : p.permission_id = id})
getCountryById(table, id) == Found(id, {c \in table : c.id = id})

-----------------------------------------------------------------------------
(* The statistics of the users. *)

\* The month before a month.
LastMonth(now) ==
    [month |-> IF now.month = 1 THEN 12 ELSE now.month - 1,
     year  |-> IF now.month = 1 THEN now.year - 1 ELSE now.year]

RegisteredIn(table, when) == {u \in table : u.month = when.month /\ u.year = when.year}

\* toFixed(2) of 100 * n / d, in hundredths: the nearest, either one at a half.
Hundredths(n, d) ==
    {k \in (10000 * n) \div d .. (10000 * n) \div d + 1 :
        2 * k * d <= 20000 * n + d /\ 2 * k * d >= 20000 * n - d}

percentageChange(current, last) ==
    IF last = 0 /\ current > last THEN {10000}
    ELSE IF current = last THEN {0}
    ELSE Hundredths(current - last, last)

direction(current, last) ==
    IF current > last THEN "increase" ELSE IF current < last THEN "decrease" ELSE "no change"

getUserStatistics(table, now) ==
    LET current == Cardinality(RegisteredIn(table, now))
        last    == Cardinality(RegisteredIn(table, LastMonth(now)))
    IN  {[totalUsers |-> Cardinality(table), currentMonthUsers |-> current, lastMonthUsers |-> last,
          userDifference |-> current - last, percentageChange |-> k,
          direction |-> direction(current, last),
          activeUsers |-> Cardinality({u \in table : u.status = "active"})] :
            k \in percentageChange(current, last)}

-----------------------------------------------------------------------------
(* getFxRates: the rates, in millionths, for another base than USD. *)

Millionths(n, d) ==
    {k \in (1000000 * n) \div d .. (1000000 * n) \div d + 1 :
        2 * k * d <= 2000000 * n + d /\ 2 * k * d >= 2000000 * n - d}

\* rates: what one USD is worth in each currency, in a common unit.  A base the table does
\* not have is refused; USD is there even if the table has none.
derivedRates(rates, base, unit) ==
    [currency \in DOMAIN rates \cup {"USD"} |->
        IF currency = base THEN {1000000}
        ELSE IF currency \in DOMAIN rates THEN Millionths(rates[currency], rates[base])
        ELSE Millionths(unit, rates[base])]

getFxRates(rates, base, unit) ==
    IF base = "USD" THEN [status |-> 200, rows |-> rates]
    ELSE IF base \notin DOMAIN rates THEN BadRequest
    ELSE [status |-> 200, rows |-> derivedRates(rates, base, unit)]

=============================================================================
