------------------------------- MODULE MCQueries -------------------------------
(***************************************************************************)
(* Access, Payloads and Queries evaluated on small inputs.                 *)
(***************************************************************************)
EXTENDS Access, Queries

\* Each handler belongs to one controller: Demand has one answer.
ASSUME HandlersApart ==
    \A h \in Handlers : Cardinality({c \in Controllers : h \in DOMAIN c}) = 1

\* The seeded permissions, all of which the super-admin role has, open every handler but
\* the DELETE of a role.
ASSUME UnreachableHandlers == Unreachable = {"removeRole"}

MCCallers ==
    [known : BOOLEAN, status : UserStatuses, verified : BOOLEAN, held : {{}, DefaultPermissions}]

\* Money moves only for somebody who is neither locked, suspended nor deleted and whose
\* email is verified, which leaves out every inactive account.
ASSUME MoneyNeedsVerifiedEmail ==
    \A h \in {"fundWallet", "convertCurrency", "trade"}, c \in MCCallers :
        Guards(c, h) = 200 <=>
            c.known /\ c.verified /\ c.status \in {"active", "incomplete_profile", "pending"}

MCRows ==
    [transaction_id : {1, 2}, user_id : {"u1", "u2"}, session_id : {None}, type : {"trade", "fee"},
     flow : {"debit"}, status : {"success"}, reference : {"r"}, is_transfer : {FALSE},
     created_at : {1, 2}]
MCDates == {None, Malformed, 1, 2}
MCSearches ==
    [page : {None, 0, 2}, limit : {None, 1}, reference : {None, ""}, type : {None, "trade", ""},
     start_date : MCDates, end_date : MCDates]

\* What a user can be answered with: his own rows; a refusal for what the DTO looks at; and
\* a server error for the end of the period it does not look at, and for nothing else.
ASSUME OwnSearchAnswers ==
    \A q \in MCSearches :
        LET answer == SearchTransactions(MCRows, "u1", q)
        IN  /\ \A t \in answer.rows : t.user_id = "u1" /\ (q.type = "trade" => t.type = "trade")
            /\ answer.status = 500 => q.end_date = Malformed
            /\ answer.status = 400 <=> q.page = 0 \/ q.type = "" \/ q.start_date = Malformed

\* What an admin's token gets on the same routes: an empty list, and the transactions of
\* everybody one by one.
ASSUME AdminsOwnTransactions ==
    LET user_id == CurrentUserId("admin", "a1")
    IN  /\ \A q \in MCSearches : SearchTransactions(MCRows, user_id, q).rows = {}
        /\ \A id \in {1, 2} :
              {t.user_id : t \in getTransaction(MCRows, user_id, id).rows} = {"u1", "u2"}

MCRates == [{"NGN", "EUR", "USD"} -> {1, 2, 3}]

\* A table of rates for a base is the one for USD, scaled: the row of USD and the rows of
\* the others come out alike whether the table has USD or not, and no rate is missing.
ASSUME DerivedRatesAgree ==
    \A rates \in MCRates :
        LET without == [c \in {"NGN", "EUR"} |-> rates[c]]
        IN  getFxRates(rates, "NGN", rates["USD"]) = getFxRates(without, "NGN", rates["USD"])

=============================================================================
