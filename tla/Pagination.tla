------------------------------ MODULE Pagination ------------------------------
(***************************************************************************)
(* The page of a list: common/helpers/index.ts, and the skip and take of   *)
(* the queries.                                                            *)
(***************************************************************************)
EXTENDS Integers

CONSTANTS
    Limit,  \* the limit of a client that goes through a list, the same for all pages
    None    \* no page, no row, nothing given

ASSUME LimitAssumption == Limit \in Nat \ {0}
ASSUME NoneAssumption == None \notin Nat

Ceiling(m, n) == (m + n - 1) \div n

\* The pagination a handler answers with.
paginateResult(total_count, current_page, limit) ==
    LET total_pages  == Ceiling(total_count, limit)
        out_of_range == current_page > total_pages
        left         == total_count - (current_page - 1) * limit
    IN  [count       |-> IF out_of_range THEN 0 ELSE IF left < limit THEN left ELSE limit,
         prev_page   |-> IF current_page > 1 THEN current_page - 1 ELSE None,
         next_page   |-> IF total_count > current_page * limit THEN current_page + 1 ELSE None,
         total_pages |-> total_pages,
         out_of_range |-> out_of_range]

=============================================================================
