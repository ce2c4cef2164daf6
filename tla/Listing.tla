-------------------------------- MODULE Listing --------------------------------
(***************************************************************************)
(* A client that goes through a list page by page: the list handlers of    *)
(* admins, users, transactions and activities, and paginateResult.         *)
(*                                                                         *)
(* Each handler selects with skip and take, newest row first, counts the   *)
(* rows with a second query, and answers with the number of the next page. *)
(* Meanwhile rows are inserted.  A row keeps its place among the others;   *)
(* but rows of one transaction share their created_at, and ORDER BY        *)
(* created_at may give them in another order each time.                    *)
(***************************************************************************)
EXTENDS Pagination, Sequences

CONSTANTS
    Rows,     \* rows the query can select
    Tied      \* rows that share their created_at with another

VARIABLES
    rows,   \* the rows the query selects, newest first
    pc,     \* the client: idle, rows and count are under way, done
    page,   \* the page it asks for
    seen,   \* the rows it has got
    first   \* the rows there were when it asked for the first page

client == <<pc, page, seen, first>>
vars   == <<rows, client>>

-----------------------------------------------------------------------------

\* skip((page - 1) * limit), take(limit).
Page(list, p) ==
    {list[k] : k \in {k \in 1 .. Len(list) : (p - 1) * Limit < k /\ k <= p * Limit}}

-----------------------------------------------------------------------------

Distinct(list) == \A j, k \in 1 .. Len(list) : list[j] = list[k] => j = k

Init ==
    /\ rows \in Seq(Rows) /\ Distinct(rows)
    /\ pc = "idle"
    /\ page = 1
    /\ seen = {}
    /\ first = {}

Elements(list) == {list[k] : k \in 1 .. Len(list)}
Present == Elements(rows)

\* The list with row r in the place k.
With(list, k, r) ==
    [j \in 1 .. Len(list) + 1 |-> IF j < k THEN list[j] ELSE IF j = k THEN r ELSE list[j - 1]]

\* A transaction that inserted a row is committed.  The row's created_at is the start
\* of the transaction, so that later ones can be there already.
Insert(r, k) ==
    /\ r \notin Present
    /\ rows' = With(rows, k, r)
    /\ UNCHANGED client

\* The next query gives two rows of one transaction the other way round.
Reorder(k) ==
    /\ rows[k] \in Tied /\ rows[k + 1] \in Tied
    /\ rows' = [rows EXCEPT ![k] = rows[k + 1], ![k + 1] = rows[k]]
    /\ UNCHANGED client

\* The client asks for the first page.
Ask ==
    /\ pc = "idle"
    /\ pc' = "rows"
    /\ first' = Present
    /\ UNCHANGED <<rows, page, seen>>

\* getManyAndCount: the rows of the page.
ReadRows ==
    /\ pc = "rows"
    /\ seen' = seen \cup Page(rows, page)
    /\ pc' = "count"
    /\ UNCHANGED <<rows, page, first>>

\* getManyAndCount: the count, later.  The client asks for the next page, if any.
CountRows ==
    /\ pc = "count"
    /\ LET next == paginateResult(Len(rows), page, Limit).next_page
       IN  IF next = None
           THEN pc' = "done" /\ UNCHANGED page
           ELSE pc' = "rows" /\ page' = next
    /\ UNCHANGED <<rows, seen, first>>

Next ==
    \/ \E r \in Rows, k \in 1 .. Len(rows) + 1 : Insert(r, k)
    \/ \E k \in 1 .. Len(rows) - 1 : Reorder(k)
    \/ Ask \/ ReadRows \/ CountRows

Spec == Init /\ [][Next]_vars

-----------------------------------------------------------------------------
(* Properties. *)

TypeOK ==
    /\ rows \in Seq(Rows) /\ Distinct(rows)
    /\ pc \in {"idle", "rows", "count", "done"}
    /\ page \in Nat \ {0} /\ (pc = "idle" => page = 1)
    /\ seen \subseteq Rows
    /\ first \subseteq Present

\* A client that has followed next_page to the end has got every row there was when
\* it began, whatever was inserted meanwhile: rows only move towards later pages,
\* and the count that ends the listing is read after the rows.  Rows of one
\* transaction can change places over a page boundary, and are not promised.
EveryRowSeen == pc = "done" => first \ Tied \subseteq seen

\* The rows that are still to come lie beyond the last page read.
StillToCome ==
    LET read == CASE pc = "rows" -> (page - 1) * Limit
                  [] pc = "count" -> page * Limit
                  [] OTHER -> 0
    IN  \A k \in 1 .. Len(rows) :
            rows[k] \in (first \ Tied) \ seen => pc # "done" /\ k > read

=============================================================================
