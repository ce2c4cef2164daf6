-------------------------------- MODULE Ledger --------------------------------
(***************************************************************************)
(* What the operations of wallets.service.ts promise: a book of wallets in *)
(* which every order is one atomic double-entry posting, or none.          *)
(* Transactions, statements, locks and failures are hidden.                *)
(*                                                                         *)
(* PostingSpec is kept however requests interleave.  ExactSpec adds what a *)
(* caller expects of the balances; it takes requests of one user that do   *)
(* not overlap.                                                            *)
(***************************************************************************)
EXTENDS Integers

CONSTANTS Requests, WalletIds, None, Opening, Deposits

VARIABLES owner, balance, credited, debited, posted, job

book == <<owner, balance, credited, debited, posted>>

Init ==
    /\ owner = Opening
    /\ balance = Deposits
    /\ credited = Deposits
    /\ debited = [w \in WalletIds |-> 0]
    /\ posted = [r \in Requests |-> {}]

\* A caller places the order of r.
Order(r) ==
    /\ posted[r] = {}
    /\ \A o \in Requests \ {r} : job'[o] = job[o]
    /\ UNCHANGED book

\* The order of r is carried out: money comes out of the wallet from of its user,
\* or from outside, and into the wallet to, which may be a new one.
Post(r, from, to) ==
    /\ posted[r] = {}
    /\ IF job[r].from = None
       THEN /\ posted' = [posted EXCEPT ![r] = {"credit"}]
            /\ debited' = debited
       ELSE /\ owner[from] = <<job[r].user, job[r].from>>
            /\ posted' = [posted EXCEPT ![r] = {"debit", "credit"}]
            /\ debited' = [debited EXCEPT ![from] = @ + job[r].debit]
    /\ owner[to] \in {None, <<job[r].user, job[r].to>>}
    /\ owner' = [owner EXCEPT ![to] = <<job[r].user, job[r].to>>]
    /\ credited' = [credited EXCEPT ![to] = @ + job[r].credit]
    /\ \A w \in WalletIds :
          /\ balance'[w] # balance[w] => w = to \/ (w = from /\ job[r].from # None)
          /\ balance'[w] \in 0 .. credited'[w]
    /\ UNCHANGED job

\* The posting moves the balances by exactly its amounts, and the wallet it
\* takes from holds the money.
MovesBalances(r, from, to) ==
    /\ job[r].from # None => balance[from] >= job[r].debit
    /\ \A w \in WalletIds :
          balance'[w] = balance[w]
              + (IF w = to THEN job[r].credit ELSE 0)
              - (IF w = from /\ job[r].from # None THEN job[r].debit ELSE 0)

Posting == \E r \in Requests, from, to \in WalletIds : Post(r, from, to)

ExactPosting ==
    \E r \in Requests, from, to \in WalletIds :
        Post(r, from, to) /\ MovesBalances(r, from, to)

PostingSpec == Init /\ [][Posting \/ \E r \in Requests : Order(r)]_<<book, job>>
ExactSpec   == Init /\ [][ExactPosting \/ \E r \in Requests : Order(r)]_<<book, job>>

=============================================================================
