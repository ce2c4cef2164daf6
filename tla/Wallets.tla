------------------------------- MODULE Wallets -------------------------------
(***************************************************************************)
(* wallets.service.ts over PostgreSQL at READ COMMITTED.                   *)
(*                                                                         *)
(* Every request runs one database transaction and publishes one activity  *)
(* after the commit.  A step of this module is one SQL statement of one    *)
(* request: a SELECT sees what is committed and what its own transaction   *)
(* has written; an UPDATE takes the row lock and waits while another       *)
(* transaction holds it; a commit makes every staged write visible at      *)
(* once.  No SELECT of this code asks for a lock, so a balance may have    *)
(* changed between the SELECT that computes the next balance and the       *)
(* UPDATE that stores it.                                                  *)
(*                                                                         *)
(* The table of transactions is kept as what the properties need of it:    *)
(* the kinds of rows each request has in it (posted) and the sum of its    *)
(* credit and of its debit rows for every wallet (credited, debited).      *)
(***************************************************************************)
EXTENDS Exchange, FiniteSets

CONSTANTS
    Requests,     \* HTTP requests, each one POST to fund, convert or trade
    Users,        \* verified users
    Currencies,   \* currency codes
    WalletIds,    \* primary keys the wallet table can hold
    Amounts,      \* whole amounts a payload can carry
    Purchases,    \* amounts the payload of a BUY can carry: any number from 0.01
    Rates,        \* rates the exchange service can answer
    MaxInteger,   \* the largest value of a PostgreSQL integer column
    MaxPerUser,   \* requests of one user whose transactions are open at the same time
    Opening,      \* the wallets there are at first: <<user, currency>> or None
    Deposits,     \* what each of them has been funded with
    None          \* no wallet row, or no source currency

ASSUME RequestsAssumption == IsFiniteSet(Requests)
ASSUME AmountsAssumption ==
    Amounts \subseteq Nat \ {0} /\ \A amount \in Purchases : IsAmount(amount)
ASSUME RatesAssumption == \A rate \in Rates : IsRate(rate)
ASSUME BoundsAssumption == MaxInteger \in Nat /\ MaxPerUser \in Nat
ASSUME NoneAssumption == None \notin Users \X Currencies /\ None \notin Currencies
ASSUME OpeningAssumption ==
    /\ Opening \in [WalletIds -> (Users \X Currencies) \cup {None}]
    /\ Deposits \in [WalletIds -> 0 .. MaxInteger]
    /\ \A w \in WalletIds : Opening[w] = None => Deposits[w] = 0
    /\ \A v, w \in WalletIds :
          Opening[v] = Opening[w] /\ Opening[v] # None => v = w

VARIABLES
    owner,     \* wallet table: the user and currency of every row, or None
    balance,   \* wallet table: the balance of every row, 0 where there is none
    credited,  \* transaction table: the sum of the CREDIT rows of every wallet
    debited,   \* transaction table: the sum of the DEBIT rows of every wallet
    posted,    \* transaction table: the flows of the rows each request inserted
    activity,  \* requests whose activity message the broker has taken
    pc,        \* what each request does next, or how it was answered
    job,       \* the money movement each request asks for
    src,       \* from_wallet of each request
    dst,       \* to_wallet (the wallet, for a funding) of each request
    next,      \* new_wallet_balance of the leg in progress
    opened,    \* uncommitted INSERTs into the wallet table
    locked,    \* rows with an uncommitted UPDATE, so row locks held
    staged,    \* the balances of those UPDATEs
    legs       \* uncommitted INSERTs into the transaction table, by flow

database == <<owner, balance, credited, debited, posted>>
found    == <<src, dst>>
writes   == <<opened, locked, staged, legs>>
vars     == <<database, activity, pc, job, found, next, writes>>

-----------------------------------------------------------------------------
(* Requests and their transactions. *)

Flows == {"debit", "credit"}

InTransaction == {"find_from", "find_to", "read", "save", "update", "commit"}
Answered      == {"ok", "failed", "unconfirmed", "crashed"}
InFlight      == {r \in Requests : pc[r] \in InTransaction \cup {"publish"}}

\* A job moves debit out of the user's from wallet (there is none when money
\* comes in from outside) and credit into the user's to wallet.
Jobs == [user : Users, from : Currencies \cup {None}, to : Currencies,
         debit : Nat, credit : Nat]
NoJob == [user |-> None, from |-> None, to |-> None, debit |-> 0, credit |-> 0]

\* The rows a request inserts when it succeeds, and the leg it works on.
LegsOf(r) == IF job[r].from = None THEN {"credit"} ELSE Flows
Leg(r)    == IF job[r].from # None /\ "debit" \notin legs[r] THEN "debit" ELSE "credit"
Target(r) == IF Leg(r) = "debit" THEN src[r] ELSE dst[r]

\* The balance a SELECT of request r returns.
Visible(r, w) == IF w \in locked[r] THEN staged[r][w] ELSE balance[w]

\* Mutant: the currency is left out of the where clause.
WalletsOfAnyCurrency(user, currency) ==
    {w \in WalletIds : \E c \in Currencies : owner[w] = <<user, c>>}

\* The rows findOne({ user_id, currency }) can return.
WalletsOf(user, currency) == {w \in WalletIds : owner[w] = <<user, currency>>}

NoBalances == [w \in WalletIds |-> 0]

Init ==
    /\ owner = Opening
    /\ balance = Deposits
    /\ credited = Deposits
    /\ debited = NoBalances
    /\ posted = [r \in Requests |-> {}]
    /\ activity = {}
    /\ pc = [r \in Requests |-> "idle"]
    /\ job = [r \in Requests |-> NoJob]
    /\ src = [r \in Requests |-> None]
    /\ dst = [r \in Requests |-> None]
    /\ next = [r \in Requests |-> 0]
    /\ opened = [r \in Requests |-> {}]
    /\ locked = [r \in Requests |-> {}]
    /\ staged = [r \in Requests |-> NoBalances]
    /\ legs = [r \in Requests |-> {}]

\* The end of the transaction of r, after a COMMIT or in a ROLLBACK: what it
\* found, its staged writes and its locks are gone.
EndTransaction(r) ==
    /\ src' = [src EXCEPT ![r] = None]
    /\ dst' = [dst EXCEPT ![r] = None]
    /\ next' = [next EXCEPT ![r] = 0]
    /\ opened' = [opened EXCEPT ![r] = {}]
    /\ locked' = [locked EXCEPT ![r] = {}]
    /\ staged' = [staged EXCEPT ![r] = NoBalances]
    /\ legs' = [legs EXCEPT ![r] = {}]

\* Mutant: the error is answered, and the connection never rolled back.
FailWithoutRollback(r) ==
    /\ pc' = [pc EXCEPT ![r] = "failed"]
    /\ UNCHANGED <<database, activity, job, found, next, writes>>

\* A throw inside dataSource.transaction: ROLLBACK, and an error response.
Fail(r) ==
    /\ pc' = [pc EXCEPT ![r] = "failed"]
    /\ EndTransaction(r)
    /\ UNCHANGED <<database, activity, job>>

-----------------------------------------------------------------------------
(* The three operations, up to the start of their transaction. *)

Begin(r, order) ==
    /\ pc[r] = "idle"
    /\ Cardinality({o \in InFlight : job[o].user = order.user}) < MaxPerUser
    /\ job' = [job EXCEPT ![r] = order]
    /\ pc' = [pc EXCEPT ![r] = IF order.from = None THEN "find_to" ELSE "find_from"]
    /\ UNCHANGED <<database, activity, found, next, writes>>

FundWallet(r) ==
    \E u \in Users, c \in Currencies, amount \in Amounts :
        Begin(r, [user |-> u, from |-> None, to |-> c, debit |-> 0, credit |-> amount])

\* convertCurrency answers '1' for a currency against itself.
RatesFor(from, to) == IF from = to THEN {Par} ELSE Rates

\* Move amount out of from and what it is worth into to.
MoveMoney(r, u, from, to, amount) ==
    \E rate \in RatesFor(from, to) : \E worth \in ConvertedAmounts(amount, rate) :
        Begin(r, [user |-> u, from |-> from, to |-> to, debit |-> amount, credit |-> worth])

ConvertCurrency(r) ==
    \E u \in Users, from, to \in Currencies, amount \in Amounts :
        MoveMoney(r, u, from, to, amount)

\* A SELL is a conversion of base into quote.  A BUY asks for the rate once to
\* size its cost, a whole number whatever the amount, and again to convert it: the
\* two answers need not agree.
Trade(r) ==
    \E u \in Users, base, quote \in Currencies :
        \/ \E amount \in Amounts : MoveMoney(r, u, base, quote, amount)
        \/ \E amount \in Purchases, rate \in RatesFor(quote, base) :
              \E cost \in BuyCosts(amount, rate) : MoveMoney(r, u, quote, base, cost)

\* No rate for the pair: a BadRequestException before any transaction.
RefuseOrder(r) ==
    /\ pc[r] = "idle"
    /\ Fail(r)

-----------------------------------------------------------------------------
(* The statements of a transaction. *)

FindFrom(r) ==
    /\ pc[r] = "find_from"
    /\ \E w \in WalletsOf(job[r].user, job[r].from) : src' = [src EXCEPT ![r] = w]
    /\ pc' = [pc EXCEPT ![r] = "find_to"]
    /\ UNCHANGED <<database, activity, job, dst, next, writes>>

NoSourceWallet(r) ==
    /\ pc[r] = "find_from"
    /\ WalletsOf(job[r].user, job[r].from) = {}
    /\ Fail(r)

FindTo(r) ==
    /\ pc[r] = "find_to"
    /\ \E w \in WalletsOf(job[r].user, job[r].to) : dst' = [dst EXCEPT ![r] = w]
    /\ pc' = [pc EXCEPT ![r] = "read"]
    /\ UNCHANGED <<database, activity, job, src, next, writes>>

\* Mutant: create() without looking for a wallet first.
OpenAnotherWallet(r) ==
    /\ pc[r] = "find_to"
    /\ \E w \in WalletIds :
          /\ owner[w] = None
          /\ \A o \in Requests : w \notin opened[o]
          /\ dst' = [dst EXCEPT ![r] = w]
          /\ opened' = [opened EXCEPT ![r] = {w}]
    /\ pc' = [pc EXCEPT ![r] = "read"]
    /\ UNCHANGED <<database, activity, job, src, next, locked, staged, legs>>

\* create() when the SELECT found no wallet: an INSERT others cannot see yet.
OpenWallet(r) ==
    /\ pc[r] = "find_to"
    /\ WalletsOf(job[r].user, job[r].to) = {}
    /\ \E w \in WalletIds :
          /\ owner[w] = None
          /\ \A o \in Requests : w \notin opened[o]
          /\ dst' = [dst EXCEPT ![r] = w]
          /\ opened' = [opened EXCEPT ![r] = {w}]
    /\ pc' = [pc EXCEPT ![r] = "read"]
    /\ UNCHANGED <<database, activity, job, src, next, locked, staged, legs>>

\* Mutant: debit() without the comparison of the balance and the amount.
ReadWithoutFundsCheck(r) ==
    /\ pc[r] = "read"
    /\ next' = [next EXCEPT ![r] = IF Leg(r) = "debit"
                                   THEN Visible(r, src[r]) - job[r].debit
                                   ELSE Visible(r, dst[r]) + job[r].credit]
    /\ pc' = [pc EXCEPT ![r] = "save"]
    /\ UNCHANGED <<database, activity, job, found, writes>>

\* Mutant: the SELECT goes through the repository, outside the transaction.
ReadOutsideTransaction(r) ==
    /\ pc[r] = "read"
    /\ \/ /\ Leg(r) = "debit"
          /\ balance[src[r]] >= job[r].debit
          /\ next' = [next EXCEPT ![r] = balance[src[r]] - job[r].debit]
       \/ /\ Leg(r) = "credit"
          /\ next' = [next EXCEPT ![r] = balance[dst[r]] + job[r].credit]
    /\ pc' = [pc EXCEPT ![r] = "save"]
    /\ UNCHANGED <<database, activity, job, found, writes>>

\* debit() and credit(): the SELECT that the next balance is computed from.
ReadBalance(r) ==
    /\ pc[r] = "read"
    /\ \/ /\ Leg(r) = "debit"
          /\ Visible(r, src[r]) >= job[r].debit
          /\ next' = [next EXCEPT ![r] = Visible(r, src[r]) - job[r].debit]
       \/ /\ Leg(r) = "credit"
          /\ next' = [next EXCEPT ![r] = Visible(r, dst[r]) + job[r].credit]
    /\ pc' = [pc EXCEPT ![r] = "save"]
    /\ UNCHANGED <<database, activity, job, found, writes>>

InsufficientFunds(r) ==
    /\ pc[r] = "read"
    /\ Leg(r) = "debit"
    /\ Visible(r, src[r]) < job[r].debit
    /\ Fail(r)

\* transactionsService.create: the row of the leg, then the next leg or COMMIT.
PostLeg(r) ==
    /\ legs' = [legs EXCEPT ![r] = @ \cup {Leg(r)}]
    /\ pc' = [pc EXCEPT ![r] = IF Leg(r) = "debit" THEN "read" ELSE "commit"]

\* update(): save() reads the row again and writes the columns that differ from
\* what it read.  When the row already holds the next balance it writes nothing.
SkipUpdate(r) ==
    /\ pc[r] = "save"
    /\ Visible(r, Target(r)) = next[r]
    /\ PostLeg(r)
    /\ UNCHANGED <<database, activity, job, found, next, opened, locked, staged>>

NeedUpdate(r) ==
    /\ pc[r] = "save"
    /\ Visible(r, Target(r)) # next[r]
    /\ pc' = [pc EXCEPT ![r] = "update"]
    /\ UNCHANGED <<database, activity, job, found, next, writes>>

\* Mutant: the UPDATE goes through the repository, and is committed at once.
UpdateOutsideTransaction(r) ==
    /\ pc[r] = "update"
    /\ next[r] <= MaxInteger
    /\ balance' = [balance EXCEPT ![Target(r)] = next[r]]
    /\ PostLeg(r)
    /\ UNCHANGED <<owner, credited, debited, posted, activity, job, found, next,
                   opened, locked, staged>>

\* UPDATE wallet SET balance = next: waits for the row lock, then overwrites.
UpdateBalance(r) ==
    /\ pc[r] = "update"
    /\ next[r] <= MaxInteger
    /\ \A o \in Requests \ {r} : Target(r) \notin locked[o]
    /\ locked' = [locked EXCEPT ![r] = @ \cup {Target(r)}]
    /\ staged' = [staged EXCEPT ![r][Target(r)] = next[r]]
    /\ PostLeg(r)
    /\ UNCHANGED <<database, activity, job, found, next, opened>>

\* The next balance is out of range for the integer column.
OutOfRange(r) ==
    /\ pc[r] = "update"
    /\ next[r] > MaxInteger
    /\ Fail(r)

\* What COMMIT makes visible: every staged write of r at once.
MakeVisible(r) ==
    /\ owner' = [w \in WalletIds |->
          IF w \in opened[r] THEN <<job[r].user, job[r].to>> ELSE owner[w]]
    /\ balance' = [w \in WalletIds |-> Visible(r, w)]
    /\ credited' = [w \in WalletIds |->
          credited[w] + IF "credit" \in legs[r] /\ w = dst[r] THEN job[r].credit ELSE 0]
    /\ debited' = [w \in WalletIds |->
          debited[w] + IF "debit" \in legs[r] /\ w = src[r] THEN job[r].debit ELSE 0]
    /\ posted' = [posted EXCEPT ![r] = legs[r]]

Commit(r) ==
    /\ pc[r] = "commit"
    /\ MakeVisible(r)
    /\ pc' = [pc EXCEPT ![r] = "publish"]
    /\ EndTransaction(r)
    /\ UNCHANGED <<activity, job>>

-----------------------------------------------------------------------------
(* After the commit, and failures. *)

\* Mutant: the activity is published, and success answered, before the commit.
PublishBeforeCommit(r) ==
    /\ pc[r] \in {"commit", "publish"}
    /\ activity' = activity \cup {r}
    /\ pc' = [pc EXCEPT ![r] = "ok"]
    /\ UNCHANGED <<database, job, found, next, writes>>

PublishActivity(r) ==
    /\ pc[r] = "publish"
    /\ activity' = activity \cup {r}
    /\ pc' = [pc EXCEPT ![r] = "ok"]
    /\ UNCHANGED <<database, job, found, next, writes>>

\* publishMessage rejects: an error response for money that has moved, which the
\* caller cannot tell from that of a COMMIT without an answer.
PublishFails(r) ==
    /\ pc[r] = "publish"
    /\ pc' = [pc EXCEPT ![r] = "unconfirmed"]
    /\ UNCHANGED <<database, activity, job, found, next, writes>>

\* Any statement before COMMIT can fail: a lost connection, a fractional amount.
StatementFails(r) ==
    /\ pc[r] \in InTransaction \ {"commit"}
    /\ Fail(r)

\* The connection is lost during COMMIT: dataSource.transaction rejects and the
\* caller is told of an error, whether or not PostgreSQL has committed.
CommitUnanswered(r) ==
    /\ pc[r] = "commit"
    /\ MakeVisible(r) \/ UNCHANGED database
    /\ pc' = [pc EXCEPT ![r] = "unconfirmed"]
    /\ EndTransaction(r)
    /\ UNCHANGED <<activity, job>>

\* The process dies: PostgreSQL rolls back what was not committed.
Crash(r) ==
    /\ r \in InFlight
    /\ pc' = [pc EXCEPT ![r] = "crashed"]
    /\ EndTransaction(r)
    /\ UNCHANGED <<database, activity, job>>

\* The UPDATE of r waits for a row that o has updated.
WaitsFor(r, o) ==
    /\ r # o
    /\ pc[r] = "update"
    /\ next[r] <= MaxInteger
    /\ Target(r) \in locked[o]

\* PostgreSQL's deadlock detector: a waiter on a cycle is aborted.
DeadlockVictim(r) ==
    /\ \E S \in SUBSET Requests :
          /\ r \in S
          /\ \A a \in S : \E b \in S : WaitsFor(a, b)
          /\ \A b \in S : \E a \in S : WaitsFor(a, b)
    /\ Fail(r)

-----------------------------------------------------------------------------

\* What a request does when nothing goes wrong outside it.
Progress(r) ==
    \/ FindFrom(r) \/ NoSourceWallet(r) \/ FindTo(r) \/ OpenWallet(r)
    \/ ReadBalance(r) \/ InsufficientFunds(r)
    \/ SkipUpdate(r) \/ NeedUpdate(r) \/ UpdateBalance(r) \/ OutOfRange(r)
    \/ Commit(r) \/ PublishActivity(r)

Submit(r) == FundWallet(r) \/ ConvertCurrency(r) \/ Trade(r) \/ RefuseOrder(r)

\* Every request has been answered.
Finished ==
    /\ \A r \in Requests : pc[r] \in Answered
    /\ UNCHANGED vars

Next ==
    \/ \E r \in Requests :
          \/ Submit(r) \/ Progress(r) \/ DeadlockVictim(r)
          \/ PublishFails(r) \/ StatementFails(r) \/ CommitUnanswered(r) \/ Crash(r)
    \/ Finished

\* The event loop runs every request on, PostgreSQL answers every statement and
\* breaks every deadlock.
Fairness == \A r \in Requests : WF_vars(Progress(r)) /\ WF_vars(DeadlockVictim(r))

Safety == Init /\ [][Next]_vars
Spec   == Safety /\ Fairness

-----------------------------------------------------------------------------
(* Properties. *)

\* The ledger the wallet and transaction tables promise together.
L == INSTANCE Ledger

TypeOK ==
    /\ owner \in [WalletIds -> (Users \X Currencies) \cup {None}]
    /\ balance \in [WalletIds -> 0 .. MaxInteger]
    /\ credited \in [WalletIds -> Nat]
    /\ debited \in [WalletIds -> Nat]
    /\ posted \in [Requests -> SUBSET Flows]
    /\ activity \subseteq Requests
    /\ pc \in [Requests -> {"idle", "publish"} \cup InTransaction \cup Answered]
    /\ job \in [Requests -> Jobs \cup {NoJob}]
    /\ src \in [Requests -> WalletIds \cup {None}]
    /\ dst \in [Requests -> WalletIds \cup {None}]
    /\ next \in [Requests -> Nat]
    /\ opened \in [Requests -> SUBSET WalletIds]
    /\ locked \in [Requests -> SUBSET WalletIds]
    /\ staged \in [Requests -> [WalletIds -> 0 .. MaxInteger]]
    /\ legs \in [Requests -> SUBSET Flows]

\* However requests interleave, and whatever update is lost, no wallet holds more
\* than the credits recorded for it: debit() and credit() read, then overwrite.
BalanceWithinCredits == \A w \in WalletIds : balance[w] <= credited[w]

\* What a caller is told agrees with the transaction table as far as it can: a
\* success has all its rows there and its activity published; an error from before
\* COMMIT was sent, a refusal or a statement that failed, has none; an error from
\* COMMIT on, and a crash, leave open whether the money moved, but never a debit
\* without its credit; and no activity is published for money that has not moved.
AnswersMatchLedger ==
    \A r \in Requests :
        /\ pc[r] = "ok" => posted[r] = LegsOf(r) /\ r \in activity
        /\ pc[r] = "failed" => posted[r] = {}
        /\ pc[r] \in {"unconfirmed", "crashed"} => posted[r] \in {{}, LegsOf(r)}
        /\ r \in activity => posted[r] = LegsOf(r)

\* Every operation is one atomic double-entry posting to wallets of its user,
\* whatever fails and however requests interleave (it says nothing of the balance
\* of the wallets posted to, but that it stays within their credits).
PostsAtomically == L!PostingSpec

\* When the requests of each user are served one at a time, every posting also
\* moves the balances by exactly its amounts, and only when the money is there.
MovesExactly == L!ExactSpec

\* The balance of a wallet is what its rows in the transaction table add up to.
BalanceMatchesLedger == \A w \in WalletIds : balance[w] = credited[w] - debited[w]

\* A user has one wallet for a currency: fundWallet, convertCurrency and trade
\* look for it before they create it, and no constraint of the table forbids two.
OneWalletPerCurrency ==
    \A v, w \in WalletIds : owner[v] = owner[w] /\ owner[v] # None => v = w

\* Every request is answered: row locks taken in opposite orders hold up nobody
\* for ever.
EveryRequestAnswered == \A r \in Requests : pc[r] # "idle" ~> pc[r] \in Answered

=============================================================================
