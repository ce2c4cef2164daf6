---------------------------- MODULE WalletsProofs ----------------------------
(***************************************************************************)
(* What holds of Wallets for every set of requests, users, currencies and  *)
(* amounts, proved from the inductive invariant IInv.                      *)
(***************************************************************************)
EXTENDS Wallets, TLAPS

-----------------------------------------------------------------------------
(* The inductive invariant. *)

Working == {"read", "save", "update", "commit"}

\* The wallets a transaction has found are the user's, and the one it opens is
\* still nobody's.
FoundInv(r) ==
    /\ pc[r] \in InTransaction \cup {"publish"} => job[r] \in Jobs
    /\ pc[r] \in {"find_to"} \cup Working /\ job[r].from # None =>
          src[r] \in WalletIds /\ owner[src[r]] = <<job[r].user, job[r].from>>
    /\ pc[r] \in Working =>
          /\ dst[r] \in WalletIds
          /\ \/ owner[dst[r]] = <<job[r].user, job[r].to>> /\ opened[r] = {}
             \/ owner[dst[r]] = None /\ opened[r] = {dst[r]}
    /\ pc[r] \notin Working => opened[r] = {}

\* The debit goes before the credit, and only wallets of the order are written.
LegsInv(r) ==
    /\ pc[r] \notin Working => legs[r] = {} /\ locked[r] = {}
    /\ pc[r] \in {"read", "save", "update"} =>
          "credit" \notin legs[r] /\ ("debit" \in legs[r] => job[r].from # None)
    /\ pc[r] = "commit" => legs[r] = LegsOf(r)
    /\ \A w \in locked[r] : w = dst[r] \/ (w = src[r] /\ job[r].from # None)

\* A balance about to be committed is within the credits there will then be:
\* credits only grow, whoever commits in between.
CreditInv(r) ==
    /\ pc[r] \in {"save", "update"} =>
          next[r] <= credited[Target(r)] + IF Leg(r) = "credit" THEN job[r].credit ELSE 0
    /\ \A w \in locked[r] :
          staged[r][w] <= credited[w]
              + IF "credit" \in legs[r] /\ w = dst[r] THEN job[r].credit ELSE 0

\* The rows of a request appear in the ledger with its commit.
PostedInv(r) ==
    /\ pc[r] \in InTransaction \cup {"idle", "failed"} => posted[r] = {}
    /\ pc[r] \in {"publish", "ok"} => posted[r] = LegsOf(r)
    /\ pc[r] \in {"unconfirmed", "crashed"} => posted[r] \in {{}, LegsOf(r)}
    /\ r \in activity <=> pc[r] = "ok"

\* Two transactions do not insert the same row.
OpenedInv == \A r, o \in Requests : r # o => opened[r] \cap opened[o] = {}

RequestInv(r) == FoundInv(r) /\ LegsInv(r) /\ CreditInv(r) /\ PostedInv(r)

IInv ==
    /\ TypeOK
    /\ BalanceWithinCredits
    /\ OpenedInv
    /\ \A r \in Requests : RequestInv(r)

-----------------------------------------------------------------------------
(* Steps of one request leave the others alone. *)

\* No step of another request touches what o keeps for itself.
Undisturbed(o) ==
    /\ pc'[o] = pc[o] /\ job'[o] = job[o] /\ posted'[o] = posted[o]
    /\ src'[o] = src[o] /\ dst'[o] = dst[o] /\ next'[o] = next[o]
    /\ opened'[o] = opened[o] /\ locked'[o] = locked[o]
    /\ staged'[o] = staged[o] /\ legs'[o] = legs[o]
    /\ o \in activity' <=> o \in activity

\* What r does to the tables: credits only grow, and only rows it opened itself
\* get an owner.
TablesGrow(r) ==
    \A w \in WalletIds :
        /\ credited'[w] >= credited[w]
        /\ owner'[w] = owner[w] \/ w \in opened[r]

\* A row some transaction has opened is nobody's yet.
LEMMA OpenedRow ==
    ASSUME IInv, NEW r \in Requests, NEW w \in opened[r]
    PROVE  w \in WalletIds /\ owner[w] = None
<1>1. FoundInv(r)
  BY DEF IInv, RequestInv
<1>2. pc[r] \in Working
  BY <1>1 DEF FoundInv
<1>3. dst[r] \in WalletIds /\ owner[dst[r]] = None /\ opened[r] = {dst[r]}
  BY <1>1, <1>2 DEF FoundInv
<1> QED
  BY <1>3

\* The invariant of a request survives the steps of the others.
LEMMA OtherRequest ==
    ASSUME IInv, TypeOK', NEW r \in Requests, NEW o \in Requests \ {r},
           Undisturbed(o), TablesGrow(r)
    PROVE  RequestInv(o)'
<1>1. RequestInv(o) /\ o \in Requests
  BY DEF IInv
<1>2. FoundInv(o)'
  <2>1. src[o] \in WalletIds /\ owner[src[o]] = <<job[o].user, job[o].from>> /\ job[o] \in Jobs /\ job[o].from # None
        => owner'[src[o]] = owner[src[o]]
    <3>1. ASSUME src[o] \in WalletIds, owner[src[o]] # None
          PROVE  src[o] \notin opened[r]
      BY <3>1, OpenedRow
    <3>2. job[o] \in Jobs /\ job[o].from # None => <<job[o].user, job[o].from>> # None
      BY NoneAssumption DEF Jobs
    <3> QED
      BY <3>1, <3>2 DEF TablesGrow
  <2>2. pc[o] \in Working => owner'[dst[o]] = owner[dst[o]]
    <3> SUFFICES ASSUME pc[o] \in Working PROVE owner'[dst[o]] = owner[dst[o]]
      OBVIOUS
    <3>1. dst[o] \in WalletIds /\ job[o] \in Jobs
      BY <1>1 DEF RequestInv, FoundInv, Working, InTransaction
    <3>2. dst[o] \notin opened[r]
      <4>1. CASE opened[o] = {dst[o]}
        BY <4>1, <1>1 DEF IInv, OpenedInv
      <4>2. CASE owner[dst[o]] = <<job[o].user, job[o].to>>
        <5>1. <<job[o].user, job[o].to>> # None
          BY <3>1, NoneAssumption DEF Jobs
        <5> QED
          BY <4>2, <5>1, OpenedRow
      <4> QED
        BY <1>1, <4>1, <4>2 DEF RequestInv, FoundInv
    <3> QED
      BY <3>1, <3>2 DEF TablesGrow
  <2> QED
    BY <1>1, <2>1, <2>2 DEF RequestInv, FoundInv, Undisturbed, Working, InTransaction
<1>3. LegsInv(o)'
  BY <1>1 DEF RequestInv, LegsInv, LegsOf, Undisturbed
<1>4. CreditInv(o)'
  <2>1. pc[o] \in {"save", "update"} =>
          Target(o) \in WalletIds /\ Target(o)' = Target(o) /\ Leg(o)' = Leg(o)
    BY <1>1 DEF RequestInv, FoundInv, LegsInv, Target, Leg, Undisturbed, Working
  <2>2. locked[o] \subseteq WalletIds /\ next[o] \in Nat /\ staged[o] \in [WalletIds -> Nat]
        /\ credited \in [WalletIds -> Nat] /\ credited' \in [WalletIds -> Nat]
        /\ job[o].credit \in Nat
    BY <1>1, BoundsAssumption DEF IInv, TypeOK, Jobs, NoJob
  <2>3. pc'[o] \in {"save", "update"} =>
          next'[o] <= credited'[Target(o)'] + IF Leg(o)' = "credit" THEN job'[o].credit ELSE 0
    BY <1>1, <2>1, <2>2 DEF RequestInv, CreditInv, Undisturbed, TablesGrow
  <2>4. \A w \in locked'[o] :
          staged'[o][w] <= credited'[w]
              + IF "credit" \in legs'[o] /\ w = dst'[o] THEN job'[o].credit ELSE 0
    BY <1>1, <2>2 DEF RequestInv, CreditInv, Undisturbed, TablesGrow
  <2> QED
    BY <2>3, <2>4 DEF CreditInv
<1>5. PostedInv(o)'
  BY <1>1 DEF RequestInv, PostedInv, LegsOf, Undisturbed
<1> QED
  BY <1>2, <1>3, <1>4, <1>5 DEF RequestInv

\* What is left to show of a step of r.
LEMMA OwnStep ==
    ASSUME IInv, NEW r \in Requests,
           \A o \in Requests \ {r} : Undisturbed(o), TablesGrow(r),
           TypeOK', BalanceWithinCredits', RequestInv(r)',
           \A o \in Requests \ {r} : opened'[r] \cap opened[o] = {}
    PROVE  IInv'
<1>1. \A o \in Requests : RequestInv(o)'
  BY OtherRequest
<1>2. OpenedInv'
  BY DEF IInv, OpenedInv, Undisturbed
<1> QED
  BY <1>1, <1>2 DEF IInv

-----------------------------------------------------------------------------
(* One lemma for every action. *)

\* A rollback keeps the invariant: nothing of the transaction remains.
LEMMA RollbackStep ==
    ASSUME IInv, NEW r \in Requests, pc[r] \in InTransaction \cup {"idle"},
           NEW answer \in {"failed", "unconfirmed"}, pc' = [pc EXCEPT ![r] = answer],
           EndTransaction(r), UNCHANGED <<database, activity, job>>
    PROVE  IInv'
<1> USE DEF EndTransaction, database
<1>1. TypeOK'
  <2>1. NoBalances \in [WalletIds -> 0 .. MaxInteger]
    BY BoundsAssumption DEF NoBalances
  <2> QED
    BY <2>1 DEF IInv, TypeOK, Answered
<1>2. BalanceWithinCredits' /\ TablesGrow(r)
  BY DEF IInv, TypeOK, BalanceWithinCredits, TablesGrow
<1>3. ASSUME NEW o \in Requests \ {r} PROVE Undisturbed(o)
  BY DEF IInv, TypeOK, Undisturbed
<1>4. RequestInv(r)'
  <2>1. pc'[r] = answer /\ opened'[r] = {} /\ legs'[r] = {} /\ locked'[r] = {}
    BY DEF IInv, TypeOK
  <2>2. posted'[r] = {} /\ r \notin activity'
    BY DEF IInv, TypeOK, RequestInv, PostedInv, InTransaction
  <2> QED
    BY <2>1, <2>2 DEF RequestInv, FoundInv, LegsInv, CreditInv, PostedInv, Working, InTransaction
<1>5. opened'[r] = {}
  BY DEF IInv, TypeOK
<1> QED
  BY <1>1, <1>2, <1>3, <1>4, <1>5, OwnStep

LEMMA FailStep ==
    ASSUME IInv, NEW r \in Requests, Fail(r), pc[r] \in InTransaction \cup {"idle"}
    PROVE  IInv'
BY RollbackStep DEF Fail

\* So does the start of fundWallet, convertCurrency or trade with any order.
LEMMA BeginStep ==
    ASSUME IInv, NEW r \in Requests, NEW order \in Jobs, Begin(r, order)
    PROVE  IInv'
<1> USE DEF Begin, database, found, writes
<1>1. TypeOK'
  BY DEF IInv, TypeOK, InTransaction
<1>2. BalanceWithinCredits' /\ TablesGrow(r)
  BY DEF IInv, TypeOK, BalanceWithinCredits, TablesGrow
<1>3. ASSUME NEW o \in Requests \ {r} PROVE Undisturbed(o)
  BY DEF IInv, TypeOK, Undisturbed
<1>4. RequestInv(r)'
  <2>1. pc'[r] \in {"find_from", "find_to"} /\ job'[r] = order
        /\ (pc'[r] = "find_to" => order.from = None)
    BY DEF IInv, TypeOK
  <2>2. FoundInv(r) /\ LegsInv(r) /\ PostedInv(r)
    BY DEF IInv, RequestInv
  <2>3. opened[r] = {} /\ legs[r] = {} /\ locked[r] = {} /\ posted[r] = {} /\ r \notin activity
    BY <2>2 DEF FoundInv, LegsInv, PostedInv, Working
  <2> QED
    BY <2>1, <2>3 DEF RequestInv, FoundInv, LegsInv, CreditInv, PostedInv, Working, InTransaction
<1>5. opened'[r] = opened[r]
  OBVIOUS
<1> QED
  BY <1>1, <1>2, <1>3, <1>4, <1>5, OwnStep DEF IInv, OpenedInv

\* So does every way a request can start.
LEMMA SubmitStep ==
    ASSUME IInv, NEW r \in Requests, Submit(r)
    PROVE  IInv'
<1>1. ASSUME NEW u \in Users, NEW from \in Currencies, NEW to \in Currencies, NEW amount \in Nat,
             MoveMoney(r, u, from, to, amount)
      PROVE  IInv'
  <2>1. PICK rate \in RatesFor(from, to) : \E worth \in ConvertedAmounts(amount, rate) :
           Begin(r, [user |-> u, from |-> from, to |-> to, debit |-> amount, credit |-> worth])
    BY <1>1 DEF MoveMoney
  <2>2. PICK worth \in ConvertedAmounts(amount, rate) :
           Begin(r, [user |-> u, from |-> from, to |-> to, debit |-> amount, credit |-> worth])
    BY <2>1
  <2>3. worth \in Nat
    BY <2>2 DEF ConvertedAmounts
  <2>4. [user |-> u, from |-> from, to |-> to, debit |-> amount, credit |-> worth] \in Jobs
    BY <2>3, <1>1 DEF Jobs
  <2> QED
    BY <2>2, <2>4, BeginStep
<1>2. CASE FundWallet(r)
  <2>1. PICK u \in Users, c \in Currencies, amount \in Amounts :
           Begin(r, [user |-> u, from |-> None, to |-> c, debit |-> 0, credit |-> amount])
    BY <1>2 DEF FundWallet
  <2>2. [user |-> u, from |-> None, to |-> c, debit |-> 0, credit |-> amount] \in Jobs
    BY <2>1, AmountsAssumption DEF Jobs
  <2> QED
    BY <2>1, <2>2, BeginStep
<1>3. CASE ConvertCurrency(r)
  BY <1>1, <1>3, AmountsAssumption DEF ConvertCurrency
<1>4. CASE Trade(r)
  <2>1. PICK u \in Users, base \in Currencies, quote \in Currencies :
           \/ \E amount \in Amounts : MoveMoney(r, u, base, quote, amount)
           \/ \E amount \in Purchases, rate \in RatesFor(quote, base) :
                 \E cost \in BuyCosts(amount, rate) : MoveMoney(r, u, quote, base, cost)
    BY <1>4 DEF Trade
  <2>2. ASSUME NEW amount \in Amounts, MoveMoney(r, u, base, quote, amount)
        PROVE  IInv'
    BY <2>1, <2>2, <1>1, AmountsAssumption
  <2>3. ASSUME NEW amount \in Purchases, NEW rate \in RatesFor(quote, base),
               NEW cost \in BuyCosts(amount, rate), MoveMoney(r, u, quote, base, cost)
        PROVE  IInv'
    <3>1. cost \in Nat
      BY <2>3 DEF BuyCosts
    <3> QED
      BY <2>1, <2>3, <3>1, <1>1
  <2> QED
    BY <2>1, <2>2, <2>3
<1>5. CASE RefuseOrder(r)
  BY <1>5, FailStep DEF RefuseOrder
<1> QED
  BY <1>2, <1>3, <1>4, <1>5 DEF Submit

\* So does findOne of the wallet to debit: it returns a wallet of the order's user.
LEMMA FindFromStep ==
    ASSUME IInv, NEW r \in Requests, FindFrom(r)
    PROVE  IInv'
<1> USE DEF FindFrom, database, writes
<1>1. PICK w \in WalletsOf(job[r].user, job[r].from) : src' = [src EXCEPT ![r] = w]
  OBVIOUS
<1>2. w \in WalletIds /\ owner[w] = <<job[r].user, job[r].from>>
  BY <1>1 DEF WalletsOf
<1>3. TypeOK'
  BY <1>1, <1>2 DEF IInv, TypeOK, InTransaction
<1>4. BalanceWithinCredits' /\ TablesGrow(r)
  BY DEF IInv, TypeOK, BalanceWithinCredits, TablesGrow
<1>5. ASSUME NEW o \in Requests \ {r} PROVE Undisturbed(o)
  BY <1>1 DEF IInv, TypeOK, Undisturbed
<1>6. RequestInv(r)'
  <2>1. pc'[r] = "find_to" /\ src'[r] = w
    BY <1>1 DEF IInv, TypeOK
  <2>2. FoundInv(r) /\ LegsInv(r) /\ PostedInv(r)
    BY DEF IInv, RequestInv
  <2>3. opened[r] = {} /\ legs[r] = {} /\ locked[r] = {} /\ posted[r] = {} /\ r \notin activity
        /\ job[r] \in Jobs
    BY <2>2 DEF FoundInv, LegsInv, PostedInv, Working, InTransaction
  <2> QED
    BY <1>2, <2>1, <2>3 DEF RequestInv, FoundInv, LegsInv, CreditInv, PostedInv, Working, InTransaction
<1> QED
  BY <1>3, <1>4, <1>5, <1>6, OwnStep DEF IInv, OpenedInv

\* The wallet the money goes to is found, or opened: w is free, or the user's.
LEMMA DestinationStep ==
    ASSUME IInv, NEW r \in Requests, NEW w \in WalletIds, NEW row \in SUBSET {w},
           pc[r] = "find_to",
           \/ owner[w] = <<job[r].user, job[r].to>> /\ row = {}
           \/ owner[w] = None /\ row = {w} /\ \A o \in Requests : w \notin opened[o],
           dst' = [dst EXCEPT ![r] = w],
           opened' = [opened EXCEPT ![r] = row],
           pc' = [pc EXCEPT ![r] = "read"],
           UNCHANGED <<database, activity, job, src, next, locked, staged, legs>>
    PROVE  IInv'
<1> USE DEF database
<1>1. TypeOK'
  BY DEF IInv, TypeOK, InTransaction
<1>2. BalanceWithinCredits' /\ TablesGrow(r)
  BY DEF IInv, TypeOK, BalanceWithinCredits, TablesGrow
<1>3. ASSUME NEW o \in Requests \ {r} PROVE Undisturbed(o)
  BY DEF IInv, TypeOK, Undisturbed
<1>4. RequestInv(r)'
  <2>1. pc'[r] = "read" /\ dst'[r] = w /\ opened'[r] = row
    BY DEF IInv, TypeOK
  <2>2. FoundInv(r) /\ LegsInv(r) /\ PostedInv(r)
    BY DEF IInv, RequestInv
  <2>3. legs[r] = {} /\ locked[r] = {} /\ posted[r] = {} /\ r \notin activity /\ job[r] \in Jobs
    BY <2>2 DEF FoundInv, LegsInv, PostedInv, Working, InTransaction
  <2>4. FoundInv(r)'
    BY <2>1, <2>2, <2>3 DEF FoundInv, Working, InTransaction
  <2> QED
    BY <2>1, <2>3, <2>4 DEF RequestInv, LegsInv, CreditInv, PostedInv, Working, InTransaction
<1>5. \A o \in Requests \ {r} : opened'[r] \cap opened[o] = {}
  BY DEF IInv, TypeOK
<1> QED
  BY <1>1, <1>2, <1>3, <1>4, <1>5, OwnStep

\* So does findOne of the wallet to credit, or the create() in its place.
LEMMA FindToStep ==
    ASSUME IInv, NEW r \in Requests, FindTo(r) \/ OpenWallet(r)
    PROVE  IInv'
<1>1. CASE FindTo(r)
  <2>1. PICK w \in WalletsOf(job[r].user, job[r].to) : dst' = [dst EXCEPT ![r] = w]
    BY <1>1 DEF FindTo
  <2>2. w \in WalletIds /\ owner[w] = <<job[r].user, job[r].to>>
    BY <2>1 DEF WalletsOf
  <2>3. opened[r] = {}
    BY <1>1 DEF IInv, RequestInv, FoundInv, Working, FindTo
  <2>4. opened' = [opened EXCEPT ![r] = {}]
    BY <1>1, <2>3 DEF FindTo, writes, IInv, TypeOK
  <2> QED
    BY <1>1, <2>1, <2>2, <2>4, DestinationStep DEF FindTo, writes
<1>2. CASE OpenWallet(r)
  <2>1. PICK w \in WalletIds :
          /\ owner[w] = None
          /\ \A o \in Requests : w \notin opened[o]
          /\ dst' = [dst EXCEPT ![r] = w]
          /\ opened' = [opened EXCEPT ![r] = {w}]
    BY <1>2 DEF OpenWallet
  <2> QED
    BY <1>2, <2>1, DestinationStep DEF OpenWallet
<1> QED
  BY <1>1, <1>2

\* A SELECT returns a balance within the credits there are, and those of its own
\* transaction.
LEMMA VisibleBalance ==
    ASSUME IInv, NEW r \in Requests, NEW w \in WalletIds
    PROVE  /\ Visible(r, w) \in 0 .. MaxInteger
           /\ Visible(r, w) <= credited[w]
                + IF "credit" \in legs[r] /\ w = dst[r] THEN job[r].credit ELSE 0
<1>1. CreditInv(r) /\ balance[w] <= credited[w]
  BY DEF IInv, RequestInv, BalanceWithinCredits
<1>2. job[r].credit \in Nat /\ credited[w] \in Nat /\ balance[w] \in 0 .. MaxInteger
      /\ staged[r][w] \in 0 .. MaxInteger
  BY DEF IInv, TypeOK, Jobs, NoJob
<1> QED
  BY <1>1, <1>2, BoundsAssumption DEF Visible, CreditInv

\* The leg a transaction works on has a wallet.
LEMMA TargetWallet ==
    ASSUME IInv, NEW r \in Requests, pc[r] \in {"read", "save", "update"}
    PROVE  /\ Target(r) \in WalletIds
           /\ Target(r) = dst[r] \/ (Target(r) = src[r] /\ job[r].from # None)
           /\ Leg(r) = "credit" => Target(r) = dst[r]
           /\ Leg(r) = "debit" => Target(r) = src[r] /\ job[r].from # None
           /\ Leg(r) \in Flows
  BY DEF IInv, RequestInv, FoundInv, Target, Leg, Working, Flows

\* So does the SELECT of debit() or credit(): the next balance is within the
\* credits the wallet will have once this transaction commits.
LEMMA ReadBalanceStep ==
    ASSUME IInv, NEW r \in Requests, ReadBalance(r)
    PROVE  IInv'
<1> USE DEF ReadBalance, database, found, writes
<1> DEFINE n == IF Leg(r) = "debit" THEN Visible(r, Target(r)) - job[r].debit
                                  ELSE Visible(r, Target(r)) + job[r].credit
<1>1. /\ next' = [next EXCEPT ![r] = n]
      /\ n \in Nat
      /\ n <= credited[Target(r)] + IF Leg(r) = "credit" THEN job[r].credit ELSE 0
  <2>1. Target(r) \in WalletIds /\ (Leg(r) = "credit" => Target(r) = dst[r])
        /\ (Leg(r) = "debit" => Target(r) = src[r]) /\ Leg(r) \in Flows
    BY TargetWallet
  <2>2. Visible(r, Target(r)) \in Nat /\ Visible(r, Target(r)) <= credited[Target(r)]
    <3>1. "credit" \notin legs[r]
      BY DEF IInv, RequestInv, LegsInv
    <3>2. credited[Target(r)] \in Nat
      BY <2>1 DEF IInv, TypeOK
    <3> QED
      BY <2>1, <3>1, <3>2, VisibleBalance, BoundsAssumption
  <2>3. job[r].debit \in Nat /\ job[r].credit \in Nat /\ credited[Target(r)] \in Nat
    BY <2>1 DEF IInv, TypeOK, Jobs, NoJob
  <2>4. CASE Leg(r) = "debit"
    <3>1. Visible(r, Target(r)) >= job[r].debit /\ next' = [next EXCEPT ![r] = n]
      BY <2>1, <2>4
    <3> QED
      BY <2>2, <2>3, <2>4, <3>1
  <2>5. CASE Leg(r) = "credit"
    <3>1. next' = [next EXCEPT ![r] = n]
      BY <2>1, <2>5
    <3> QED
      BY <2>2, <2>3, <2>5, <3>1
  <2> QED
    BY <2>1, <2>4, <2>5 DEF Flows
<1> HIDE DEF n
<1>2. TypeOK'
  BY <1>1 DEF IInv, TypeOK, InTransaction
<1>3. BalanceWithinCredits' /\ TablesGrow(r)
  BY DEF IInv, TypeOK, BalanceWithinCredits, TablesGrow
<1>4. ASSUME NEW o \in Requests \ {r} PROVE Undisturbed(o)
  BY <1>1 DEF IInv, TypeOK, Undisturbed
<1>5. RequestInv(r)'
  <2>1. pc'[r] = "save" /\ next'[r] = n /\ Target(r)' = Target(r) /\ Leg(r)' = Leg(r)
    BY <1>1 DEF IInv, TypeOK, Target, Leg
  <2>2. FoundInv(r) /\ LegsInv(r) /\ CreditInv(r) /\ PostedInv(r)
    BY DEF IInv, RequestInv
  <2>3. FoundInv(r)' /\ LegsInv(r)' /\ PostedInv(r)'
    BY <2>1, <2>2 DEF FoundInv, LegsInv, PostedInv, Working, InTransaction
  <2>4. CreditInv(r)'
    BY <1>1, <2>1, <2>2 DEF CreditInv
  <2> QED
    BY <2>3, <2>4 DEF RequestInv
<1> QED
  BY <1>2, <1>3, <1>4, <1>5, OwnStep DEF IInv, OpenedInv

\* So does the SELECT of save().
LEMMA NeedUpdateStep ==
    ASSUME IInv, NEW r \in Requests, NeedUpdate(r)
    PROVE  IInv'
<1> USE DEF NeedUpdate, database, found, writes
<1>1. TypeOK'
  BY DEF IInv, TypeOK, InTransaction
<1>2. BalanceWithinCredits' /\ TablesGrow(r)
  BY DEF IInv, TypeOK, BalanceWithinCredits, TablesGrow
<1>3. ASSUME NEW o \in Requests \ {r} PROVE Undisturbed(o)
  BY DEF IInv, TypeOK, Undisturbed
<1>4. RequestInv(r)'
  <2>1. pc'[r] = "update" /\ Target(r)' = Target(r) /\ Leg(r)' = Leg(r)
    BY DEF IInv, TypeOK, Target, Leg
  <2>2. FoundInv(r) /\ LegsInv(r) /\ CreditInv(r) /\ PostedInv(r)
    BY DEF IInv, RequestInv
  <2> QED
    BY <2>1, <2>2 DEF RequestInv, FoundInv, LegsInv, CreditInv, PostedInv, Working, InTransaction
<1> QED
  BY <1>1, <1>2, <1>3, <1>4, OwnStep DEF IInv, OpenedInv

\* The end of a leg, whether or not its UPDATE was needed.
LEMMA PostLegStep ==
    ASSUME IInv, NEW r \in Requests, PostLeg(r), pc[r] \in {"save", "update"},
           UNCHANGED <<database, activity, job, found, next, opened>>,
           \/ UNCHANGED <<locked, staged>>
           \/ /\ next[r] \in 0 .. MaxInteger
              /\ locked' = [locked EXCEPT ![r] = @ \cup {Target(r)}]
              /\ staged' = [staged EXCEPT ![r][Target(r)] = next[r]]
    PROVE  IInv'
<1> USE DEF PostLeg, database, found
<1>1. Target(r) \in WalletIds
      /\ (Target(r) = dst[r] \/ (Target(r) = src[r] /\ job[r].from # None))
      /\ (Leg(r) = "credit" => Target(r) = dst[r])
      /\ (Leg(r) = "debit" => Target(r) = src[r] /\ job[r].from # None)
      /\ Leg(r) \in Flows
  BY TargetWallet
<1>2. TypeOK'
  <2>1. locked' \in [Requests -> SUBSET WalletIds]
    <3>1. locked[r] \cup {Target(r)} \in SUBSET WalletIds /\ locked \in [Requests -> SUBSET WalletIds]
      BY <1>1 DEF IInv, TypeOK
    <3> QED
      BY <3>1
  <2>2. staged' \in [Requests -> [WalletIds -> 0 .. MaxInteger]]
    <3>1. CASE UNCHANGED staged
      BY <3>1 DEF IInv, TypeOK
    <3>2. CASE /\ next[r] \in 0 .. MaxInteger
               /\ staged' = [staged EXCEPT ![r][Target(r)] = next[r]]
      BY <1>1, <3>2 DEF IInv, TypeOK
    <3> QED
      BY <3>1, <3>2
  <2>3. legs' \in [Requests -> SUBSET Flows]
    BY <1>1 DEF IInv, TypeOK
  <2> QED
    BY <2>1, <2>2, <2>3 DEF IInv, TypeOK, InTransaction
<1>3. BalanceWithinCredits' /\ TablesGrow(r)
  BY DEF IInv, TypeOK, BalanceWithinCredits, TablesGrow
<1>4. ASSUME NEW o \in Requests \ {r} PROVE Undisturbed(o)
  BY DEF IInv, TypeOK, Undisturbed
<1>5. RequestInv(r)'
  <2>1. pc'[r] = (IF Leg(r) = "debit" THEN "read" ELSE "commit")
        /\ legs'[r] = legs[r] \cup {Leg(r)}
    BY DEF IInv, TypeOK
  <2>2. FoundInv(r) /\ LegsInv(r) /\ CreditInv(r) /\ PostedInv(r)
    BY DEF IInv, RequestInv
  <2>3. FoundInv(r)'
    BY <2>1, <2>2 DEF FoundInv, Working, InTransaction
  <2>4. PostedInv(r)'
    BY <2>1, <2>2 DEF PostedInv, InTransaction
  <2>5. \A w \in locked'[r] : w \in locked[r] \/ w = Target(r)
    BY DEF IInv, TypeOK
  <2>6. LegsInv(r)'
    <3>1. legs[r] \subseteq Flows
      BY DEF IInv, TypeOK
    <3>2. Leg(r) = "debit" => legs'[r] = {"debit"}
      BY <2>1, <2>2, <3>1 DEF LegsInv, Flows
    <3>3. Leg(r) = "credit" => legs'[r] = LegsOf(r)
      BY <2>1, <2>2, <3>1 DEF LegsInv, LegsOf, Leg, Flows
    <3> QED
      BY <1>1, <2>1, <2>2, <2>5, <3>2, <3>3 DEF LegsInv, Working, Flows, LegsOf
  <2>7. CreditInv(r)'
    <3>1. \A w \in locked[r] : w \in WalletIds /\ staged[r][w] \in Nat /\ credited[w] \in Nat
      BY BoundsAssumption DEF IInv, TypeOK
    <3>2. job[r].credit \in Nat /\ credited[Target(r)] \in Nat /\ next[r] \in Nat
      BY <1>1 DEF IInv, TypeOK, Jobs, NoJob
    <3>3. ASSUME NEW w \in locked[r], w # Target(r)
          PROVE  staged'[r][w] = staged[r][w]
      BY <1>1, <3>3 DEF IInv, TypeOK
    <3>4. Target(r) \in locked'[r] =>
             \/ staged'[r][Target(r)] = next[r]
             \/ Target(r) \in locked[r] /\ staged'[r][Target(r)] = staged[r][Target(r)]
      BY <1>1 DEF IInv, TypeOK
    <3>5. ASSUME NEW w \in locked'[r]
          PROVE  staged'[r][w] <= credited[w]
                    + IF "credit" \in legs'[r] /\ w = dst[r] THEN job[r].credit ELSE 0
      <4>1. "credit" \notin legs[r]
        BY <2>2 DEF LegsInv
      <4>2. w \in locked[r] => staged[r][w] <= credited[w]
        BY <2>2, <3>1, <3>2, <4>1 DEF CreditInv
      <4>3. next[r] <= credited[Target(r)] + IF Leg(r) = "credit" THEN job[r].credit ELSE 0
        BY <2>2 DEF CreditInv
      <4>4. "credit" \in legs'[r] <=> Leg(r) = "credit"
        BY <2>1, <4>1
      <4>5. CASE w = Target(r)
        BY <1>1, <3>1, <3>2, <3>4, <4>2, <4>3, <4>4, <4>5
      <4>6. CASE w # Target(r)
        BY <2>5, <3>1, <3>2, <3>3, <4>2, <4>6
      <4> QED
        BY <4>5, <4>6
    <3> QED
      BY <2>1, <3>5 DEF CreditInv
  <2> QED
    BY <2>3, <2>4, <2>6, <2>7 DEF RequestInv
<1> QED
  BY <1>2, <1>3, <1>4, <1>5, OwnStep DEF IInv, OpenedInv

\* So does COMMIT: every staged balance is covered by a credit committed with it.
\* So it does when its answer is lost.
LEMMA CommitStep ==
    ASSUME IInv, NEW r \in Requests, pc[r] = "commit", NEW next_pc \in {"publish", "unconfirmed"},
           MakeVisible(r), EndTransaction(r), pc' = [pc EXCEPT ![r] = next_pc],
           UNCHANGED <<activity, job>>
    PROVE  IInv'
<1> USE DEF MakeVisible, EndTransaction
<1>1. FoundInv(r) /\ LegsInv(r) /\ PostedInv(r) /\ pc[r] = "commit"
  BY DEF IInv, RequestInv
<1>2. job[r] \in Jobs /\ legs[r] = LegsOf(r) /\ dst[r] \in WalletIds
  BY <1>1 DEF FoundInv, LegsInv, Working, InTransaction
<1>3. /\ pc'[r] = next_pc /\ posted'[r] = LegsOf(r)
      /\ opened'[r] = {} /\ legs'[r] = {} /\ locked'[r] = {}
      /\ \A o \in Requests \ {r} :
            /\ pc'[o] = pc[o] /\ posted'[o] = posted[o] /\ src'[o] = src[o]
            /\ dst'[o] = dst[o] /\ next'[o] = next[o] /\ opened'[o] = opened[o]
            /\ locked'[o] = locked[o] /\ staged'[o] = staged[o] /\ legs'[o] = legs[o]
      /\ job' = job /\ activity' = activity
  BY <1>2 DEF IInv, TypeOK
<1>4. \A w \in WalletIds :
        /\ balance'[w] = Visible(r, w)
        /\ owner'[w] = IF w \in opened[r] THEN <<job[r].user, job[r].to>> ELSE owner[w]
        /\ credited'[w] = credited[w]
              + IF "credit" \in legs[r] /\ w = dst[r] THEN job[r].credit ELSE 0
  OBVIOUS
<1>5. TypeOK'
  <2>1. job[r].credit \in Nat /\ job[r].debit \in Nat
        /\ <<job[r].user, job[r].to>> \in Users \X Currencies
    BY <1>2 DEF Jobs
  <2>2. owner' \in [WalletIds -> (Users \X Currencies) \cup {None}]
    BY <2>1 DEF IInv, TypeOK
  <2>3. balance' \in [WalletIds -> 0 .. MaxInteger]
    BY VisibleBalance
  <2>4. credited' \in [WalletIds -> Nat]
    BY <2>1 DEF IInv, TypeOK
  <2>5. debited' \in [WalletIds -> Nat]
    BY <2>1 DEF IInv, TypeOK
  <2>6. posted' \in [Requests -> SUBSET Flows]
    BY DEF IInv, TypeOK
  <2>7. staged' \in [Requests -> [WalletIds -> 0 .. MaxInteger]]
    <3>1. NoBalances \in [WalletIds -> 0 .. MaxInteger]
      BY BoundsAssumption DEF NoBalances
    <3> QED
      BY <3>1 DEF IInv, TypeOK
  <2>8. pc' \in [Requests -> {"idle", "publish"} \cup InTransaction \cup Answered]
    BY DEF IInv, TypeOK, Answered
  <2>9. /\ opened' \in [Requests -> SUBSET WalletIds] /\ locked' \in [Requests -> SUBSET WalletIds]
        /\ legs' \in [Requests -> SUBSET Flows] /\ next' \in [Requests -> Nat]
        /\ src' \in [Requests -> WalletIds \cup {None}] /\ dst' \in [Requests -> WalletIds \cup {None}]
    BY DEF IInv, TypeOK
  <2> QED
    BY <2>2, <2>3, <2>4, <2>5, <2>6, <2>7, <2>8, <2>9 DEF IInv, TypeOK
<1>6. BalanceWithinCredits'
  BY <1>4, VisibleBalance DEF BalanceWithinCredits
<1>7. TablesGrow(r)
  <2>1. job[r].credit \in Nat /\ credited \in [WalletIds -> Nat]
    BY <1>2 DEF Jobs, IInv, TypeOK
  <2> QED
    BY <1>4, <2>1 DEF TablesGrow
<1>8. ASSUME NEW o \in Requests \ {r} PROVE Undisturbed(o)
  BY <1>3 DEF Undisturbed
<1>9. RequestInv(r)'
  <2>1. r \notin activity
    BY <1>1 DEF PostedInv
  <2> QED
    BY <1>2, <1>3, <2>1 DEF RequestInv, FoundInv, LegsInv, CreditInv, PostedInv,
                            LegsOf, Working, InTransaction
<1> QED
  BY <1>3, <1>5, <1>6, <1>7, <1>8, <1>9, OwnStep

\* A COMMIT without an answer is one of the two.
LEMMA UnansweredStep ==
    ASSUME IInv, NEW r \in Requests, CommitUnanswered(r)
    PROVE  IInv'
<1>1. pc[r] \in InTransaction
  BY DEF CommitUnanswered, InTransaction
<1>2. CASE MakeVisible(r)
  BY <1>2, CommitStep DEF CommitUnanswered
<1>3. CASE UNCHANGED database
  BY <1>1, <1>3, RollbackStep DEF CommitUnanswered
<1> QED
  BY <1>2, <1>3 DEF CommitUnanswered

\* The activity is published, or it is not.
LEMMA PublishStep ==
    ASSUME IInv, NEW r \in Requests, PublishActivity(r) \/ PublishFails(r)
    PROVE  IInv'
<1> USE DEF PublishActivity, PublishFails, database, found, writes
<1>1. TypeOK'
  BY DEF IInv, TypeOK, Answered
<1>2. BalanceWithinCredits' /\ TablesGrow(r)
  BY DEF IInv, TypeOK, BalanceWithinCredits, TablesGrow
<1>3. ASSUME NEW o \in Requests \ {r} PROVE Undisturbed(o)
  BY DEF IInv, TypeOK, Undisturbed
<1>4. RequestInv(r)'
  <2>1. FoundInv(r) /\ LegsInv(r) /\ PostedInv(r)
    BY DEF IInv, RequestInv
  <2>2. \/ pc'[r] = "ok" /\ r \in activity'
        \/ pc'[r] = "unconfirmed" /\ r \notin activity'
    BY <2>1 DEF PostedInv, IInv, TypeOK
  <2>3. opened[r] = {} /\ legs[r] = {} /\ locked[r] = {} /\ posted[r] = LegsOf(r)
    BY <2>1 DEF FoundInv, LegsInv, PostedInv, Working
  <2> QED
    BY <2>2, <2>3 DEF RequestInv, FoundInv, LegsInv, CreditInv, PostedInv,
                      LegsOf, Working, InTransaction
<1> QED
  BY <1>1, <1>2, <1>3, <1>4, OwnStep DEF IInv, OpenedInv

\* So does the death of the process, before or after the commit.
LEMMA CrashStep ==
    ASSUME IInv, NEW r \in Requests, Crash(r)
    PROVE  IInv'
<1> USE DEF Crash, EndTransaction, database
<1>1. TypeOK'
  <2>1. NoBalances \in [WalletIds -> 0 .. MaxInteger]
    BY BoundsAssumption DEF NoBalances
  <2> QED
    BY <2>1 DEF IInv, TypeOK, Answered
<1>2. BalanceWithinCredits' /\ TablesGrow(r)
  BY DEF IInv, TypeOK, BalanceWithinCredits, TablesGrow
<1>3. ASSUME NEW o \in Requests \ {r} PROVE Undisturbed(o)
  BY DEF IInv, TypeOK, Undisturbed
<1>4. RequestInv(r)'
  <2>1. pc'[r] = "crashed" /\ opened'[r] = {} /\ legs'[r] = {} /\ locked'[r] = {}
    BY DEF IInv, TypeOK
  <2>2. PostedInv(r) /\ pc[r] \in InTransaction \cup {"publish"}
    BY DEF IInv, RequestInv, InFlight
  <2>3. posted'[r] \in {{}, LegsOf(r)} /\ r \notin activity' /\ LegsOf(r)' = LegsOf(r)
    BY <2>2 DEF PostedInv, InTransaction, LegsOf
  <2> QED
    BY <2>1, <2>3 DEF RequestInv, FoundInv, LegsInv, CreditInv, PostedInv, Working, InTransaction
<1>5. opened'[r] = {}
  BY DEF IInv, TypeOK
<1> QED
  BY <1>1, <1>2, <1>3, <1>4, <1>5, OwnStep

-----------------------------------------------------------------------------
(* The invariant, and what follows from it. *)

\* The wallet tables of a sign-up satisfy the invariant.
LEMMA InitIInv == Init => IInv
<1> SUFFICES ASSUME Init PROVE IInv
  OBVIOUS
<1> USE DEF Init
<1>1. TypeOK
  <2>1. NoBalances \in [WalletIds -> 0 .. MaxInteger] /\ NoBalances \in [WalletIds -> Nat]
        /\ Deposits \in [WalletIds -> Nat]
    BY BoundsAssumption, OpeningAssumption DEF NoBalances
  <2> QED
    BY <2>1, OpeningAssumption DEF TypeOK
<1>2. BalanceWithinCredits
  BY OpeningAssumption, BoundsAssumption DEF BalanceWithinCredits
<1>3. OpenedInv
  BY DEF OpenedInv
<1>4. ASSUME NEW r \in Requests PROVE RequestInv(r)
  BY DEF RequestInv, FoundInv, LegsInv, CreditInv, PostedInv, Working, InTransaction
<1> QED
  BY <1>1, <1>2, <1>3, <1>4 DEF IInv

\* Every step of every request keeps it.
LEMMA NextIInv == IInv /\ [Next]_vars => IInv'
<1> SUFFICES ASSUME IInv, [Next]_vars PROVE IInv'
  OBVIOUS
<1>1. ASSUME NEW r \in Requests, Progress(r) PROVE IInv'
  <2>1. ASSUME NoSourceWallet(r) \/ InsufficientFunds(r) \/ OutOfRange(r) PROVE IInv'
    BY <2>1, FailStep DEF NoSourceWallet, InsufficientFunds, OutOfRange, InTransaction
  <2>2. CASE SkipUpdate(r)
    BY <2>2, PostLegStep DEF SkipUpdate, database, found
  <2>3. CASE UpdateBalance(r)
    <3>1. next[r] \in 0 .. MaxInteger
      BY <2>3 DEF UpdateBalance, IInv, TypeOK
    <3> QED
      BY <2>3, <3>1, PostLegStep DEF UpdateBalance, database, found
  <2> QED
    BY <1>1, <2>1, <2>2, <2>3, FindFromStep, FindToStep, ReadBalanceStep, NeedUpdateStep,
       CommitStep, PublishStep DEF Progress, Commit
<1>2. ASSUME NEW r \in Requests, DeadlockVictim(r) PROVE IInv'
  <2>1. pc[r] = "update"
    BY <1>2 DEF DeadlockVictim, WaitsFor
  <2> QED
    BY <1>2, <2>1, FailStep DEF DeadlockVictim, InTransaction
<1>3. ASSUME NEW r \in Requests, StatementFails(r) PROVE IInv'
  BY <1>3, FailStep DEF StatementFails
<1>4. CASE UNCHANGED vars
  <2>1. \A r \in Requests : RequestInv(r) => RequestInv(r)'
    BY <1>4 DEF vars, database, found, writes, RequestInv, FoundInv, LegsInv, CreditInv,
                PostedInv, Target, Leg, LegsOf
  <2>2. TypeOK' /\ BalanceWithinCredits' /\ OpenedInv'
    BY <1>4 DEF vars, database, found, writes, IInv, TypeOK, BalanceWithinCredits, OpenedInv
  <2> QED
    BY <2>1, <2>2 DEF IInv
<1> QED
  BY <1>1, <1>2, <1>3, <1>4, SubmitStep, UnansweredStep, PublishStep, CrashStep
     DEF Next, Finished

\* The strengthening of the safety properties holds in every reachable state.
THEOREM Invariance == Safety => []IInv
<1> QED
  BY InitIInv, NextIInv, PTL DEF Safety

\* Every variable keeps its type: in particular the balances of the wallet table
\* stay between 0 and the largest integer of the column, through every
\* interleaving of debit() and credit().
THEOREM TypeCorrect == Safety => []TypeOK
<1>1. IInv => TypeOK
  BY DEF IInv
<1> QED
  BY <1>1, Invariance, PTL

\* No wallet ever holds more than its credits: updates can be lost, money cannot
\* be made by it.
THEOREM NoMoneyFromRaces == Safety => []BalanceWithinCredits
<1>1. IInv => BalanceWithinCredits
  BY DEF IInv
<1> QED
  BY <1>1, Invariance, PTL

\* The answer to a request agrees with the rows it left in the transaction table: all of
\* them after a success, none after an error from before COMMIT, and all or none after
\* one from COMMIT on, when the code itself does not know.
THEOREM AnswersCorrect == Safety => []AnswersMatchLedger
<1>1. IInv => AnswersMatchLedger
  BY DEF IInv, RequestInv, PostedInv, AnswersMatchLedger
<1> QED
  BY <1>1, Invariance, PTL

-----------------------------------------------------------------------------
(* Wallets implements the ledger. *)

\* The wallet a posting takes from: there is none for money from outside.
PaidFrom(r) == IF job[r].from = None THEN dst[r] ELSE src[r]

\* PostgreSQL commits the transaction of r, and the answer arrives or not.
Commits(r) ==
    /\ pc[r] = "commit"
    /\ MakeVisible(r)
    /\ \E answer \in {"publish", "unconfirmed"} : pc' = [pc EXCEPT ![r] = answer]
    /\ EndTransaction(r)
    /\ UNCHANGED <<activity, job>>

\* The commit of a request is a posting of the ledger.
LEMMA CommitPosts ==
    ASSUME IInv, NEW r \in Requests, Commits(r)
    PROVE  /\ L!Post(r, PaidFrom(r), dst[r])
           /\ PaidFrom(r) \in WalletIds /\ dst[r] \in WalletIds
<1> USE DEF MakeVisible, Commits
<1>1. FoundInv(r) /\ LegsInv(r) /\ PostedInv(r) /\ TypeOK /\ IInv'
  BY CommitStep DEF IInv, RequestInv
<1>2. job[r] \in Jobs /\ legs[r] = LegsOf(r) /\ posted[r] = {} /\ dst[r] \in WalletIds
      /\ \/ owner[dst[r]] = <<job[r].user, job[r].to>> /\ opened[r] = {}
         \/ owner[dst[r]] = None /\ opened[r] = {dst[r]}
  BY <1>1 DEF FoundInv, LegsInv, PostedInv, Working, InTransaction
<1> DEFINE from == IF job[r].from = None THEN dst[r] ELSE src[r]
<1>3. from \in WalletIds
  BY <1>1, <1>2 DEF FoundInv, Working
<1>4. IF job[r].from = None
      THEN /\ posted' = [posted EXCEPT ![r] = {"credit"}]
           /\ debited' = debited
      ELSE /\ owner[from] = <<job[r].user, job[r].from>>
           /\ posted' = [posted EXCEPT ![r] = {"debit", "credit"}]
           /\ debited' = [debited EXCEPT ![from] = @ + job[r].debit]
  <2>1. CASE job[r].from = None
    <3>1. legs[r] = {"credit"}
      BY <1>2, <2>1 DEF LegsOf
    <3>2. debited' = debited
      BY <1>1, <3>1 DEF TypeOK
    <3> QED
      BY <2>1, <3>1, <3>2
  <2>2. CASE job[r].from # None
    <3>1. legs[r] = {"debit", "credit"}
      BY <1>2, <2>2 DEF LegsOf, Flows
    <3>2. owner[src[r]] = <<job[r].user, job[r].from>>
      BY <1>1, <2>2 DEF FoundInv, Working
    <3>3. debited' = [debited EXCEPT ![src[r]] = @ + job[r].debit]
      <4>1. job[r].debit \in Nat /\ debited \in [WalletIds -> Nat]
        BY <1>1, <1>2 DEF TypeOK, Jobs
      <4>2. \A w \in WalletIds :
               debited'[w] = IF w = src[r] THEN debited[w] + job[r].debit ELSE debited[w]
        BY <3>1, <4>1
      <4>3. debited' = [w \in WalletIds |-> debited'[w]]
        OBVIOUS
      <4> QED
        BY <4>1, <4>2, <4>3
    <3> QED
      BY <2>2, <3>1, <3>2, <3>3
  <2> QED
    BY <2>1, <2>2
<1>5. owner' = [owner EXCEPT ![dst[r]] = <<job[r].user, job[r].to>>]
  BY <1>1, <1>2 DEF TypeOK
<1>6. credited' = [credited EXCEPT ![dst[r]] = @ + job[r].credit]
  <2>1. "credit" \in legs[r]
    BY <1>2 DEF LegsOf, Flows
  <2>2. job[r].credit \in Nat /\ credited \in [WalletIds -> Nat]
    BY <1>1, <1>2 DEF TypeOK, Jobs
  <2>3. \A w \in WalletIds :
           credited'[w] = IF w = dst[r] THEN credited[w] + job[r].credit ELSE credited[w]
    BY <2>1, <2>2
  <2>4. credited' = [w \in WalletIds |-> credited'[w]]
    OBVIOUS
  <2> QED
    BY <2>2, <2>3, <2>4
<1>7. ASSUME NEW w \in WalletIds
      PROVE  /\ balance'[w] # balance[w] => w = dst[r] \/ (w = from /\ job[r].from # None)
             /\ balance'[w] \in 0 .. credited'[w]
  <2>1. balance'[w] = Visible(r, w)
    OBVIOUS
  <2>2. balance'[w] # balance[w] => w \in locked[r]
    BY <2>1 DEF Visible
  <2>3. balance'[w] \in 0 .. MaxInteger /\ credited'[w] \in Nat /\ balance'[w] <= credited'[w]
    BY <1>1 DEF IInv, TypeOK, BalanceWithinCredits
  <2> QED
    BY <1>1, <2>2, <2>3, BoundsAssumption DEF LegsInv
<1>8. L!Post(r, from, dst[r])
  BY <1>2, <1>4, <1>5, <1>6, <1>7 DEF L!Post
<1> QED
  BY <1>2, <1>3, <1>8 DEF PaidFrom

\* Every step of wallets.service.ts is a commit, the begin of an order, or invisible
\* to the ledger.
LEMMA VisibleSteps ==
    ASSUME IInv, [Next]_vars
    PROVE  \/ \E r \in Requests : Commits(r) \/ L!Order(r)
           \/ UNCHANGED <<L!book, job>>
<1>1. ASSUME NEW r \in Requests, NEW order, Begin(r, order)
      PROVE  L!Order(r)
  <2>1. posted[r] = {}
    BY <1>1 DEF IInv, RequestInv, PostedInv, Begin
  <2> QED
    BY <1>1, <2>1 DEF Begin, L!Order, L!book, database, IInv, TypeOK
<1>2. ASSUME NEW r \in Requests, FundWallet(r) \/ ConvertCurrency(r) \/ Trade(r)
      PROVE  L!Order(r)
  <2>1. \E order : Begin(r, order)
    BY <1>2 DEF FundWallet, ConvertCurrency, Trade, MoveMoney
  <2> QED
    BY <2>1, <1>1
<1>3. ASSUME NEW r \in Requests, Fail(r)
      PROVE  UNCHANGED <<L!book, job>>
  BY <1>3 DEF Fail, database, L!book
<1>4. ASSUME NEW r \in Requests, Submit(r)
      PROVE  L!Order(r) \/ UNCHANGED <<L!book, job>>
  BY <1>4, <1>2, <1>3 DEF Submit, RefuseOrder
<1>5. ASSUME NEW r \in Requests, Progress(r)
      PROVE  Commits(r) \/ UNCHANGED <<L!book, job>>
  <2>1. CASE NoSourceWallet(r) \/ InsufficientFunds(r) \/ OutOfRange(r)
    BY <2>1, <1>3 DEF NoSourceWallet, InsufficientFunds, OutOfRange
  <2>2. CASE FindFrom(r) \/ FindTo(r) \/ OpenWallet(r) \/ ReadBalance(r) \/ NeedUpdate(r)
    BY <2>2 DEF FindFrom, FindTo, OpenWallet, ReadBalance, NeedUpdate, database, L!book
  <2>3. CASE SkipUpdate(r) \/ UpdateBalance(r) \/ PublishActivity(r)
    BY <2>3 DEF SkipUpdate, UpdateBalance, PublishActivity, database, L!book
  <2>4. CASE Commit(r)
    BY <2>4 DEF Commit, Commits
  <2> QED
    BY <1>5, <2>1, <2>2, <2>3, <2>4 DEF Progress
<1>6. ASSUME NEW r \in Requests,
             DeadlockVictim(r) \/ PublishFails(r) \/ StatementFails(r) \/ Crash(r)
      PROVE  UNCHANGED <<L!book, job>>
  BY <1>6, <1>3 DEF DeadlockVictim, PublishFails, StatementFails, Crash, database, L!book
<1>7. ASSUME NEW r \in Requests, CommitUnanswered(r)
      PROVE  Commits(r) \/ UNCHANGED <<L!book, job>>
  <2>1. CASE MakeVisible(r)
    BY <1>7, <2>1 DEF CommitUnanswered, Commits
  <2>2. CASE UNCHANGED database
    BY <1>7, <2>2 DEF CommitUnanswered, database, L!book
  <2> QED
    BY <1>7, <2>1, <2>2 DEF CommitUnanswered
<1>8. CASE UNCHANGED vars
  BY <1>8 DEF vars, database, L!book
<1> QED
  BY <1>4, <1>5, <1>6, <1>7, <1>8 DEF Next, Finished

LEMMA StepsAreLedgerSteps ==
    IInv /\ [Next]_vars => [L!Posting \/ \E r \in Requests : L!Order(r)]_<<L!book, job>>
BY VisibleSteps, CommitPosts DEF L!Posting

\* Under any interleaving, failure or crash, an order is carried out as one
\* atomic double-entry posting between wallets of its own user, or not at all:
\* what the transaction around debit() and credit() is there for.
THEOREM ImplementsLedger == Safety => PostsAtomically
<1>1. Init => L!Init
  BY DEF Init, L!Init, NoBalances
<1> QED
  BY <1>1, Invariance, StepsAreLedgerSteps, PTL DEF Safety, PostsAtomically, L!PostingSpec

=============================================================================
