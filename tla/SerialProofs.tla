----------------------------- MODULE SerialProofs -----------------------------
(***************************************************************************)
(* What holds of Wallets when the requests of each user are served one at  *)
(* a time, for any number of users and requests: the wallets of different  *)
(* users are different rows, so that the SELECT, the UPDATE and the COMMIT *)
(* of a request see the same balances.                                     *)
(***************************************************************************)
EXTENDS WalletsProofs, FiniteSetTheorems

-----------------------------------------------------------------------------
(* The inductive invariant. *)

\* Requests in progress are of different users.
Alone == \A r, o \in InFlight : job[r].user = job[o].user => r = o

\* What the legs of r that are done have done to w.
Gained(r, w) == IF "credit" \in legs[r] /\ w = dst[r] THEN job[r].credit ELSE 0
Paid(r, w)   == IF "debit" \in legs[r] /\ w = src[r] THEN job[r].debit ELSE 0

\* A transaction sees the committed balances and its own legs, nothing else.
SeesOwnLegs(r) ==
    pc[r] \in Working =>
        /\ \A w \in WalletIds : Visible(r, w) = balance[w] + Gained(r, w) - Paid(r, w)
        /\ "debit" \in legs[r] => balance[src[r]] >= job[r].debit
        /\ opened[r] # {} => WalletsOf(job[r].user, job[r].to) = {}

\* The balance about to be stored is the one seen, and the leg.
StoresTheLeg(r) ==
    pc[r] \in {"save", "update"} =>
        /\ Leg(r) = "credit" => next[r] = Visible(r, dst[r]) + job[r].credit
        /\ Leg(r) = "debit" =>
              next[r] = Visible(r, src[r]) - job[r].debit /\ balance[src[r]] >= job[r].debit

ExactInv(r) == SeesOwnLegs(r) /\ StoresTheLeg(r)

SInv ==
    /\ IInv
    /\ Alone
    /\ BalanceMatchesLedger
    /\ OneWalletPerCurrency
    /\ \A r \in Requests : ExactInv(r)

-----------------------------------------------------------------------------
(* Steps of the others. *)

\* A row that r writes, or has found, is not one that another transaction writes.
LEMMA RowsApart ==
    ASSUME SInv, NEW r \in Requests, NEW o \in Requests \ {r},
           pc[r] \in Working, pc[o] \in Working, NEW w \in WalletIds,
           w = dst[r] \/ (w = src[r] /\ job[r].from # None)
    PROVE  w \notin locked[o] /\ w \notin opened[o]
<1>1. /\ FoundInv(r) /\ FoundInv(o) /\ LegsInv(o)
  BY DEF SInv, IInv, RequestInv
<1>2. job[r] \in Jobs /\ job[o] \in Jobs /\ job[r].user # job[o].user
  <2>1. r \in InFlight /\ o \in InFlight /\ r # o
    BY DEF InFlight, Working, InTransaction
  <2>2. job[r].user # job[o].user
    BY <2>1 DEF SInv, Alone
  <2>. QED
    BY <1>1, <2>2 DEF FoundInv, Working, InTransaction
<1>3. \/ \E c : owner[w] = <<job[r].user, c>> /\ owner[w] # None
      \/ owner[w] = None /\ w \in opened[r]
  <2>1. <<job[r].user, job[r].to>> # None
        /\ (job[r].from # None => <<job[r].user, job[r].from>> # None)
    BY <1>2, NoneAssumption DEF Jobs
  <2>. QED
    BY <1>1, <2>1 DEF FoundInv, Working
<1>4. ASSUME NEW v \in WalletIds, v = dst[o] \/ (v = src[o] /\ job[o].from # None)
      PROVE  \/ \E c : owner[v] = <<job[o].user, c>> /\ owner[v] # None
             \/ owner[v] = None /\ v \in opened[o]
  <2>1. <<job[o].user, job[o].to>> # None
        /\ (job[o].from # None => <<job[o].user, job[o].from>> # None)
    BY <1>2, NoneAssumption DEF Jobs
  <2>. QED
    BY <1>1, <1>4, <2>1 DEF FoundInv, Working
<1>5. w \notin opened[o]
  <2>1. opened[r] \cap opened[o] = {}
    BY DEF SInv, IInv, OpenedInv
  <2>. QED
    BY <1>3, <2>1, OpenedRow DEF SInv
<1>6. w \notin locked[o]
  <2>. SUFFICES ASSUME w \in locked[o] PROVE FALSE
    OBVIOUS
  <2>1. w = dst[o] \/ (w = src[o] /\ job[o].from # None)
    BY <1>1 DEF LegsInv
  <2>2. \E c : owner[w] = <<job[o].user, c>> /\ owner[w] # None
    BY <1>4, <1>5, <2>1
  <2>. QED
    BY <1>2, <1>3, <2>2
<1>. QED
  BY <1>5, <1>6

\* The wallets of r stay as they are while others step.
LEMMA OtherExact ==
    ASSUME SInv, NEW r \in Requests, NEW o \in Requests \ {r}, Undisturbed(r),
           Commits(o) \/ UNCHANGED <<owner, balance>>
    PROVE  ExactInv(r)'
<1>. SUFFICES ASSUME pc[r] \in Working
              PROVE  ExactInv(r)'
  BY DEF ExactInv, SeesOwnLegs, StoresTheLeg, Working, Undisturbed
<1>1. ExactInv(r) /\ FoundInv(r) /\ LegsInv(r) /\ job[r] \in Jobs
  BY DEF SInv, IInv, RequestInv, FoundInv, Working, InTransaction
<1>2. dst[r] \in WalletIds /\ (job[r].from # None => src[r] \in WalletIds)
      /\ ("debit" \in legs[r] \/ Leg(r) = "debit" => job[r].from # None)
  BY <1>1 DEF FoundInv, LegsInv, Leg, LegsOf, Working
<1>3. ASSUME NEW w \in WalletIds, w = dst[r] \/ (w = src[r] /\ job[r].from # None)
      PROVE  balance'[w] = balance[w]
  <2>1. CASE Commits(o)
    <3>1. pc[o] \in Working
      BY <2>1 DEF Commits, Working
    <3>2. w \notin locked[o]
      BY <1>3, <3>1, RowsApart
    <3>. QED
      BY <2>1, <3>2 DEF Commits, MakeVisible, Visible
  <2>. QED
    BY <2>1
<1>4. \A w \in WalletIds :
         /\ Gained(r, w)' = Gained(r, w) /\ Paid(r, w)' = Paid(r, w)
         /\ Visible(r, w)' = IF w \in locked[r] THEN staged[r][w] ELSE balance'[w]
  BY DEF Undisturbed, Gained, Paid, Visible
<1>5. \A w \in WalletIds : balance[w] \in Int /\ balance'[w] \in Int
  <2>1. CASE Commits(o)
    <3>1. \A w \in WalletIds : balance'[w] = Visible(o, w)
      BY <2>1 DEF Commits, MakeVisible
    <3>. QED
      BY <3>1, VisibleBalance, BoundsAssumption DEF SInv, IInv, TypeOK
  <2>2. CASE UNCHANGED <<owner, balance>>
    BY <2>2, BoundsAssumption DEF SInv, IInv, TypeOK
  <2>. QED
    BY <2>1, <2>2
<1>6. ASSUME NEW w \in WalletIds
      PROVE  Visible(r, w)' = balance'[w] + Gained(r, w)' - Paid(r, w)'
  <2>1. Visible(r, w) = balance[w] + Gained(r, w) - Paid(r, w)
    BY <1>1 DEF ExactInv, SeesOwnLegs
  <2>2. CASE w = dst[r] \/ (w = src[r] /\ job[r].from # None)
    BY <1>3, <1>4, <2>1, <2>2 DEF Visible
  <2>3. CASE ~(w = dst[r] \/ (w = src[r] /\ job[r].from # None))
    <3>1. Gained(r, w) = 0 /\ Paid(r, w) = 0
      BY <1>2, <2>3 DEF Gained, Paid
    <3>2. w \notin locked[r]
      BY <1>1, <2>3 DEF LegsInv
    <3>. QED
      BY <1>4, <1>5, <3>1, <3>2
  <2>. QED
    BY <2>2, <2>3
<1>7. opened[r] # {} => WalletsOf(job[r].user, job[r].to)' = {}
  <2>. SUFFICES ASSUME opened[r] # {}, NEW w \in WalletIds, owner'[w] = <<job[r].user, job[r].to>>
                PROVE  FALSE
    BY DEF WalletsOf, Undisturbed
  <2>1. owner[w] # <<job[r].user, job[r].to>>
    BY <1>1 DEF ExactInv, SeesOwnLegs, WalletsOf
  <2>2. Commits(o) /\ w \in opened[o] /\ owner'[w] = <<job[o].user, job[o].to>>
    BY <2>1 DEF Commits, MakeVisible
  <2>3. r \in InFlight /\ o \in InFlight
    BY <2>2 DEF Commits, InFlight, Working, InTransaction
  <2>4. job[r].user # job[o].user
    BY <2>3 DEF SInv, Alone
  <2>. QED
    BY <2>2, <2>4
<1>8. SeesOwnLegs(r)'
  BY <1>1, <1>2, <1>3, <1>6, <1>7 DEF ExactInv, SeesOwnLegs, Undisturbed
<1>9. StoresTheLeg(r)'
  <2>1. Leg(r)' = Leg(r)
    BY DEF Leg, Undisturbed
  <2>2. \A w \in WalletIds : w = dst[r] \/ (w = src[r] /\ job[r].from # None) =>
           Visible(r, w)' = Visible(r, w)
    BY <1>3, <1>4 DEF Visible
  <2>3. src'[r] = src[r] /\ dst'[r] = dst[r] /\ job'[r] = job[r] /\ next'[r] = next[r]
        /\ pc'[r] = pc[r]
    BY DEF Undisturbed
  <2>4. Visible(r, dst[r])' = Visible(r, dst[r])
        /\ (Leg(r) = "debit" => Visible(r, src[r])' = Visible(r, src[r])
                                /\ balance'[src[r]] = balance[src[r]])
    BY <1>2, <1>3, <2>2, <2>3 DEF Visible, Undisturbed
  <2>. QED
    BY <1>1, <2>1, <2>3, <2>4 DEF ExactInv, StoresTheLeg
<1>. QED
  BY <1>8, <1>9 DEF ExactInv

-----------------------------------------------------------------------------
(* Steps of a request itself. *)

\* What is left to show of a step of r that is not its COMMIT.
LEMMA SerialStep ==
    ASSUME SInv, IInv', NEW r \in Requests,
           \A o \in Requests \ {r} : Undisturbed(o),
           UNCHANGED <<owner, balance, credited, debited>>,
           InFlight' \subseteq InFlight, job' = job, ExactInv(r)'
    PROVE  SInv'
<1>1. \A o \in Requests : ExactInv(o)'
  BY OtherExact
<1>2. Alone'
  BY DEF SInv, Alone
<1>3. BalanceMatchesLedger' /\ OneWalletPerCurrency'
  BY DEF SInv, BalanceMatchesLedger, OneWalletPerCurrency
<1>. QED
  BY <1>1, <1>2, <1>3 DEF SInv

\* A request that is not at work on its wallets has nothing to show.
LEMMA Idle ==
    ASSUME NEW r \in Requests, pc'[r] \notin Working
    PROVE  ExactInv(r)'
BY DEF ExactInv, SeesOwnLegs, StoresTheLeg, Working

\* Before the first leg, a transaction sees what is committed.
LEMMA NothingSeen ==
    ASSUME SInv, IInv', NEW r \in Requests, pc'[r] = "read", legs'[r] = {}, locked'[r] = {},
           opened'[r] # {} => WalletsOf(job[r].user, job[r].to)' = {}, job' = job
    PROVE  ExactInv(r)'
<1>1. \A w \in WalletIds : balance'[w] \in Int
  BY BoundsAssumption DEF IInv, TypeOK
<1>2. \A w \in WalletIds : Visible(r, w)' = balance'[w] /\ Gained(r, w)' = 0 /\ Paid(r, w)' = 0
  BY DEF Visible, Gained, Paid
<1>3. SeesOwnLegs(r)'
  BY <1>1, <1>2 DEF SeesOwnLegs
<1>. QED
  BY <1>3 DEF ExactInv, StoresTheLeg

LEMMA SerialFind ==
    ASSUME SInv, IInv', NEW r \in Requests, FindFrom(r) \/ FindTo(r) \/ OpenWallet(r)
    PROVE  SInv'
<1>. USE DEF database, found, writes
<1>1. FoundInv(r) /\ LegsInv(r) /\ IInv /\ TypeOK
  BY DEF SInv, IInv, RequestInv
<1>2. /\ \A o \in Requests \ {r} : Undisturbed(o)
      /\ UNCHANGED <<owner, balance, credited, debited>> /\ job' = job
  <2>1. CASE FindFrom(r)
    BY <1>1, <2>1 DEF FindFrom, TypeOK, Undisturbed
  <2>2. CASE FindTo(r)
    BY <1>1, <2>2 DEF FindTo, TypeOK, Undisturbed
  <2>3. CASE OpenWallet(r)
    BY <1>1, <2>3 DEF OpenWallet, TypeOK, Undisturbed
  <2>. QED
    BY <2>1, <2>2, <2>3
<1>3. InFlight' \subseteq InFlight
  BY <1>1 DEF FindFrom, FindTo, OpenWallet, TypeOK, InFlight, InTransaction
<1>4. ExactInv(r)'
  <2>1. CASE FindFrom(r)
    BY <1>1, <2>1, Idle DEF FindFrom, TypeOK, Working
  <2>2. CASE FindTo(r) \/ OpenWallet(r)
    <3>1. pc[r] = "find_to" /\ pc'[r] = "read" /\ legs' = legs /\ locked' = locked
      BY <1>1, <2>2 DEF FindTo, OpenWallet, TypeOK
    <3>2. legs[r] = {} /\ locked[r] = {} /\ opened[r] = {}
      BY <1>1, <3>1 DEF FoundInv, LegsInv, Working
    <3>3. opened'[r] # {} => WalletsOf(job[r].user, job[r].to) = {}
      BY <2>2, <3>2 DEF FindTo, OpenWallet
    <3>4. WalletsOf(job[r].user, job[r].to)' = WalletsOf(job[r].user, job[r].to)
      BY <1>2 DEF WalletsOf
    <3>. QED
      BY <1>2, <3>1, <3>2, <3>3, <3>4, NothingSeen
  <2>. QED
    BY <2>1, <2>2
<1>. QED
  BY <1>2, <1>3, <1>4, SerialStep

LEMMA SerialRead ==
    ASSUME SInv, IInv', NEW r \in Requests, ReadBalance(r) \/ NeedUpdate(r)
    PROVE  SInv'
<1>. USE DEF database, found, writes
<1>1. FoundInv(r) /\ LegsInv(r) /\ IInv /\ TypeOK /\ ExactInv(r)
      /\ pc[r] \in {"read", "save", "update"}
  BY DEF SInv, IInv, RequestInv, ReadBalance, NeedUpdate
<1>2. /\ \A o \in Requests \ {r} : Undisturbed(o)
      /\ UNCHANGED <<owner, balance, credited, debited>> /\ job' = job
  <2>1. CASE ReadBalance(r)
    BY <1>1, <2>1 DEF ReadBalance, TypeOK, Undisturbed
  <2>2. CASE NeedUpdate(r)
    BY <1>1, <2>2 DEF NeedUpdate, TypeOK, Undisturbed
  <2>. QED
    BY <2>1, <2>2
<1>3. InFlight' \subseteq InFlight
  BY <1>1 DEF ReadBalance, NeedUpdate, TypeOK, InFlight, InTransaction
<1>4. /\ src' = src /\ dst' = dst /\ legs' = legs /\ locked' = locked /\ staged' = staged
      /\ opened' = opened /\ Leg(r)' = Leg(r)
      /\ \A w \in WalletIds : Visible(r, w)' = Visible(r, w)
  BY DEF ReadBalance, NeedUpdate, Leg, Visible
<1>5. SeesOwnLegs(r)'
  <2>1. SeesOwnLegs(r) /\ pc[r] \in Working
    BY <1>1 DEF ExactInv, Working
  <2>2. \A w \in WalletIds : Gained(r, w)' = Gained(r, w) /\ Paid(r, w)' = Paid(r, w)
    BY <1>2, <1>4 DEF Gained, Paid
  <2>3. WalletsOf(job[r].user, job[r].to)' = WalletsOf(job[r].user, job[r].to)
    BY <1>2 DEF WalletsOf
  <2>. QED
    BY <1>2, <1>4, <2>1, <2>2, <2>3 DEF SeesOwnLegs
<1>6. StoresTheLeg(r)'
  <2>1. dst[r] \in WalletIds /\ (Leg(r) = "debit" => src[r] \in WalletIds)
    BY <1>1 DEF FoundInv, Leg, Working
  <2>2. CASE ReadBalance(r)
    <3>1. /\ Leg(r) = "credit" => next'[r] = Visible(r, dst[r]) + job[r].credit
          /\ Leg(r) = "debit" => next'[r] = Visible(r, src[r]) - job[r].debit
                                 /\ Visible(r, src[r]) >= job[r].debit
      BY <1>1, <2>2 DEF ReadBalance, TypeOK
    <3>2. Leg(r) = "debit" => Visible(r, src[r]) = balance[src[r]]
      <4>. SUFFICES ASSUME Leg(r) = "debit"
                    PROVE  Visible(r, src[r]) = balance[src[r]]
        OBVIOUS
      <4>1. "debit" \notin legs[r] /\ "credit" \notin legs[r]
        BY <1>1 DEF Leg, LegsInv
      <4>2. Gained(r, src[r]) = 0 /\ Paid(r, src[r]) = 0
        BY <4>1 DEF Gained, Paid
      <4>3. balance[src[r]] \in Int
        BY <1>1, <2>1, BoundsAssumption DEF TypeOK
      <4>. QED
        BY <1>1, <2>1, <4>2, <4>3 DEF ExactInv, SeesOwnLegs, Working
    <3>. QED
      BY <1>2, <1>4, <2>1, <3>1, <3>2 DEF StoresTheLeg
  <2>3. CASE NeedUpdate(r)
    <3>1. pc[r] = "save" /\ next' = next
      BY <2>3 DEF NeedUpdate
    <3>. QED
      BY <1>1, <1>2, <1>4, <2>1, <3>1 DEF ExactInv, StoresTheLeg
  <2>. QED
    BY <2>2, <2>3
<1>. QED
  BY <1>2, <1>3, <1>5, <1>6, SerialStep DEF ExactInv

\* The end of a leg: the wallet is seen to hold what the leg has made of it.
LEMMA SerialPostLeg ==
    ASSUME SInv, IInv', NEW r \in Requests, SkipUpdate(r) \/ UpdateBalance(r)
    PROVE  SInv'
<1>. PICK t \in WalletIds : t = Target(r)
  BY TargetWallet DEF SInv, SkipUpdate, UpdateBalance
<1>1. /\ pc[r] \in {"save", "update"} /\ PostLeg(r)
      /\ UNCHANGED <<owner, balance, credited, debited, posted, activity, job, src, dst,
                     next, opened>>
      /\ \/ Visible(r, t) = next[r] /\ UNCHANGED <<locked, staged>>
         \/ /\ locked' = [locked EXCEPT ![r] = @ \cup {t}]
            /\ staged' = [staged EXCEPT ![r][t] = next[r]]
  BY DEF SkipUpdate, UpdateBalance, database, found
<1>2. /\ FoundInv(r) /\ LegsInv(r) /\ IInv /\ TypeOK /\ ExactInv(r)
      /\ Leg(r) \in Flows
      /\ (Leg(r) = "credit" => t = dst[r])
      /\ (Leg(r) = "debit" => t = src[r])
  BY <1>1, TargetWallet DEF SInv, IInv, RequestInv
<1>3. \A o \in Requests \ {r} : Undisturbed(o)
  BY <1>1, <1>2 DEF PostLeg, TypeOK, Undisturbed
<1>4. InFlight' \subseteq InFlight
  BY <1>1, <1>2 DEF PostLeg, TypeOK, InFlight, InTransaction
<1>5. /\ pc'[r] \in {"read", "commit"} /\ legs'[r] = legs[r] \cup {Leg(r)}
      /\ Leg(r) \notin legs[r]
  BY <1>1, <1>2 DEF PostLeg, TypeOK, Leg, LegsInv, Flows
<1>6. /\ Visible(r, t)' = next[r]
      /\ \A w \in WalletIds \ {t} : Visible(r, w)' = Visible(r, w)
  <2>1. CASE Visible(r, t) = next[r] /\ UNCHANGED <<locked, staged>>
    BY <1>1, <1>2, <2>1 DEF Visible
  <2>2. CASE /\ locked' = [locked EXCEPT ![r] = @ \cup {t}]
             /\ staged' = [staged EXCEPT ![r][t] = next[r]]
    <3>1. /\ locked'[r] = locked[r] \cup {t} /\ staged'[r][t] = next[r]
          /\ \A w \in WalletIds \ {t} : staged'[r][w] = staged[r][w]
      BY <1>2, <2>2 DEF TypeOK
    <3>. QED
      BY <1>1, <1>2, <3>1 DEF Visible
  <2>. QED
    BY <1>1, <2>1, <2>2
<1>7. job[r].debit \in Int /\ job[r].credit \in Int /\ \A w \in WalletIds : balance[w] \in Int
  BY <1>2, BoundsAssumption DEF TypeOK, Jobs, NoJob
<1>8. ASSUME NEW w \in WalletIds
      PROVE  Visible(r, w)' = balance'[w] + Gained(r, w)' - Paid(r, w)'
  <2>1. Visible(r, w) = balance[w] + Gained(r, w) - Paid(r, w)
    BY <1>1, <1>2 DEF ExactInv, SeesOwnLegs, Working
  <2>2. CASE Leg(r) = "credit"
    <3>1. Paid(r, w)' = Paid(r, w)
      BY <1>1, <1>5, <2>2 DEF Paid
    <3>2. Gained(r, w) = 0 /\ Gained(r, w)' = IF w = dst[r] THEN job[r].credit ELSE 0
      BY <1>1, <1>5, <2>2 DEF Gained
    <3>3. next[r] = Visible(r, dst[r]) + job[r].credit
      BY <1>1, <1>2, <2>2 DEF ExactInv, StoresTheLeg
    <3>4. Paid(r, w) \in Int
      BY <1>7 DEF Paid
    <3>5. CASE w = t
      BY <1>1, <1>2, <1>6, <1>7, <2>1, <2>2, <3>1, <3>2, <3>3, <3>4, <3>5
    <3>6. CASE w # t
      BY <1>1, <1>2, <1>6, <1>7, <2>1, <2>2, <3>1, <3>2, <3>4, <3>6
    <3>. QED
      BY <3>5, <3>6
  <2>3. CASE Leg(r) = "debit"
    <3>1. Gained(r, w)' = Gained(r, w)
      BY <1>1, <1>5, <2>3 DEF Gained
    <3>2. Paid(r, w) = 0 /\ Paid(r, w)' = IF w = src[r] THEN job[r].debit ELSE 0
      BY <1>1, <1>5, <2>3 DEF Paid
    <3>3. next[r] = Visible(r, src[r]) - job[r].debit
      BY <1>1, <1>2, <2>3 DEF ExactInv, StoresTheLeg
    <3>4. Gained(r, w) \in Int
      BY <1>7 DEF Gained
    <3>5. CASE w = t
      BY <1>1, <1>2, <1>6, <1>7, <2>1, <2>3, <3>1, <3>2, <3>3, <3>4, <3>5
    <3>6. CASE w # t
      BY <1>1, <1>2, <1>6, <1>7, <2>1, <2>3, <3>1, <3>2, <3>4, <3>6
    <3>. QED
      BY <3>5, <3>6
  <2>. QED
    BY <1>2, <2>2, <2>3 DEF Flows
<1>9. "debit" \in legs'[r] => balance'[src'[r]] >= job'[r].debit
  <2>1. CASE Leg(r) = "debit"
    BY <1>1, <1>2, <2>1 DEF ExactInv, StoresTheLeg
  <2>2. CASE Leg(r) # "debit"
    BY <1>1, <1>2, <1>5, <2>2 DEF ExactInv, SeesOwnLegs, Working
  <2>. QED
    BY <2>1, <2>2
<1>10. opened'[r] # {} => WalletsOf(job[r].user, job[r].to)' = {}
  BY <1>1, <1>2 DEF ExactInv, SeesOwnLegs, Working, WalletsOf
<1>11. ExactInv(r)'
  <2>1. SeesOwnLegs(r)'
    BY <1>8, <1>9, <1>10 DEF SeesOwnLegs
  <2>. QED
    BY <1>5, <2>1 DEF ExactInv, StoresTheLeg
<1>. QED
  BY <1>1, <1>3, <1>4, <1>11, SerialStep

\* COMMIT moves the balances by the legs, and the sums of the ledger with them.
LEMMA SerialCommit ==
    ASSUME SInv, IInv', NEW r \in Requests, Commits(r)
    PROVE  SInv'
<1>. USE DEF Commits, MakeVisible, EndTransaction
<1>1. /\ FoundInv(r) /\ IInv /\ TypeOK /\ ExactInv(r) /\ job[r] \in Jobs
      /\ pc[r] = "commit"
  BY DEF SInv, IInv, RequestInv, FoundInv, InTransaction
<1>2. \A o \in Requests \ {r} : Undisturbed(o)
  BY <1>1 DEF TypeOK, Undisturbed
<1>3. \A o \in Requests \ {r} : ExactInv(o)'
  BY <1>2, OtherExact
<1>4. ExactInv(r)'
  BY <1>1, Idle DEF TypeOK, Working
<1>5. Alone'
  <2>1. InFlight' \subseteq InFlight
    BY <1>1 DEF TypeOK, InFlight, InTransaction
  <2>. QED
    BY <2>1 DEF SInv, Alone
<1>6. BalanceMatchesLedger'
  <2>. SUFFICES ASSUME NEW w \in WalletIds
                PROVE  balance'[w] = credited'[w] - debited'[w]
    BY DEF BalanceMatchesLedger
  <2>1. /\ balance'[w] = Visible(r, w)
        /\ credited'[w] = credited[w] + Gained(r, w)
        /\ debited'[w] = debited[w] + Paid(r, w)
    BY DEF Gained, Paid
  <2>2. Visible(r, w) = balance[w] + Gained(r, w) - Paid(r, w)
    BY <1>1 DEF ExactInv, SeesOwnLegs, Working
  <2>3. balance[w] = credited[w] - debited[w]
    BY DEF SInv, BalanceMatchesLedger
  <2>4. Gained(r, w) \in Int /\ Paid(r, w) \in Int /\ credited[w] \in Int /\ debited[w] \in Int
    BY <1>1 DEF Gained, Paid, Jobs, TypeOK
  <2>. QED
    BY <2>1, <2>2, <2>3, <2>4
<1>7. OneWalletPerCurrency'
  <2>1. \A w \in WalletIds :
           owner'[w] = IF w \in opened[r] THEN <<job[r].user, job[r].to>> ELSE owner[w]
    OBVIOUS
  <2>2. opened[r] = {} \/ opened[r] = {dst[r]}
    BY <1>1 DEF FoundInv, Working
  <2>3. opened[r] # {} => \A w \in WalletIds : owner[w] # <<job[r].user, job[r].to>>
    BY <1>1 DEF ExactInv, SeesOwnLegs, Working, WalletsOf
  <2>. HIDE DEF Commits, MakeVisible
  <2>. QED
    BY <2>1, <2>2, <2>3 DEF SInv, OneWalletPerCurrency
<1>. QED
  BY <1>3, <1>4, <1>5, <1>6, <1>7 DEF SInv

\* A transaction ends without a trace, or its activity is published.
LEMMA SerialEnd ==
    ASSUME SInv, IInv', NEW r \in Requests,
           \/ Fail(r) \/ Crash(r) \/ PublishActivity(r) \/ PublishFails(r)
           \/ CommitUnanswered(r) /\ UNCHANGED database
    PROVE  SInv'
<1>. USE DEF Fail, Crash, PublishActivity, PublishFails, CommitUnanswered, EndTransaction, database, found, writes
<1>1. IInv /\ TypeOK
  BY DEF SInv, IInv
<1>2. /\ pc' = [pc EXCEPT ![r] = pc'[r]] /\ pc'[r] \in Answered
      /\ UNCHANGED <<owner, balance, credited, debited>> /\ job' = job
  BY <1>1 DEF TypeOK, Answered
<1>3. \A o \in Requests \ {r} : Undisturbed(o)
  BY <1>1 DEF TypeOK, Undisturbed
<1>4. InFlight' \subseteq InFlight
  BY <1>1, <1>2 DEF TypeOK, InFlight, InTransaction, Answered
<1>5. ExactInv(r)'
  BY <1>2, Idle DEF Answered, Working
<1>. QED
  BY <1>2, <1>3, <1>4, <1>5, SerialStep

\* One request of the user at a time.
LEMMA SerialBegin ==
    ASSUME SInv, IInv', MaxPerUser = 1, NEW r \in Requests, NEW order, Begin(r, order)
    PROVE  SInv'
<1>. USE DEF Begin, database, found, writes
<1>1. IInv /\ TypeOK
  BY DEF SInv, IInv
<1>2. \A o \in Requests \ {r} : Undisturbed(o)
  BY <1>1 DEF TypeOK, Undisturbed
<1>3. ExactInv(r)' /\ \A o \in Requests \ {r} : ExactInv(o)'
  BY <1>1, <1>2, Idle, OtherExact DEF TypeOK, Working
<1>4. \A o \in InFlight : job[o].user # order.user
  <2>. DEFINE S == {o \in InFlight : job[o].user = order.user}
  <2>1. IsFiniteSet(S)
    BY RequestsAssumption, FS_Subset DEF InFlight
  <2>2. Cardinality(S) < 1
    OBVIOUS
  <2>3. Cardinality(S) = 0
    BY <2>1, <2>2, FS_CardinalityType
  <2>4. S = {}
    BY <2>1, <2>3, FS_EmptySet
  <2>. QED
    BY <2>4
<1>5. Alone'
  <2>1. InFlight' \subseteq InFlight \cup {r} /\ job'[r] = order
    BY <1>1 DEF TypeOK, InFlight
  <2>2. \A o \in InFlight : o # r /\ job'[o] = job[o]
    BY <1>1 DEF TypeOK, InFlight, InTransaction
  <2>. QED
    BY <1>4, <2>1, <2>2 DEF SInv, Alone
<1>6. BalanceMatchesLedger' /\ OneWalletPerCurrency'
  BY DEF SInv, BalanceMatchesLedger, OneWalletPerCurrency
<1>. QED
  BY <1>3, <1>5, <1>6 DEF SInv

-----------------------------------------------------------------------------

LEMMA SerialInit == Init => SInv
<1>. SUFFICES ASSUME Init PROVE SInv
  OBVIOUS
<1>1. IInv
  BY InitIInv
<1>2. Alone
  BY DEF Init, Alone, InFlight, InTransaction
<1>3. BalanceMatchesLedger /\ OneWalletPerCurrency
  BY OpeningAssumption, BoundsAssumption
     DEF Init, BalanceMatchesLedger, OneWalletPerCurrency, NoBalances
<1>4. \A r \in Requests : ExactInv(r)
  BY DEF Init, ExactInv, SeesOwnLegs, StoresTheLeg, Working
<1>. QED
  BY <1>1, <1>2, <1>3, <1>4 DEF SInv

LEMMA SerialNext ==
    ASSUME MaxPerUser = 1
    PROVE  SInv /\ [Next]_vars => SInv'
<1>. SUFFICES ASSUME SInv, [Next]_vars
              PROVE  SInv'
  OBVIOUS
<1>1. IInv'
  BY NextIInv DEF SInv
<1>2. ASSUME NEW r \in Requests, Submit(r)
      PROVE  SInv'
  <2>1. (\E order : Begin(r, order)) \/ Fail(r)
    BY <1>2 DEF Submit, FundWallet, ConvertCurrency, Trade, MoveMoney, RefuseOrder
  <2>. QED
    BY <1>1, <2>1, SerialBegin, SerialEnd
<1>3. ASSUME NEW r \in Requests, Progress(r)
      PROVE  SInv'
  <2>1. CASE Commit(r)
    <3>1. Commits(r)
      BY <2>1 DEF Commit, Commits
    <3>. QED
      BY <1>1, <3>1, SerialCommit
  <2>. QED
    BY <1>1, <1>3, <2>1, SerialFind, SerialRead, SerialPostLeg, SerialEnd
       DEF Progress, NoSourceWallet, InsufficientFunds, OutOfRange
<1>4. ASSUME NEW r \in Requests,
             DeadlockVictim(r) \/ PublishFails(r) \/ StatementFails(r) \/ Crash(r)
      PROVE  SInv'
  BY <1>1, <1>4, SerialEnd DEF DeadlockVictim, StatementFails
<1>5. ASSUME NEW r \in Requests, CommitUnanswered(r)
      PROVE  SInv'
  <2>1. CASE MakeVisible(r)
    <3>1. Commits(r)
      BY <1>5, <2>1 DEF CommitUnanswered, Commits
    <3>. QED
      BY <1>1, <3>1, SerialCommit
  <2>2. CASE UNCHANGED database
    BY <1>1, <1>5, <2>2, SerialEnd
  <2>. QED
    BY <1>5, <2>1, <2>2 DEF CommitUnanswered
<1>6. CASE UNCHANGED vars
  <2>1. \A r \in Requests : ExactInv(r)'
    BY <1>6 DEF vars, database, found, writes, SInv, ExactInv, SeesOwnLegs, StoresTheLeg, Visible,
                Gained, Paid, Leg, WalletsOf
  <2>2. Alone' /\ BalanceMatchesLedger' /\ OneWalletPerCurrency'
    BY <1>6 DEF vars, database, SInv, Alone, InFlight, BalanceMatchesLedger, OneWalletPerCurrency
  <2>. QED
    BY <1>1, <2>1, <2>2 DEF SInv
<1>. QED
  BY <1>2, <1>3, <1>4, <1>5, <1>6 DEF Next, Finished

-----------------------------------------------------------------------------
(* The theorems. *)

LEMMA SerialInvariance ==
    ASSUME MaxPerUser = 1
    PROVE  Safety => []SInv
<1>1. SInv /\ [Next]_vars => SInv'
  BY SerialNext
<1>. QED
  BY SerialInit, <1>1, PTL DEF Safety

\* The balance of every wallet is what its rows in the transaction table add up to,
\* for any number of users at a time, if each of them has one transaction at a time:
\* waits for the answer and, after an error from COMMIT, for PostgreSQL to be done.
THEOREM BalancesExact ==
    ASSUME MaxPerUser = 1
    PROVE  Safety => []BalanceMatchesLedger
<1>1. SInv => BalanceMatchesLedger
  BY DEF SInv
<1>. QED
  BY <1>1, SerialInvariance, PTL

\* No second wallet of a currency is opened for a user with one transaction at a time.
THEOREM OneWalletEach ==
    ASSUME MaxPerUser = 1
    PROVE  Safety => []OneWalletPerCurrency
<1>1. SInv => OneWalletPerCurrency
  BY DEF SInv
<1>. QED
  BY <1>1, SerialInvariance, PTL

\* The commit moves the balances by the amounts of its order, and the wallet it
\* takes from has the money.
LEMMA CommitMoves ==
    ASSUME SInv, NEW r \in Requests, Commits(r)
    PROVE  L!ExactPosting
<1>1. /\ pc[r] = "commit" /\ FoundInv(r) /\ LegsInv(r) /\ ExactInv(r) /\ IInv
      /\ job[r] \in Jobs
  BY DEF SInv, IInv, RequestInv, FoundInv, InTransaction, Commits
<1>2. legs[r] = LegsOf(r)
  BY <1>1 DEF LegsInv
<1>3. job[r].from # None => balance[PaidFrom(r)] >= job[r].debit
  BY <1>1, <1>2 DEF ExactInv, SeesOwnLegs, Working, LegsOf, Flows, PaidFrom
<1>4. ASSUME NEW w \in WalletIds
      PROVE  balance'[w] = balance[w]
                + (IF w = dst[r] THEN job[r].credit ELSE 0)
                - (IF w = PaidFrom(r) /\ job[r].from # None THEN job[r].debit ELSE 0)
  <2>1. balance'[w] = balance[w] + Gained(r, w) - Paid(r, w)
    BY <1>1 DEF Commits, MakeVisible, ExactInv, SeesOwnLegs, Working
  <2>2. Gained(r, w) = IF w = dst[r] THEN job[r].credit ELSE 0
    BY <1>2 DEF Gained, LegsOf, Flows
  <2>3. Paid(r, w) = IF w = PaidFrom(r) /\ job[r].from # None THEN job[r].debit ELSE 0
    BY <1>2 DEF Paid, LegsOf, Flows, PaidFrom
  <2>. QED
    BY <2>1, <2>2, <2>3
<1>5. L!MovesBalances(r, PaidFrom(r), dst[r])
  BY <1>3, <1>4 DEF L!MovesBalances
<1>. QED
  BY <1>1, <1>5, CommitPosts DEF L!ExactPosting

\* If users have one transaction at a time, an order moves the balances by exactly its
\* amounts, in one step: the transactions of wallets.service.ts implement the book
\* its callers have in mind.
THEOREM ImplementsExactLedger ==
    ASSUME MaxPerUser = 1
    PROVE  Safety => MovesExactly
<1>1. Init => L!Init
  BY DEF Init, L!Init, NoBalances
<1>2. SInv /\ [Next]_vars =>
         [L!ExactPosting \/ \E r \in Requests : L!Order(r)]_<<L!book, job>>
  BY VisibleSteps, CommitMoves DEF SInv
<1>. QED
  BY <1>1, <1>2, SerialInvariance, PTL DEF Safety, MovesExactly, L!ExactSpec

=============================================================================
