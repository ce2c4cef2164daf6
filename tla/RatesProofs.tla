------------------------------ MODULE RatesProofs ------------------------------
(***************************************************************************)
(* What holds of Rates for any instances, requests, countries, ttls and    *)
(* faults: the types, the lock, and how old what getFxRates answers, a row *)
(* and a quote can get.                                                    *)
(***************************************************************************)
EXTENDS Rates, TLAPS

-----------------------------------------------------------------------------
(* The inductive invariant. *)

\* The job's own steps are taken by jobs, and a refresh that saves has rates.
Working ==
    /\ DOMAIN pc = Tasks
    /\ \A i \in Instances : pc[i] \in {"locking", "release"} => i \in cron
    /\ \A t \in Tasks : pc[t] \in {"save", "cache"} => response[t] \in Ages

\* Rates are no older than the refresh that has them, and than its place in the
\* cache and its refresh allow.
Fresh ==
    /\ \A t \in Tasks : response[t] # None =>
          response[t] <= busy[t] /\ pc[t] \in {"save", "cache", "release"}
    /\ fxCache # None => fxCache.age + fxCache.ttl <= Ttl + MaxJob

\* What a quoter is to put into the cache it has read.
Reading == \A q \in Quoters : \A k \in store[q] : have[q][k] # None

IInv == TypeOK /\ Working /\ Fresh /\ Reading /\ LockHasAHolder

Job == {"fetch", "save", "cache", "release"}

-----------------------------------------------------------------------------
(* Ages and entries as time passes. *)

LEMMA OlderTyped ==
    /\ \A a \in Ages : Older(a) \in Ages /\ Older(a) <= a + 1
    /\ Older(NoRate) = NoRate /\ Older(None) = None
<1>1. \A a \in Ages : Older(a) \in Ages /\ Older(a) <= a + 1
  BY TimesAssumption DEF Older, Ages
<1>2. NoRate \notin Ages /\ None \notin Ages
  BY NoneAssumption, TimesAssumption DEF Ages
<1>. QED
  BY <1>1, <1>2 DEF Older

LEMMA EntryTyped ==
    ASSUME NEW e \in Entries \cup {None}
    PROVE  Entry(e) \in Entries \cup {None}
<1>1. CASE e = None \/ e.ttl = 1
  BY <1>1 DEF Entry
<1>2. CASE ~(e = None \/ e.ttl = 1)
  <2>1. e.age \in Ages \cup {NoRate} /\ e.ttl \in 1 .. Ttl /\ e.ttl # 1
    BY <1>2 DEF Entries
  <2>2. Older(e.age) \in Ages \cup {NoRate} /\ e.ttl - 1 \in 1 .. Ttl
    BY <2>1, OlderTyped, TimesAssumption
  <2>. QED
    BY <1>2, <2>2 DEF Entry, Entries
<1>. QED
  BY <1>1, <1>2

LEMMA FxEntry ==
    ASSUME NEW e \in [age : Ages, ttl : 1 .. Ttl] \cup {None}
    PROVE  /\ Entry(e) \in [age : Ages, ttl : 1 .. Ttl] \cup {None}
           /\ Entry(e) # None => /\ e # None
                                 /\ Entry(e).age + Entry(e).ttl <= e.age + e.ttl
<1>1. CASE e = None \/ e.ttl = 1
  BY <1>1 DEF Entry
<1>2. CASE ~(e = None \/ e.ttl = 1)
  <2>1. e.age \in Ages /\ e.ttl \in 1 .. Ttl /\ e.ttl # 1
    BY <1>2
  <2>2. Older(e.age) \in Ages /\ Older(e.age) <= e.age + 1 /\ e.ttl - 1 \in 1 .. Ttl
    BY <2>1, OlderTyped, TimesAssumption
  <2>3. Entry(e) = [age |-> Older(e.age), ttl |-> e.ttl - 1]
    BY <1>2 DEF Entry
  <2>4. Entry(e).age + Entry(e).ttl <= e.age + e.ttl
    BY <2>1, <2>2, <2>3, TimesAssumption DEF Ages
  <2>. QED
    BY <1>2, <2>2, <2>3, <2>4
<1>. QED
  BY <1>1, <1>2

LEMMA PairEntryTyped ==
    ASSUME NEW e \in [from : Ages, to : Ages, ttl : 1 .. Ttl] \cup {None}
    PROVE  PairEntry(e) \in [from : Ages, to : Ages, ttl : 1 .. Ttl] \cup {None}
<1>1. CASE e = None \/ e.ttl = 1
  BY <1>1 DEF PairEntry
<1>2. CASE ~(e = None \/ e.ttl = 1)
  <2>1. e.from \in Ages /\ e.to \in Ages /\ e.ttl \in 1 .. Ttl /\ e.ttl # 1
    BY <1>2
  <2>2. Older(e.from) \in Ages /\ Older(e.to) \in Ages /\ e.ttl - 1 \in 1 .. Ttl
    BY <2>1, OlderTyped, TimesAssumption
  <2>. QED
    BY <1>2, <2>2 DEF PairEntry
<1>. QED
  BY <1>1, <1>2

-----------------------------------------------------------------------------
(* The steps of a task. *)

LEMMA LeaveOK ==
    ASSUME IInv, NEW t \in Tasks, NEW then, Leave(t, then),
           then = "idle" \/ (then = "starting" /\ t \in Instances)
    PROVE  /\ \A i \in Instances :
                 pc'[i] \in {"starting", "idle", "locking", "fetch", "save", "cache", "release"}
           /\ \A r \in FxRequests : pc'[r] \in {"idle", "fetch", "save", "cache"}
           /\ cron' \subseteq Instances
           /\ response' \in [Tasks -> Ages \cup {None}]
           /\ todo' \in [Tasks -> SUBSET Countries]
           /\ busy' \in [Tasks -> 0 .. MaxJob]
           /\ Working'
           /\ \A o \in Tasks : response'[o] # None =>
                 response'[o] <= busy'[o] /\ pc'[o] \in {"save", "cache", "release"}
<1>. USE DEF IInv, Leave, TypeOK
<1>1. /\ \A i \in Instances :
            pc'[i] \in {"starting", "idle", "locking", "fetch", "save", "cache", "release"}
      /\ \A r \in FxRequests : pc'[r] \in {"idle", "fetch", "save", "cache"}
  BY TasksAssumption DEF Working, Tasks
<1>2. /\ cron' \subseteq Instances
      /\ response' \in [Tasks -> Ages \cup {None}]
      /\ todo' \in [Tasks -> SUBSET Countries]
      /\ busy' \in [Tasks -> 0 .. MaxJob]
  BY TimesAssumption
<1>3. \A o \in Tasks :
         /\ pc'[o] = IF o = t THEN then ELSE pc[o]
         /\ response'[o] = IF o = t THEN None ELSE response[o]
         /\ busy'[o] = IF o = t THEN 0 ELSE busy[o]
         /\ o # t => (o \in cron' <=> o \in cron)
  BY DEF Working
<1>4. Working'
  BY <1>3 DEF Working, Tasks
<1>5. \A o \in Tasks : response'[o] # None =>
         response'[o] <= busy'[o] /\ pc'[o] \in {"save", "cache", "release"}
  BY <1>3 DEF Fresh
<1>. QED
  BY <1>1, <1>2, <1>4, <1>5

LEMMA JobStarts ==
    ASSUME IInv, NEW i \in Instances, Seed(i) \/ CronFires(i) \/ SetLock(i)
    PROVE  IInv'
<1>. USE DEF IInv, TypeOK, Working, Fresh, Reading, LockHasAHolder, Tasks, refresh, quotes
<1>1. CASE Seed(i)
  BY <1>1, TasksAssumption DEF Seed
<1>2. CASE CronFires(i)
  <2>1. CASE lock = 0
    <3>1. /\ pc[i] = "idle" /\ pc' = [pc EXCEPT ![i] = "locking"] /\ cron' = cron \cup {i}
          /\ due' \subseteq due
          /\ UNCHANGED <<clock, missed, row, lock, fxCache, response, todo, busy, faults, quotes>>
      BY <1>2, <2>1 DEF CronFires
    <3>2. \A t \in Tasks : pc'[t] = IF t = i THEN "locking" ELSE pc[t]
      BY <3>1
    <3>3. TypeOK'
      BY <3>1, TasksAssumption
    <3>4. Working' /\ Fresh' /\ Reading'
      BY <3>1, <3>2
    <3>. QED
      BY <2>1, <3>1, <3>3, <3>4
  <2>2. CASE lock # 0
    BY <1>2, <2>2, TasksAssumption DEF CronFires
  <2>. QED
    BY <2>1, <2>2
<1>3. CASE SetLock(i)
  BY <1>3, TasksAssumption, TimesAssumption DEF SetLock
<1>. QED
  BY <1>1, <1>2, <1>3

LEMMA Refreshes ==
    ASSUME IInv, NEW t \in Tasks,
           Fetch(t) \/ (\E c \in Countries : SaveRate(t, c)) \/ FxRatesMissing(t)
    PROVE  IInv'
<1>. USE DEF IInv, TypeOK, Working, Fresh, Reading, LockHasAHolder, refresh, quotes
<1>1. CASE Fetch(t)
  BY <1>1, TasksAssumption, TimesAssumption DEF Fetch, Ages, Tasks
<1>2. ASSUME NEW c \in Countries, SaveRate(t, c)
      PROVE  IInv'
  BY <1>2, TasksAssumption DEF SaveRate, Tasks
<1>3. CASE FxRatesMissing(t)
  BY <1>3, TasksAssumption, TimesAssumption DEF FxRatesMissing, Ages, Tasks
<1>. QED
  BY <1>1, <1>2, <1>3

LEMMA CacheRatesOK ==
    ASSUME IInv, NEW t \in Tasks, CacheRates(t)
    PROVE  IInv'
<1>. USE DEF CacheRates
<1>1. /\ response[t] \in Ages /\ response[t] <= MaxJob
      /\ fxCache' = [age |-> response[t], ttl |-> Ttl]
  <2>1. response[t] \in Ages
    BY DEF IInv, Working
  <2>2. response[t] # None
    BY <2>1, NoneAssumption DEF Ages
  <2>. QED
    BY <2>1, <2>2, TimesAssumption DEF IInv, TypeOK, Fresh, Ages
<1>2. /\ fxCache' \in [age : Ages, ttl : 1 .. Ttl] \cup {None}
      /\ fxCache'.age + fxCache'.ttl <= Ttl + MaxJob
  BY <1>1, TimesAssumption DEF Ages
<1>3. CASE t \in cron
  <2>1. t \in Instances
    BY <1>3 DEF IInv, TypeOK
  <2>2. /\ \A i \in Instances :
              pc'[i] \in {"starting", "idle", "locking", "fetch", "save", "cache", "release"}
        /\ \A r \in FxRequests : pc'[r] = pc[r]
        /\ Working'
    BY <1>3, <2>1, TasksAssumption DEF IInv, TypeOK, Working, Tasks
  <2>3. TypeOK'
    BY <1>2, <1>3, <2>2 DEF IInv, TypeOK, quotes
  <2>4. Fresh'
    BY <1>2, <1>3 DEF IInv, Working, Fresh
  <2>5. Reading' /\ LockHasAHolder'
    BY <1>3 DEF IInv, Working, Reading, LockHasAHolder, Tasks, quotes
  <2>. QED
    BY <2>2, <2>3, <2>4, <2>5 DEF IInv
<1>4. CASE t \notin cron
  <2>1. Leave(t, "idle") /\ UNCHANGED <<clock, missed, due, row, lock, faults, quotes>>
    BY <1>4
  <2>2. TypeOK' /\ Fresh' /\ Working'
    BY <1>2, <2>1, LeaveOK DEF IInv, TypeOK, Fresh, quotes
  <2>3. Reading'
    BY <2>1 DEF IInv, Reading, quotes
  <2>4. LockHasAHolder'
    BY <1>4, <2>1 DEF IInv, Working, Leave, LockHasAHolder, Tasks
  <2>. QED
    BY <2>2, <2>3, <2>4 DEF IInv
<1>. QED
  BY <1>3, <1>4

LEMMA ReleaseOK ==
    ASSUME IInv, NEW i \in Instances, Release(i)
    PROVE  IInv'
<1>. USE DEF Release
<1>1. TypeOK' /\ Fresh' /\ Working'
  <2>. Leave(i, "idle") /\ i \in Tasks
    BY DEF Tasks
  <2>. QED
    BY LeaveOK, TimesAssumption DEF IInv, TypeOK, Fresh, quotes
<1>2. Reading' /\ LockHasAHolder'
  BY DEF IInv, Reading, LockHasAHolder, quotes
<1>. QED
  BY <1>1, <1>2 DEF IInv

\* A fault leaves the lock as it is.
LEMMA FaultOK ==
    ASSUME IInv, NEW t \in Tasks, TaskFails(t) \/ (t \in Instances /\ Crash(t))
    PROVE  IInv'
<1>1. /\ \E then \in {"idle", "starting"} :
            Leave(t, then) /\ (then = "starting" => t \in Instances)
      /\ faults' = faults + 1 /\ faults < MaxFaults /\ due' \subseteq due
      /\ UNCHANGED <<clock, missed, row, lock, fxCache, quotes>>
  BY DEF TaskFails, Crash, GoesDown
<1>2. TypeOK' /\ Fresh' /\ Working'
  BY <1>1, LeaveOK, TimesAssumption DEF IInv, TypeOK, Fresh, quotes
<1>3. Reading' /\ LockHasAHolder'
  BY <1>1 DEF IInv, TypeOK, Reading, LockHasAHolder, quotes
<1>. QED
  BY <1>2, <1>3 DEF IInv

-----------------------------------------------------------------------------
(* The steps of a quoter. *)

LEMMA QuoteOK ==
    ASSUME IInv, NEW q \in Quoters, AskRate(q) \/ QuoteStep(q) \/ QuoteFails(q)
    PROVE  IInv'
<1>1. ASSUME UNCHANGED <<clock, missed, due, row, lock, refresh>>,
             /\ countries' \in [Currencies -> Entries \cup {None}]
             /\ pairs' \in [Pairs -> [from : Ages, to : Ages, ttl : 1 .. Ttl] \cup {None}]
             /\ want' \in [Quoters -> Pairs \cup {None}]
             /\ have' \in [Quoters -> [Sides -> Ages \cup {NoRate, None}]]
             /\ store' \in [Quoters -> SUBSET Sides]
             /\ waited' \in [Quoters -> 0 .. MaxJob],
             Reading'
      PROVE  IInv'
  <2>1. TypeOK'
    BY <1>1 DEF IInv, TypeOK, refresh
  <2>. QED
    BY <1>1, <2>1 DEF IInv, Working, Fresh, LockHasAHolder, refresh
<1>2. ASSUME NEW k \in Sides, want[q] # None
      PROVE  Code(q, k) \in Currencies
  BY <1>2, CountryAssumption DEF IInv, TypeOK, Code
<1>. USE DEF IInv, TypeOK, Reading
<1>3. CASE AskRate(q)
  BY <1>1, <1>3 DEF AskRate
<1>4. ASSUME NEW k \in Sides, ReadCountryCache(q, k)
      PROVE  IInv'
  <2>1. countries[Code(q, k)].age \in Ages \cup {NoRate}
    BY <1>2, <1>4 DEF ReadCountryCache, Entries
  <2>2. countries[Code(q, k)].age # None
    BY <2>1, NoneAssumption DEF Ages
  <2>. QED
    BY <1>1, <1>4, <2>1, <2>2 DEF ReadCountryCache
<1>5. ASSUME NEW k \in Sides, ReadCountryRow(q, k)
      PROVE  IInv'
  <2>1. PICK c \in Countries : have' = [have EXCEPT ![q][k] = row[c]]
    BY <1>5 DEF ReadCountryRow
  <2>2. row[c] \in Ages \cup {NoRate} /\ row[c] # None
    BY NoneAssumption DEF Ages
  <2>. QED
    <3>1. /\ have' \in [Quoters -> [Sides -> Ages \cup {NoRate, None}]]
          /\ store' = [store EXCEPT ![q] = @ \cup {k}]
          /\ store' \in [Quoters -> SUBSET Sides]
          /\ UNCHANGED <<clock, missed, due, row, lock, refresh, countries, pairs, want, waited>>
      BY <1>5, <2>1, <2>2 DEF ReadCountryRow
    <3>2. ASSUME NEW p \in Quoters, NEW j \in Sides
          PROVE  have'[p][j] = IF p = q /\ j = k THEN row[c] ELSE have[p][j]
      BY <2>1
    <3>3. Reading'
      BY <2>2, <3>1, <3>2
    <3>. QED
      BY <1>1, <3>1, <3>3
<1>6. ASSUME NEW k \in Sides, StoreCountry(q, k)
      PROVE  IInv'
  <2>1. have[q][k] \in Ages \cup {NoRate}
    BY <1>6 DEF StoreCountry
  <2>2. [age |-> have[q][k], ttl |-> Ttl] \in Entries
    BY <2>1, TimesAssumption DEF Entries
  <2>. QED
    BY <1>1, <1>6, <2>2 DEF StoreCountry
<1>7. CASE CompareCurrencies(q)
  BY <1>1, <1>7, TimesAssumption DEF CompareCurrencies, Ages
<1>8. CASE Quote(q)
  <2>1. [from |-> have[q]["from"], to |-> have[q]["to"], ttl |-> Ttl]
            \in [from : Ages, to : Ages, ttl : 1 .. Ttl]
    BY <1>8, TimesAssumption DEF Quote, Sides
  <2>. QED
    <3>1. pairs' \in [Pairs -> [from : Ages, to : Ages, ttl : 1 .. Ttl] \cup {None}]
      BY <1>8, <2>1 DEF Quote
    <3>2. /\ Answer(q) /\ UNCHANGED <<clock, missed, due, row, lock, refresh, countries>>
      BY <1>8 DEF Quote
    <3>3. /\ want' \in [Quoters -> Pairs \cup {None}]
          /\ have' \in [Quoters -> [Sides -> Ages \cup {NoRate, None}]]
          /\ store' \in [Quoters -> SUBSET Sides]
          /\ waited' \in [Quoters -> 0 .. MaxJob]
      BY <3>2, TimesAssumption DEF Answer, Empty
    <3>4. Reading'
      BY <3>2 DEF Answer
    <3>. QED
      BY <1>1, <3>1, <3>2, <3>3, <3>4
<1>9. CASE QuoteFails(q)
  BY <1>1, <1>9, TimesAssumption DEF QuoteFails, Answer, Empty
<1>. QED
  BY <1>3, <1>4, <1>5, <1>6, <1>7, <1>8, <1>9 DEF QuoteStep

-----------------------------------------------------------------------------
(* Time. *)

LEMMA TickOK ==
    ASSUME IInv, Tick
    PROVE  IInv'
<1>. USE DEF Tick
<1>1. /\ clock' \in 0 .. Period - 1 /\ due' \subseteq Instances
      /\ lock' \in 0 .. Ttl /\ missed' \in 0 .. MaxMissed
  BY TimesAssumption DEF IInv, TypeOK, LockTtl, CronTime, Up
<1>2. row' \in [Countries -> Ages \cup {NoRate}]
  BY OlderTyped DEF IInv, TypeOK
<1>3. /\ fxCache' \in [age : Ages, ttl : 1 .. Ttl] \cup {None}
      /\ fxCache' # None => fxCache'.age + fxCache'.ttl <= Ttl + MaxJob
  <2>1. /\ fxCache' = Entry(fxCache)
        /\ fxCache \in [age : Ages, ttl : 1 .. Ttl] \cup {None}
        /\ fxCache # None => fxCache.age + fxCache.ttl <= Ttl + MaxJob
    BY DEF IInv, TypeOK, Fresh
  <2>2. /\ Entry(fxCache) \in [age : Ages, ttl : 1 .. Ttl] \cup {None}
        /\ Entry(fxCache) # None =>
              fxCache # None /\ Entry(fxCache).age + Entry(fxCache).ttl <= fxCache.age + fxCache.ttl
    BY <2>1, FxEntry
  <2>. DEFINE e == Entry(fxCache)
  <2>. HIDE DEF e
  <2>3. CASE e = None
    BY <2>1, <2>2, <2>3 DEF e
  <2>4. CASE e # None
    <3>1. /\ e.age \in Int /\ e.ttl \in Int /\ fxCache.age \in Int /\ fxCache.ttl \in Int
      BY <2>1, <2>2, <2>4 DEF e, Ages
    <3>. QED
      BY <2>1, <2>2, <2>4, <3>1, TimesAssumption DEF e
  <2>. QED
    BY <2>3, <2>4
<1>4. /\ response' \in [Tasks -> Ages \cup {None}]
      /\ busy' \in [Tasks -> 0 .. MaxJob]
  BY OlderTyped, TimesAssumption DEF IInv, TypeOK
<1>5. ASSUME NEW t \in Tasks, response'[t] # None
      PROVE  response'[t] <= busy'[t] /\ pc[t] \in {"save", "cache", "release"}
  <2>1. response[t] \in Ages /\ response'[t] = Older(response[t])
    BY <1>5, OlderTyped DEF IInv, TypeOK
  <2>2. response[t] # None
    BY <2>1, NoneAssumption DEF Ages
  <2>3. response[t] <= busy[t] /\ pc[t] \in {"save", "cache", "release"}
    BY <2>2 DEF IInv, Fresh
  <2>4. busy'[t] = busy[t] + 1 /\ busy[t] \in Nat
    BY <2>3, TimesAssumption DEF AtWork, IInv, TypeOK
  <2>5. Older(response[t]) \in Ages /\ Older(response[t]) <= response[t] + 1
    BY <2>1, OlderTyped
  <2>. QED
    BY <2>1, <2>3, <2>4, <2>5, TimesAssumption DEF Ages
<1>6. /\ countries' \in [Currencies -> Entries \cup {None}]
      /\ pairs' \in [Pairs -> [from : Ages, to : Ages, ttl : 1 .. Ttl] \cup {None}]
  BY EntryTyped, PairEntryTyped DEF IInv, TypeOK
<1>7. /\ have' \in [Quoters -> [Sides -> Ages \cup {NoRate, None}]]
      /\ waited' \in [Quoters -> 0 .. MaxJob]
  <2>1. have' = [q \in Quoters |-> [k \in Sides |-> Older(have[q][k])]]
    OBVIOUS
  <2>2. \A q \in Quoters, k \in Sides : have[q][k] \in Ages \cup {NoRate, None}
    BY DEF IInv, TypeOK
  <2>3. \A q \in Quoters, k \in Sides : Older(have[q][k]) \in Ages \cup {NoRate, None}
    BY <2>2, OlderTyped
  <2>4. waited' \in [Quoters -> 0 .. MaxJob]
    BY TimesAssumption DEF IInv, TypeOK
  <2>. HIDE DEF Tick
  <2>. QED
    BY <2>1, <2>3, <2>4
<1>8. TypeOK'
  BY <1>1, <1>2, <1>3, <1>4, <1>6, <1>7 DEF IInv, TypeOK
<1>9. Working'
  <2>1. \A t \in Tasks : response[t] \in Ages => response'[t] \in Ages
    BY OlderTyped
  <2>. QED
    BY <2>1 DEF IInv, Working
<1>10. Fresh'
  BY <1>3, <1>5 DEF Fresh
<1>11. Reading'
  <2>1. \A a \in Ages \cup {NoRate} : Older(a) # None
    BY OlderTyped, NoneAssumption DEF Ages
  <2>. QED
    BY <2>1 DEF IInv, TypeOK, Reading
<1>12. LockHasAHolder'
  <2>1. lock \in Nat /\ (lock' > 0 => lock > 0)
    BY TimesAssumption DEF IInv, TypeOK, LockTtl
  <2>2. UNCHANGED <<faults, cron, pc>> /\ LockHasAHolder
    BY DEF IInv
  <2>. HIDE DEF Tick
  <2>. QED
    BY <2>1, <2>2 DEF LockHasAHolder
<1>. QED
  BY <1>8, <1>9, <1>10, <1>11, <1>12 DEF IInv

-----------------------------------------------------------------------------
(* Jobs and the clock. *)

\* Jobs begin when the clock is at 0 and are over before it is there again.
OnTime ==
    /\ due # {} => clock = 0
    /\ \A i \in cron : busy[i] = clock /\ pc[i] \notin {"starting", "idle"}
    /\ \A i \in Instances : pc[i] \in {"starting", "idle"} => busy[i] = 0
    /\ lock <= LostRuns * Period - clock

\* LostRuns is the number of periods that a job and its lock can take, rounded up.
LEMMA LostRunsSuffice ==
    LostRuns \in Nat \ {0} /\ LostRuns * Period \in Nat /\ LostRuns * Period >= MaxJob + Ttl
<1>1. \A n \in Nat, d \in Nat \ {0} : n \div d \in Nat /\ n < (n \div d) * d + d
  BY SMT
<1>2. MaxJob + Ttl + Period - 1 \in Nat /\ Period \in Nat \ {0}
  BY TimesAssumption
<1>. DEFINE runs == LostRuns * Period
<1>3. LostRuns \in Nat /\ MaxJob + Ttl + Period - 1 < runs + Period
  BY <1>1, <1>2 DEF LostRuns
<1>4. runs \in Nat /\ (LostRuns = 0 => runs = 0)
  BY <1>2, <1>3
<1>. HIDE DEF runs
<1>5. runs >= MaxJob + Ttl /\ LostRuns # 0
  BY <1>3, <1>4, TimesAssumption
<1>. QED
  BY <1>3, <1>4, <1>5 DEF runs

\* The multiples of the period.
LEMMA OnePeriod ==
    \A j \in Nat :
        /\ j * Period \in Nat /\ (j + 1) * Period = j * Period + Period
        /\ j # 0 => j * Period >= Period /\ (j - 1) * Period = j * Period - Period
<1>1. Period \in Nat \ {0}
  BY TimesAssumption
<1>2. \A j \in Nat : j * Period \in Nat /\ (j + 1) * Period = j * Period + Period
  BY <1>1, SMT
<1>3. ASSUME NEW j \in Nat, j # 0
      PROVE  j * Period >= Period /\ (j - 1) * Period = j * Period - Period
  <2>1. PICK n \in Nat : j = n + 1 /\ n = j - 1
    <3>. j - 1 \in Nat /\ j = (j - 1) + 1
      BY <1>3
    <3>. QED
      OBVIOUS
  <2>. DEFINE less == n * Period
  <2>2. less \in Nat /\ j * Period = less + Period /\ (j - 1) * Period = less
    BY <1>2, <2>1
  <2>. HIDE DEF less
  <2>. QED
    BY <1>1, <2>2
<1>. QED
  BY <1>2, <1>3

LEMMA ClockTicks ==
    ASSUME TypeOK, Tick
    PROVE  clock' = IF clock = Period - 1 THEN 0 ELSE clock + 1
<1>1. clock \in 0 .. Period - 1 /\ Period \in Nat \ {0} /\ clock' = (clock + 1) % Period
  BY TimesAssumption DEF TypeOK, Tick
<1>2. CASE clock = Period - 1
  BY <1>1, <1>2
<1>3. CASE clock # Period - 1
  BY <1>1, <1>3
<1>. QED
  BY <1>2, <1>3

\* A job under way when time passes leaves the clock short of the next run.
LEMMA JobsEndInTime ==
    ASSUME IInv, OnTime, Tick, NEW i \in cron
    PROVE  /\ clock = busy[i] /\ clock < MaxJob /\ clock' = clock + 1
           /\ busy'[i] = busy[i] + 1
<1>1. i \in Instances /\ i \in Tasks /\ busy[i] = clock /\ AtWork(i)
  BY DEF IInv, TypeOK, OnTime, Tasks, AtWork
<1>2. clock < MaxJob /\ busy'[i] = busy[i] + 1
  BY <1>1 DEF Tick
<1>3. clock # Period - 1
  BY <1>2, ScheduleAssumption, TimesAssumption DEF IInv, TypeOK
<1>. QED
  BY <1>1, <1>2, <1>3, ClockTicks DEF IInv

LEMMA LeaveOnTime ==
    ASSUME IInv, OnTime, NEW t \in Tasks, NEW then \in {"idle", "starting"}, Leave(t, then),
           due' \subseteq due, clock' = clock, lock' \in {lock, 0}
    PROVE  OnTime'
<1>1. \A o \in Tasks :
         /\ pc'[o] = IF o = t THEN then ELSE pc[o]
         /\ busy'[o] = IF o = t THEN 0 ELSE busy[o]
  BY DEF IInv, TypeOK, Working, Leave
<1>2. \A i \in cron' : busy'[i] = clock /\ pc'[i] \notin {"starting", "idle"}
  BY <1>1 DEF IInv, TypeOK, OnTime, Leave, Tasks
<1>3. \A i \in Instances : pc'[i] \in {"starting", "idle"} => busy'[i] = 0
  BY <1>1 DEF OnTime, Tasks
<1>. DEFINE runs == LostRuns * Period
<1>4. lock' <= runs - clock
  <2>1. clock \in 0 .. Period - 1 /\ lock <= runs - clock /\ runs \in Nat /\ lock \in Nat
    BY LostRunsSuffice, TimesAssumption DEF IInv, TypeOK, OnTime
  <2>2. runs >= Period
    BY LostRunsSuffice, OnePeriod
  <2>. HIDE DEF runs
  <2>. QED
    BY <2>1, <2>2, TimesAssumption
<1>. QED
  BY <1>2, <1>3, <1>4 DEF OnTime

\* A task goes on to its next statement.
LEMMA GoesOnTime ==
    ASSUME IInv, OnTime, NEW t \in Tasks, NEW to, pc' = [pc EXCEPT ![t] = to],
           to \notin {"starting", "idle"}, UNCHANGED <<clock, missed, due, cron, busy, lock>>
    PROVE  OnTime'
BY DEF IInv, TypeOK, Working, OnTime, Tasks

LEMMA StepOnTime ==
    ASSUME IInv, OnTime, [Next]_vars
    PROVE  OnTime'
<1>1. CASE UNCHANGED vars
  BY <1>1 DEF OnTime, vars, refresh
<1>2. ASSUME NEW i \in Instances, Seed(i)
      PROVE  OnTime'
  BY <1>2 DEF IInv, TypeOK, Working, OnTime, Seed, Tasks
<1>3. ASSUME NEW i \in Instances, CronFires(i)
      PROVE  OnTime'
  <2>1. clock = 0 /\ busy[i] = 0
    BY <1>3 DEF OnTime, CronFires
  <2>. QED
    BY <1>3, <2>1 DEF IInv, TypeOK, Working, OnTime, CronFires, Tasks
<1>4. ASSUME NEW i \in Instances, SetLock(i)
      PROVE  OnTime'
  <2>1. i \in cron /\ i \in Tasks
    BY <1>4 DEF IInv, Working, SetLock, Tasks
  <2>2. clock \in Nat /\ clock <= MaxJob
    BY <2>1, TimesAssumption DEF IInv, TypeOK, OnTime
  <2>3. lock' <= LostRuns * Period - clock
    BY <1>4, <2>2, LostRunsSuffice, TimesAssumption DEF SetLock
  <2>. QED
    BY <1>4, <2>3 DEF IInv, TypeOK, Working, OnTime, SetLock, Tasks
<1>5. ASSUME NEW t \in FxRequests, FxRatesMissing(t)
      PROVE  OnTime'
  <2>1. /\ t \in Tasks /\ pc' = [pc EXCEPT ![t] = "fetch"]
        /\ UNCHANGED <<clock, missed, due, cron, busy, lock>>
    BY <1>5 DEF FxRatesMissing, Tasks
  <2>. QED
    BY <2>1, GoesOnTime
<1>6. ASSUME NEW t \in Tasks, Fetch(t) \/ \E c \in Countries : SaveRate(t, c)
      PROVE  OnTime'
  BY <1>6, GoesOnTime DEF Fetch, SaveRate
<1>7. ASSUME NEW t \in Tasks, CacheRates(t)
      PROVE  OnTime'
  BY <1>7, GoesOnTime, LeaveOnTime DEF CacheRates
<1>8. ASSUME NEW t \in Tasks, (t \in Instances /\ (Release(t) \/ Crash(t))) \/ TaskFails(t)
      PROVE  OnTime'
  BY <1>8, LeaveOnTime DEF Release, Crash, TaskFails, GoesDown
<1>9. ASSUME NEW q \in Quoters, AskRate(q) \/ QuoteStep(q) \/ QuoteFails(q)
      PROVE  OnTime'
  BY <1>9 DEF OnTime, QuoteStep, AskRate, ReadCountryCache, ReadCountryRow, StoreCountry,
              CompareCurrencies, Quote, QuoteFails, refresh
<1>10. CASE Tick
  <2>1. \A i \in cron' : busy'[i] = clock' /\ pc'[i] \notin {"starting", "idle"}
    BY <1>10, JobsEndInTime DEF OnTime, Tick
  <2>2. \A i \in Instances : pc'[i] \in {"starting", "idle"} => busy'[i] = 0
    BY <1>10 DEF Tick, AtWork, Tasks
  <2>. DEFINE runs == LostRuns * Period
  <2>3. lock' <= runs - clock'
    <3>1. /\ lock <= runs - clock /\ lock \in Nat /\ clock \in 0 .. Period - 1
          /\ runs \in Nat /\ runs >= Period
      BY LostRunsSuffice, OnePeriod, TimesAssumption DEF IInv, TypeOK, OnTime
    <3>2. lock' = IF lock = 0 THEN 0 ELSE lock - 1
      BY <1>10 DEF Tick, LockTtl
    <3>3. clock' = IF clock = Period - 1 THEN 0 ELSE clock + 1
      BY <1>10, ClockTicks DEF IInv
    <3>. HIDE DEF runs
    <3>. QED
      BY <3>1, <3>2, <3>3, TimesAssumption
  <2>4. due' # {} => clock' = 0
    BY <1>10 DEF Tick
  <2>. QED
    BY <2>1, <2>2, <2>3, <2>4 DEF OnTime
<1>. QED
  BY <1>1, <1>2, <1>3, <1>4, <1>5, <1>6, <1>7, <1>8, <1>9, <1>10
     DEF Next, InstanceStep, RefreshStep, Tasks

-----------------------------------------------------------------------------
(* The age of the rows. *)

\* What faults and outages so far may have cost.
Cost == (faults * LostRuns + missed) * Period

\* A job is still to save row c.
Coming(c) ==
    \E i \in cron : pc[i] \in {"locking", "fetch"} \/ (pc[i] = "save" /\ c \in todo[i])

\* The lock is gone at the j-th run from now: its ttl ends, or its job does.
Unlocked(j) == lock <= j * Period - clock \/ \E i \in cron : pc[i] # "locking"

\* The row was saved in the last run, and this run is to save it too; or it was saved in
\* this run, or faults that are paid for have cost this one and runs to come, and the lock
\* is gone at the run that the row can wait for.
InTime(c) ==
    \/ /\ row[c] <= clock + MaxJob + Period + Cost
       /\ Coming(c) \/ (due # {} /\ lock = 0)
    \/ \E j \in 1 .. LostRuns :
          row[c] + j * Period <= clock + MaxJob + Period + Cost /\ Unlocked(j)

RowsInTime == \A c \in Countries : row[c] # NoRate => InTime(c)

LEMMA CostGrows ==
    ASSUME TypeOK
    PROVE  /\ Cost \in Nat
           /\ faults > 0 => Cost >= LostRuns * Period
           /\ faults' = faults + 1 /\ missed' = missed => Cost' = Cost + LostRuns * Period
           /\ faults' = faults /\ missed' = missed + 1 => Cost' = Cost + Period
           /\ faults' = faults /\ missed' = missed => Cost' = Cost
<1>. DEFINE runs == LostRuns * Period
<1>1. /\ faults \in Nat /\ missed \in Nat /\ LostRuns \in Nat /\ Period \in Nat /\ runs \in Nat
  BY LostRunsSuffice, TimesAssumption DEF TypeOK
<1>2. \A m, n \in Nat :
         /\ (m * LostRuns + n) * Period = m * runs + n * Period
         /\ m * runs \in Nat /\ n * Period \in Nat
         /\ (m + 1) * runs = m * runs + runs /\ (n + 1) * Period = n * Period + Period
  BY <1>1, SMT
<1>3. /\ Cost = faults * runs + missed * Period
      /\ faults' \in Nat /\ missed' \in Nat => Cost' = faults' * runs + missed' * Period
  BY <1>1, <1>2 DEF Cost
<1>. HIDE DEF runs
<1>4. ASSUME faults > 0
      PROVE  faults * runs >= runs
  <2>1. PICK n \in Nat : faults = n + 1
    <3>. faults - 1 \in Nat /\ faults = (faults - 1) + 1
      BY <1>1, <1>4
    <3>. QED
      OBVIOUS
  <2>2. n * runs \in Nat /\ faults * runs = n * runs + runs
    BY <1>2, <2>1
  <2>. DEFINE less == n * runs
  <2>. HIDE DEF less
  <2>3. less \in Nat /\ faults * runs = less + runs
    BY <2>2 DEF less
  <2>. QED
    BY <1>1, <2>3
<1>. DEFINE f == faults * runs
            m == missed * Period
<1>5. f \in Nat /\ m \in Nat /\ Cost = f + m /\ (faults > 0 => f >= runs)
  BY <1>1, <1>2, <1>3, <1>4
<1>6. faults' = faults + 1 /\ missed' = missed => Cost' = f + runs + m
  BY <1>1, <1>2, <1>3
<1>7. faults' = faults /\ missed' = missed + 1 => Cost' = f + (m + Period)
  BY <1>1, <1>2, <1>3
<1>8. faults' = faults /\ missed' = missed => Cost' = f + m
  BY <1>1, <1>3
<1>. HIDE DEF f, m
<1>9. /\ Cost \in Nat
      /\ faults > 0 => Cost >= runs
      /\ faults' = faults + 1 /\ missed' = missed => Cost' = Cost + runs
      /\ faults' = faults /\ missed' = missed + 1 => Cost' = Cost + Period
      /\ faults' = faults /\ missed' = missed => Cost' = Cost
  BY <1>1, <1>5, <1>6, <1>7, <1>8
<1>. QED
  BY <1>9 DEF runs

\* A lock that is left behind is the work of a fault, and gone when its runs are over.
LEMMA LeftBehind ==
    ASSUME IInv, OnTime, NEW j \in 1 .. LostRuns, ~Unlocked(j)
    PROVE  Cost >= LostRuns * Period
<1>. DEFINE wait == j * Period
<1>1. wait \in Nat /\ wait >= Period
  BY OnePeriod, LostRunsSuffice
<1>2. ~(lock <= wait - clock) /\ ~ \E i \in cron : pc[i] # "locking"
  BY DEF Unlocked
<1>. HIDE DEF wait
<1>3. lock > 0
  BY <1>1, <1>2, TimesAssumption DEF IInv, TypeOK
<1>4. faults > 0
  BY <1>2, <1>3, TimesAssumption DEF IInv, TypeOK, LockHasAHolder
<1>. QED
  BY <1>4, CostGrows DEF IInv

LEMMA UnlockedInTheEnd ==
    ASSUME OnTime
    PROVE  LostRuns \in 1 .. LostRuns /\ Unlocked(LostRuns)
BY LostRunsSuffice DEF OnTime, Unlocked

\* A row that has just been saved is in time.
LEMMA NewRow ==
    ASSUME IInv, OnTime, NEW a \in Nat, a <= MaxJob
    PROVE  \E j \in 1 .. LostRuns :
              a + j * Period <= clock + MaxJob + Period + Cost /\ Unlocked(j)
<1>1. 1 * Period = Period /\ 1 \in 1 .. LostRuns
  BY LostRunsSuffice, TimesAssumption
<1>2. clock \in Nat /\ Cost \in Nat
  BY CostGrows, TimesAssumption DEF IInv, TypeOK
<1>3. CASE Unlocked(1)
  <2>1. a + 1 * Period <= clock + MaxJob + Period + Cost
    BY <1>1, <1>2, TimesAssumption
  <2>. QED
    BY <1>1, <1>3, <2>1
<1>4. CASE ~Unlocked(1)
  <2>. DEFINE runs == LostRuns * Period
  <2>1. Cost >= runs /\ runs \in Nat
    BY <1>1, <1>4, LeftBehind, LostRunsSuffice
  <2>. HIDE DEF runs
  <2>2. a + runs <= clock + MaxJob + Period + Cost
    BY <1>2, <2>1, TimesAssumption
  <2>. QED
    BY <2>2, UnlockedInTheEnd DEF runs
<1>. QED
  BY <1>3, <1>4

\* A fault pays for the run it costs and for those its lock does.
LEMMA FaultInTime ==
    ASSUME IInv, OnTime, RowsInTime, faults' = faults + 1, UNCHANGED <<clock, missed, row, lock>>
    PROVE  RowsInTime'
<1>. DEFINE runs == LostRuns * Period
<1>. SUFFICES ASSUME NEW c \in Countries, row[c] # NoRate
              PROVE  row[c] + runs <= clock + MaxJob + Period + Cost'
  <2>1. LostRuns \in 1 .. LostRuns /\ lock' <= LostRuns * Period - clock'
    BY LostRunsSuffice DEF OnTime
  <2>. QED
    BY <2>1 DEF RowsInTime, InTime, Unlocked
<1>1. row[c] \in Nat /\ clock \in Nat /\ Cost \in Nat /\ runs \in Nat /\ Cost' = Cost + runs
  BY CostGrows, LostRunsSuffice, TimesAssumption DEF IInv, TypeOK, Ages
<1>. HIDE DEF runs
<1>2. row[c] <= clock + MaxJob + Period + Cost
  <2>1. CASE \E j \in 1 .. LostRuns : row[c] + j * Period <= clock + MaxJob + Period + Cost
    <3>1. PICK j \in Nat : row[c] + j * Period <= clock + MaxJob + Period + Cost
      BY <2>1, LostRunsSuffice
    <3>. DEFINE wait == j * Period
    <3>2. wait \in Nat
      BY OnePeriod
    <3>. HIDE DEF wait
    <3>3. row[c] + wait <= clock + MaxJob + Period + Cost
      BY <3>1 DEF wait
    <3>. QED
      BY <1>1, <3>2, <3>3, TimesAssumption
  <2>. QED
    BY <2>1 DEF RowsInTime, InTime
<1>. QED
  BY <1>1, <1>2, TimesAssumption

\* A step without a fault that saves no row: what a row waits for goes on.
LEMMA StaysInTime ==
    ASSUME IInv, RowsInTime, UNCHANGED <<clock, missed, row, faults>>,
           \A c \in Countries : Coming(c) => Coming(c)',
           due # {} /\ lock = 0 =>
              \/ \A c \in Countries : Coming(c)'
              \/ due' # {} /\ lock' = 0,
           \A j \in 1 .. LostRuns : Unlocked(j) => Unlocked(j)'
    PROVE  RowsInTime'
BY DEF RowsInTime, InTime, Cost

LEMMA NoLock ==
    ASSUME TypeOK, NEW j \in 1 .. LostRuns
    PROVE  0 <= j * Period - clock
<1>. DEFINE wait == j * Period
<1>1. wait \in Nat /\ wait >= Period
  BY OnePeriod, LostRunsSuffice
<1>. HIDE DEF wait
<1>2. 0 <= wait - clock
  BY <1>1, TimesAssumption DEF TypeOK
<1>. QED
  BY <1>2 DEF wait

LEMMA JobInTime ==
    ASSUME IInv, OnTime, RowsInTime, NEW i \in Instances,
           Seed(i) \/ CronFires(i) \/ SetLock(i) \/ Release(i)
    PROVE  RowsInTime'
<1>. i \in Tasks
  BY DEF Tasks
<1>1. CASE Seed(i)
  <2>1. \A j \in cron : pc'[j] = pc[j]
    BY <1>1 DEF IInv, TypeOK, Working, OnTime, Seed
  <2>2. UNCHANGED <<clock, missed, row, faults, cron, todo, due, lock>>
    BY <1>1 DEF Seed
  <2>. QED
    BY <2>1, <2>2, StaysInTime DEF Coming, Unlocked
<1>2. CASE CronFires(i) /\ lock = 0
  <2>1. /\ pc' = [pc EXCEPT ![i] = "locking"] /\ cron' = cron \cup {i}
        /\ UNCHANGED <<clock, missed, row, faults, todo, lock>>
    BY <1>2 DEF CronFires
  <2>2. \A c \in Countries : Coming(c)'
    BY <2>1 DEF IInv, Working, Coming
  <2>3. \A j \in 1 .. LostRuns : Unlocked(j)'
    BY <1>2, <2>1, NoLock DEF IInv, Unlocked
  <2>. QED
    BY <2>1, <2>2, <2>3, StaysInTime
<1>3. CASE CronFires(i) /\ lock # 0
  BY <1>3, StaysInTime DEF CronFires, Coming, Unlocked
<1>4. CASE SetLock(i)
  <2>1. i \in cron
    BY <1>4 DEF IInv, Working, SetLock
  <2>2. /\ pc' = [pc EXCEPT ![i] = "fetch"] /\ pc'[i] = "fetch"
        /\ UNCHANGED <<clock, missed, row, faults, cron>>
    BY <1>4 DEF IInv, Working, SetLock
  <2>3. (\A c \in Countries : Coming(c)') /\ \A j \in 1 .. LostRuns : Unlocked(j)'
    BY <2>1, <2>2 DEF Coming, Unlocked
  <2>. QED
    BY <2>2, <2>3, StaysInTime
<1>5. CASE Release(i)
  <2>1. /\ \A j \in cron : j # i => j \in cron' /\ pc'[j] = pc[j] /\ todo'[j] = todo[j]
        /\ lock' = 0 /\ pc[i] = "release" /\ UNCHANGED <<clock, missed, row, faults, due>>
    BY <1>5 DEF IInv, TypeOK, Working, Release, Leave, Tasks
  <2>2. \A c \in Countries : Coming(c) => Coming(c)'
    BY <2>1 DEF Coming
  <2>3. \A j \in 1 .. LostRuns : Unlocked(j)'
    BY <2>1, NoLock DEF IInv, Unlocked
  <2>. QED
    BY <2>1, <2>2, <2>3, StaysInTime
<1>. QED
  BY <1>1, <1>2, <1>3, <1>4, <1>5

LEMMA RefreshInTime ==
    ASSUME IInv, OnTime, RowsInTime, NEW t \in Tasks,
           (t \in FxRequests /\ FxRatesMissing(t)) \/ Fetch(t) \/ CacheRates(t)
    PROVE  RowsInTime'
<1>1. \A j \in cron : j \in Tasks /\ j \in Instances
  BY DEF IInv, TypeOK, Tasks
<1>2. CASE t \in FxRequests /\ FxRatesMissing(t)
  <2>1. \A j \in cron : pc'[j] = pc[j]
    BY <1>1, <1>2, TasksAssumption DEF IInv, Working, FxRatesMissing
  <2>2. UNCHANGED <<clock, missed, row, faults, cron, todo, due, lock>>
    BY <1>2 DEF FxRatesMissing
  <2>. QED
    BY <2>1, <2>2, StaysInTime DEF Coming, Unlocked
<1>3. CASE Fetch(t)
  <2>1. /\ pc' = [pc EXCEPT ![t] = "save"] /\ todo' = [todo EXCEPT ![t] = Countries]
        /\ pc[t] = "fetch" /\ UNCHANGED <<clock, missed, row, faults, cron, due, lock>>
    BY <1>3 DEF Fetch
  <2>2. \A j \in cron :
           \/ pc'[j] = pc[j] /\ todo'[j] = todo[j]
           \/ pc'[j] = "save" /\ todo'[j] = Countries
    BY <1>1, <2>1 DEF IInv, TypeOK, Working
  <2>3. \A c \in Countries : Coming(c) => Coming(c)'
    BY <2>1, <2>2 DEF Coming
  <2>4. \A j \in 1 .. LostRuns : Unlocked(j) => Unlocked(j)'
    BY <2>1, <2>2 DEF Unlocked
  <2>. QED
    BY <2>1, <2>3, <2>4, StaysInTime
<1>4. CASE CacheRates(t)
  <2>1. \A j \in cron :
           /\ j \in cron'
           /\ \/ pc'[j] = pc[j] /\ todo'[j] = todo[j]
              \/ pc[j] = "cache" /\ pc'[j] = "release"
    BY <1>1, <1>4 DEF IInv, TypeOK, Working, CacheRates, Leave
  <2>2. cron' \subseteq cron /\ UNCHANGED <<clock, missed, row, faults, due, lock>>
    BY <1>4 DEF CacheRates, Leave
  <2>3. \A c \in Countries : Coming(c) => Coming(c)'
    BY <2>1 DEF Coming
  <2>4. \A j \in 1 .. LostRuns : Unlocked(j) => Unlocked(j)'
    BY <2>1, <2>2 DEF Unlocked
  <2>. QED
    BY <2>2, <2>3, <2>4, StaysInTime
<1>. QED
  BY <1>2, <1>3, <1>4

\* The row that is saved is no older than the task; the others are still to come.
LEMMA SaveInTime ==
    ASSUME IInv, OnTime, RowsInTime, NEW t \in Tasks, NEW d \in Countries, SaveRate(t, d)
    PROVE  RowsInTime'
<1>1. /\ pc[t] = "save" /\ row' = [row EXCEPT ![d] = response[t]]
      /\ todo' = [todo EXCEPT ![t] = @ \ {d}]
      /\ pc' = [pc EXCEPT ![t] = IF todo[t] = {d} THEN "cache" ELSE "save"]
      /\ UNCHANGED <<clock, missed, due, lock, cron, faults>>
  BY DEF SaveRate
<1>2. response[t] \in Nat /\ response[t] <= MaxJob
  <2>1. response[t] \in Ages
    BY <1>1 DEF IInv, Working
  <2>2. response[t] # None
    BY <2>1, NoneAssumption DEF Ages
  <2>. QED
    BY <2>1, <2>2, TimesAssumption DEF IInv, TypeOK, Fresh, Ages
<1>3. \A j \in cron :
         \/ pc'[j] = pc[j] /\ todo'[j] = todo[j]
         \/ /\ pc[j] = "save" /\ pc'[j] \in {"save", "cache"} /\ todo'[j] = todo[j] \ {d}
            /\ pc'[j] = "cache" => todo[j] = {d}
  BY <1>1 DEF IInv, TypeOK, Working, Tasks
<1>4. \A j \in 1 .. LostRuns : Unlocked(j) => Unlocked(j)'
  BY <1>1, <1>3 DEF Unlocked
<1>5. \A c \in Countries : c # d /\ Coming(c) => Coming(c)'
  BY <1>1, <1>3 DEF Coming
<1>. SUFFICES ASSUME NEW c \in Countries, row'[c] # NoRate
              PROVE  InTime(c)'
  BY DEF RowsInTime
<1>6. CASE c = d
  <2>1. row'[c] = response[t]
    BY <1>1, <1>6 DEF IInv, TypeOK
  <2>2. \E j \in 1 .. LostRuns :
           response[t] + j * Period <= clock + MaxJob + Period + Cost /\ Unlocked(j)
    BY <1>2, NewRow
  <2>. QED
    BY <1>1, <1>4, <2>1, <2>2 DEF InTime, Cost
<1>7. CASE c # d
  <2>1. row'[c] = row[c] /\ InTime(c)
    BY <1>1, <1>7 DEF IInv, TypeOK, RowsInTime
  <2>. QED
    BY <1>1, <1>4, <1>5, <1>7, <2>1 DEF InTime, Cost
<1>. QED
  BY <1>6, <1>7

\* Nothing is due any more; a run whose time has come finds a lock only if a fault
\* that is paid for has left it, and nobody to do it only at an outage that is counted.
LEMMA TickInTime ==
    ASSUME IInv, OnTime, RowsInTime, Tick
    PROVE  RowsInTime'
<1>. SUFFICES ASSUME NEW c \in Countries, row'[c] # NoRate
              PROVE  InTime(c)'
  BY DEF RowsInTime
<1>. USE TimesAssumption
<1>1. /\ row[c] \in Nat /\ row'[c] \in Nat /\ row'[c] <= row[c] + 1 /\ InTime(c)
  <2>1. row[c] \in Ages \cup {NoRate} /\ row'[c] = Older(row[c])
    BY DEF IInv, TypeOK, Tick
  <2>2. row[c] \in Ages /\ row[c] # NoRate
    BY <2>1, OlderTyped, NoneAssumption DEF Ages
  <2>. QED
    BY <2>1, <2>2, OlderTyped DEF Ages, RowsInTime
<1>2. /\ clock \in 0 .. Period - 1
      /\ clock' = IF clock = Period - 1 THEN 0 ELSE clock + 1
      /\ lock \in 0 .. Ttl /\ lock' = (IF lock = 0 THEN 0 ELSE lock - 1)
      /\ due = {} /\ UNCHANGED <<pc, cron, todo, faults>>
  BY ClockTicks DEF IInv, TypeOK, Tick, LockTtl
<1>3. /\ Cost \in Nat /\ Cost' \in {Cost, Cost + Period}
      /\ clock' = 0 => due' # {} \/ Cost' = Cost + Period
  <2>1. clock' = 0 => /\ missed' \in {missed, missed + 1}
                      /\ due' = {} => missed' = missed + 1
    BY DEF Tick, CronTime
  <2>2. clock' # 0 => missed' = missed
    BY DEF Tick
  <2>. QED
    BY <1>2, <2>1, <2>2, CostGrows DEF IInv
<1>4. ASSUME NEW i \in cron
      PROVE  clock # Period - 1
  <2>1. clock < MaxJob
    BY JobsEndInTime
  <2>. QED
    BY <1>2, <2>1, ScheduleAssumption
<1>5. CASE clock = Period - 1
  <2>1. clock' = 0 /\ cron = {} /\ ~Coming(c)
    BY <1>2, <1>4, <1>5 DEF Coming
  <2>2. PICK j \in 1 .. LostRuns :
           row[c] + j * Period <= clock + MaxJob + Period + Cost /\ Unlocked(j)
    BY <1>1, <1>2, <2>1 DEF InTime
  <2>. DEFINE wait == j * Period
  <2>3. j \in Nat \ {0} /\ wait \in Nat /\ (j - 1) * Period = wait - Period /\ 1 * Period = Period
    BY OnePeriod, LostRunsSuffice
  <2>4. lock <= wait - clock /\ row[c] + wait <= clock + MaxJob + Period + Cost
    BY <2>1, <2>2 DEF Unlocked
  <2>5. j = 1 => wait = Period
    BY <2>3
  <2>. HIDE DEF wait
  <2>6. lock' <= wait - Period \/ lock' = 0
    BY <1>2, <1>5, <2>3, <2>4
  <2>7. row'[c] + wait <= clock' + MaxJob + Period + Period + Cost
    BY <1>1, <1>2, <1>3, <1>5, <2>1, <2>3, <2>4
  <2>8. CASE j = 1
    <3>1. lock' = 0 /\ row'[c] <= clock' + MaxJob + Period + Cost
      BY <1>1, <1>2, <1>3, <2>1, <2>5, <2>6, <2>7, <2>8
    <3>2. CASE due' # {}
      <4>1. row'[c] <= clock' + MaxJob + Period + Cost'
        BY <1>1, <1>2, <1>3, <2>1, <3>1
      <4>. QED
        BY <3>1, <3>2, <4>1 DEF InTime
    <3>3. CASE due' = {}
      <4>1. Cost' = Cost + Period
        BY <1>3, <2>1, <3>3
      <4>2. row'[c] + Period <= clock' + MaxJob + Period + Cost'
        BY <1>1, <1>3, <2>1, <3>1, <4>1
      <4>3. lock' <= 1 * Period - clock'
        BY <2>1, <2>3, <3>1
      <4>. QED
        BY <2>3, <4>2, <4>3, LostRunsSuffice DEF InTime, Unlocked
    <3>. QED
      BY <3>2, <3>3
  <2>9. CASE j # 1
    <3>1. j - 1 \in 1 .. LostRuns
      BY <2>9, LostRunsSuffice
    <3>2. row'[c] + (wait - Period) <= clock' + MaxJob + Period + Cost'
      BY <1>1, <1>3, <2>1, <2>3, <2>7
    <3>3. lock' <= (wait - Period) - clock'
      <4>1. (j - 1) * Period \in Nat
        BY <3>1, OnePeriod, LostRunsSuffice
      <4>2. wait - Period \in Nat
        BY <2>3, <4>1
      <4>. QED
        BY <1>2, <2>1, <2>6, <4>2
    <3>4. row'[c] + (j - 1) * Period <= clock' + MaxJob + Period + Cost'
      BY <2>3, <3>2
    <3>5. lock' <= (j - 1) * Period - clock'
      BY <2>3, <3>3
    <3>. QED
      BY <3>1, <3>4, <3>5 DEF InTime, Unlocked
  <2>. QED
    BY <2>8, <2>9
<1>6. CASE clock # Period - 1
  <2>1. clock' = clock + 1
    BY <1>2, <1>6
  <2>2. Coming(c) => Coming(c)'
    BY <1>2 DEF Coming
  <2>3. CASE row[c] <= clock + MaxJob + Period + Cost /\ Coming(c)
    <3>1. row'[c] <= clock' + MaxJob + Period + Cost'
      BY <1>1, <1>2, <1>3, <2>1, <2>3
    <3>. QED
      BY <2>2, <2>3, <3>1 DEF InTime
  <2>4. ASSUME NEW j \in 1 .. LostRuns,
               row[c] + j * Period <= clock + MaxJob + Period + Cost, Unlocked(j)
        PROVE  InTime(c)'
    <3>. DEFINE wait == j * Period
    <3>1. wait \in Nat /\ wait >= Period
      BY OnePeriod, LostRunsSuffice
    <3>2. \/ lock <= wait - clock
          \/ \E i \in cron : pc[i] # "locking"
      BY <2>4 DEF Unlocked
    <3>3. row[c] + wait <= clock + MaxJob + Period + Cost
      BY <2>4
    <3>. HIDE DEF wait
    <3>4. row'[c] + wait <= clock' + MaxJob + Period + Cost'
      BY <1>1, <1>2, <1>3, <2>1, <3>1, <3>3
    <3>5. \/ lock' <= wait - clock'
          \/ \E i \in cron' : pc'[i] # "locking"
      BY <1>2, <2>1, <3>1, <3>2
    <3>. QED
      BY <3>4, <3>5 DEF InTime, Unlocked, wait
  <2>. QED
    BY <1>1, <1>2, <2>3, <2>4 DEF InTime
<1>. QED
  BY <1>5, <1>6

LEMMA StepInTime ==
    ASSUME IInv, OnTime, RowsInTime, [Next]_vars
    PROVE  RowsInTime'
<1>1. CASE UNCHANGED vars
  BY <1>1 DEF RowsInTime, InTime, Coming, Unlocked, Cost, vars, refresh
<1>2. ASSUME NEW q \in Quoters, AskRate(q) \/ QuoteStep(q) \/ QuoteFails(q)
      PROVE  RowsInTime'
  <2>. UNCHANGED <<clock, missed, due, row, lock, refresh>>
    BY <1>2 DEF QuoteStep, AskRate, ReadCountryCache, ReadCountryRow, StoreCountry,
                CompareCurrencies, Quote, QuoteFails
  <2>. QED
    BY DEF RowsInTime, InTime, Coming, Unlocked, Cost, refresh
<1>3. ASSUME NEW t \in Tasks, TaskFails(t) \/ (t \in Instances /\ Crash(t))
      PROVE  RowsInTime'
  BY <1>3, FaultInTime DEF TaskFails, Crash
<1>. QED
  BY <1>1, <1>2, <1>3, JobInTime, RefreshInTime, SaveInTime, TickInTime
     DEF Next, InstanceStep, RefreshStep, Tasks

-----------------------------------------------------------------------------
(* Rows of one generation. *)

\* What a refresh has saved is no older than its response by more than a task takes.
SavedRows ==
    \A t \in Tasks : pc[t] \in {"save", "cache"} =>
        \A c \in Countries \ todo[t] : row[c] # NoRate /\ row[c] <= response[t] + MaxJob

\* A refresh that is not older than row d is still to save row c.
StillToSave(c, d) ==
    \E t \in Tasks : pc[t] = "save" /\ c \in todo[t] /\ response[t] <= row[d]

\* Of two rows the older one is not much older, or is about to be saved.
Together ==
    \A c, d \in Countries : row[d] # NoRate =>
        (row[c] # NoRate /\ row[c] <= row[d] + MaxJob) \/ StillToSave(c, d)

\* The seeding has not got further than the US.
FirstRates ==
    row[US] = NoRate => \A i \in Instances :
        pc[i] \in {"starting", "fetch"} \/ (pc[i] = "save" /\ US \in todo[i])

Agreement == faults = 0 => SavedRows /\ Together /\ FirstRates

\* A step that saves nothing: no task that has still to save leaves it.
LEMMA AgreementStays ==
    ASSUME IInv, SavedRows, Together, FirstRates, UNCHANGED row,
           \A t \in Tasks :
              /\ pc[t] = "save" => pc'[t] = "save"
              /\ pc'[t] \in {"save", "cache"} =>
                    \/ pc[t] \in {"save", "cache"} /\ todo'[t] = todo[t] /\ response'[t] = response[t]
                    \/ todo'[t] = Countries
              /\ pc[t] = "save" => todo'[t] = todo[t] /\ response'[t] = response[t],
           row[US] = NoRate => \A i \in Instances :
              pc'[i] \in {"starting", "fetch"} \/ (pc'[i] = "save" /\ US \in todo'[i])
    PROVE  SavedRows' /\ Together' /\ FirstRates'
<1>1. SavedRows'
  BY DEF SavedRows
<1>2. Together'
  BY DEF Together, StillToSave
<1>3. FirstRates'
  BY DEF FirstRates
<1>. QED
  BY <1>1, <1>2, <1>3

LEMMA SaveAgrees ==
    ASSUME IInv, SavedRows, Together, FirstRates, NEW t \in Tasks, NEW e \in Countries,
           SaveRate(t, e)
    PROVE  SavedRows' /\ Together' /\ FirstRates'
<1>1. /\ pc[t] = "save" /\ row' = [row EXCEPT ![e] = response[t]]
      /\ todo' = [todo EXCEPT ![t] = @ \ {e}]
      /\ pc' = [pc EXCEPT ![t] = IF todo[t] = {e} THEN "cache" ELSE "save"]
      /\ UNCHANGED response
  BY DEF SaveRate
<1>2. ASSUME NEW o \in Tasks, pc[o] \in {"save", "cache"}
      PROVE  response[o] \in Nat /\ response[o] <= MaxJob
  <2>1. response[o] \in Ages
    BY <1>2 DEF IInv, Working
  <2>2. response[o] # None
    BY <2>1, NoneAssumption DEF Ages
  <2>. QED
    BY <2>1, <2>2, TimesAssumption DEF IInv, TypeOK, Fresh, Ages
<1>3. response[t] \in Nat /\ response[t] <= MaxJob /\ response[t] # NoRate
  BY <1>1, <1>2, NoneAssumption
<1>4. \A c \in Countries :
         /\ row'[c] = IF c = e THEN response[t] ELSE row[c]
         /\ row[c] # NoRate => row[c] \in Nat
  BY <1>1, TimesAssumption DEF IInv, TypeOK, Ages
<1>5. \A o \in Tasks :
         /\ todo'[o] = IF o = t THEN todo[t] \ {e} ELSE todo[o]
         /\ pc'[o] \in {"save", "cache"} => pc[o] \in {"save", "cache"}
         /\ pc[o] = "save" => \/ pc'[o] = "save" \/ (o = t /\ todo[t] = {e})
  BY <1>1 DEF IInv, TypeOK, Working
<1>6. SavedRows'
  <2>. SUFFICES ASSUME NEW o \in Tasks, pc'[o] \in {"save", "cache"},
                       NEW c \in Countries \ todo'[o]
                PROVE  row'[c] # NoRate /\ row'[c] <= response[o] + MaxJob
    BY <1>1 DEF SavedRows
  <2>1. pc[o] \in {"save", "cache"}
    BY <1>5
  <2>2. CASE c = e
    BY <1>2, <1>3, <1>4, <2>1, <2>2, TimesAssumption
  <2>3. CASE c # e
    BY <1>4, <1>5, <2>1, <2>3 DEF SavedRows
  <2>. QED
    BY <2>2, <2>3
<1>7. Together'
  <2>. SUFFICES ASSUME NEW c \in Countries, NEW d \in Countries, row'[d] # NoRate
                PROVE  (row'[c] # NoRate /\ row'[c] <= row'[d] + MaxJob) \/ StillToSave(c, d)'
    BY DEF Together
  <2>1. row'[d] \in Nat
    BY <1>3, <1>4
  <2>2. CASE c = e
    BY <1>3, <1>4, <2>1, <2>2, TimesAssumption
  <2>3. CASE c # e /\ d = e
    <3>1. CASE c \in todo[t]
      <4>1. pc'[t] = "save" /\ c \in todo'[t] /\ response'[t] <= row'[d]
        BY <1>1, <1>3, <1>4, <1>5, <2>3, <3>1
      <4>. QED
        BY <4>1 DEF StillToSave
    <3>2. CASE c \notin todo[t]
      BY <1>1, <1>4, <2>3, <3>2 DEF SavedRows
    <3>. QED
      BY <3>1, <3>2
  <2>4. CASE c # e /\ d # e
    <3>1. row'[c] = row[c] /\ row'[d] = row[d]
      BY <1>4, <2>4
    <3>2. StillToSave(c, d) => StillToSave(c, d)'
      BY <1>1, <1>5, <2>4, <3>1 DEF StillToSave
    <3>. QED
      BY <3>1, <3>2 DEF Together
  <2>. QED
    BY <2>2, <2>3, <2>4
<1>8. FirstRates'
  <2>. SUFFICES ASSUME row'[US] = NoRate, NEW i \in Instances
                PROVE  pc'[i] \in {"starting", "fetch"} \/ (pc'[i] = "save" /\ US \in todo'[i])
    BY DEF FirstRates
  <2>1. US # e /\ row[US] = NoRate
    BY <1>3, <1>4, CountryAssumption
  <2>2. i \in Tasks /\ (pc[i] \in {"starting", "fetch"} \/ (pc[i] = "save" /\ US \in todo[i]))
    BY <2>1 DEF FirstRates, Tasks
  <2>. QED
    BY <1>1, <1>5, <2>1, <2>2 DEF IInv, Working
<1>. QED
  BY <1>6, <1>7, <1>8

LEMMA TickAgrees ==
    ASSUME IInv, SavedRows, Together, FirstRates, Tick
    PROVE  SavedRows' /\ Together' /\ FirstRates'
<1>. USE TimesAssumption
<1>1. \A c \in Countries :
         /\ row'[c] = Older(row[c])
         /\ row[c] # NoRate => row[c] \in Ages
  BY DEF IInv, TypeOK, Tick
<1>2. \A t \in Tasks :
         /\ response'[t] = Older(response[t])
         /\ pc[t] \in {"save", "cache"} => response[t] \in Ages
  BY DEF IInv, Working, Tick
<1>3. UNCHANGED <<pc, todo>>
  BY DEF Tick
<1>4. \A a, b \in Ages : \A n \in {0, MaxJob} :
         a <= b + n => Older(a) <= Older(b) + n
  BY DEF Older, Ages
<1>5. \A c \in Countries : row[c] # NoRate <=> row'[c] # NoRate
  BY <1>1, OlderTyped, NoneAssumption DEF Ages
<1>6. SavedRows'
  <2>. SUFFICES ASSUME NEW t \in Tasks, pc[t] \in {"save", "cache"}, NEW c \in Countries \ todo[t]
                PROVE  row'[c] # NoRate /\ row'[c] <= response'[t] + MaxJob
    BY <1>3 DEF SavedRows
  <2>1. row[c] # NoRate /\ row[c] <= response[t] + MaxJob
    BY DEF SavedRows
  <2>2. row[c] \in Ages /\ response[t] \in Ages
    BY <1>1, <1>2, <2>1
  <2>. QED
    BY <1>1, <1>2, <1>4, <1>5, <2>1, <2>2
<1>7. Together'
  <2>. SUFFICES ASSUME NEW c \in Countries, NEW d \in Countries, row'[d] # NoRate
                PROVE  (row'[c] # NoRate /\ row'[c] <= row'[d] + MaxJob) \/ StillToSave(c, d)'
    BY DEF Together
  <2>1. row[d] # NoRate /\ row[d] \in Ages
    BY <1>1, <1>5
  <2>2. CASE row[c] # NoRate /\ row[c] <= row[d] + MaxJob
    <3>1. row[c] \in Ages
      BY <1>1, <2>2
    <3>. QED
      BY <1>1, <1>4, <1>5, <2>1, <2>2, <3>1
  <2>3. CASE StillToSave(c, d)
    <3>1. PICK t \in Tasks : pc[t] = "save" /\ c \in todo[t] /\ response[t] <= row[d]
      BY <2>3 DEF StillToSave
    <3>2. response[t] \in Ages /\ response[t] <= row[d] + 0
      BY <1>2, <2>1, <3>1 DEF Ages
    <3>3. Older(response[t]) <= Older(row[d]) + 0
      BY <1>4, <2>1, <3>2
    <3>4. Older(response[t]) \in Ages /\ Older(row[d]) \in Ages
      BY <2>1, <3>2, OlderTyped
    <3>5. response'[t] <= row'[d]
      BY <1>1, <1>2, <3>3, <3>4 DEF Ages
    <3>. QED
      BY <1>3, <3>1, <3>5 DEF StillToSave
  <2>. QED
    BY <2>1, <2>2, <2>3 DEF Together
<1>8. FirstRates'
  BY <1>3, <1>5, CountryAssumption DEF FirstRates
<1>. QED
  BY <1>6, <1>7, <1>8

LEMMA StepAgrees ==
    ASSUME IInv, OnTime, Agreement, [Next]_vars
    PROVE  Agreement'
<1>. SUFFICES ASSUME faults' = 0
              PROVE  SavedRows' /\ Together' /\ FirstRates'
  BY DEF Agreement
<1>1. ASSUME NEW t \in Tasks, TaskFails(t) \/ (t \in Instances /\ Crash(t))
      PROVE  FALSE
  BY <1>1 DEF TaskFails, Crash, IInv, TypeOK
<1>2. ASSUME faults' = faults
      PROVE  SavedRows /\ Together /\ FirstRates
  BY <1>2 DEF Agreement
<1>3. ASSUME UNCHANGED <<row, refresh>>
      PROVE  SavedRows' /\ Together' /\ FirstRates'
  BY <1>2, <1>3 DEF SavedRows, Together, StillToSave, FirstRates, refresh
<1>4. CASE UNCHANGED vars
  BY <1>3, <1>4 DEF vars
<1>5. ASSUME NEW q \in Quoters, AskRate(q) \/ QuoteStep(q) \/ QuoteFails(q)
      PROVE  SavedRows' /\ Together' /\ FirstRates'
  BY <1>3, <1>5 DEF QuoteStep, AskRate, ReadCountryCache, ReadCountryRow, StoreCountry,
                    CompareCurrencies, Quote, QuoteFails
<1>6. CASE Tick
  BY <1>2, <1>6, TickAgrees DEF Tick
<1>7. ASSUME NEW t \in Tasks, NEW c \in Countries, SaveRate(t, c)
      PROVE  SavedRows' /\ Together' /\ FirstRates'
  BY <1>2, <1>7, SaveAgrees DEF SaveRate
<1>8. ASSUME NEW i \in Instances, Seed(i)
      PROVE  SavedRows' /\ Together' /\ FirstRates'
  <2>1. /\ i \in Tasks /\ pc[i] = "starting"
        /\ pc' = [pc EXCEPT ![i] = IF row[US] = NoRate THEN "fetch" ELSE "idle"]
        /\ UNCHANGED <<row, response, todo, faults>>
    BY <1>8 DEF Seed, Tasks
  <2>2. \A t \in Tasks : pc'[t] = IF t = i THEN IF row[US] = NoRate THEN "fetch" ELSE "idle" ELSE pc[t]
    BY <2>1 DEF IInv, Working
  <2>3. SavedRows /\ Together /\ FirstRates
    BY <1>2, <2>1
  <2>. QED
    BY <2>1, <2>2, <2>3, AgreementStays DEF FirstRates, Tasks
<1>9. ASSUME NEW i \in Instances, CronFires(i) \/ SetLock(i) \/ Release(i)
      PROVE  SavedRows' /\ Together' /\ FirstRates'
  <2>1. /\ i \in Tasks /\ pc[i] \in {"idle", "locking", "release"} /\ UNCHANGED <<row, faults>>
        /\ pc'[i] \notin {"save", "cache"}
        /\ \A t \in Tasks \ {i} : pc'[t] = pc[t] /\ todo'[t] = todo[t] /\ response'[t] = response[t]
    BY <1>9 DEF CronFires, SetLock, Release, Leave, IInv, TypeOK, Working, Tasks
  <2>2. SavedRows /\ Together /\ FirstRates
    BY <1>2, <2>1
  <2>3. row[US] # NoRate
    BY <2>1, <2>2 DEF FirstRates
  <2>. QED
    BY <2>1, <2>2, <2>3, AgreementStays
<1>10. ASSUME NEW t \in Tasks, (t \in FxRequests /\ FxRatesMissing(t)) \/ Fetch(t)
       PROVE  SavedRows' /\ Together' /\ FirstRates'
  <2>1. /\ UNCHANGED <<row, faults>>
        /\ \/ t \in FxRequests /\ pc[t] = "idle" /\ pc'[t] = "fetch" 
           \/ pc[t] = "fetch" /\ pc'[t] = "save" /\ todo'[t] = Countries
        /\ \A o \in Tasks \ {t} : pc'[o] = pc[o] /\ todo'[o] = todo[o] /\ response'[o] = response[o]
    BY <1>10 DEF FxRatesMissing, Fetch, IInv, TypeOK, Working
  <2>2. SavedRows /\ Together /\ FirstRates
    BY <1>2, <2>1
  <2>3. ASSUME row[US] = NoRate, NEW i \in Instances
        PROVE  pc'[i] \in {"starting", "fetch"} \/ (pc'[i] = "save" /\ US \in todo'[i])
    BY <2>1, <2>2, <2>3, CountryAssumption DEF FirstRates, Tasks
  <2>. QED
    BY <2>1, <2>2, <2>3, AgreementStays
<1>11. ASSUME NEW t \in Tasks, CacheRates(t)
       PROVE  SavedRows' /\ Together' /\ FirstRates'
  <2>1. /\ pc[t] = "cache" /\ pc'[t] \in {"release", "idle"} /\ UNCHANGED <<row, faults>>
        /\ \A o \in Tasks \ {t} : pc'[o] = pc[o] /\ todo'[o] = todo[o] /\ response'[o] = response[o]
    BY <1>11 DEF CacheRates, Leave, IInv, TypeOK, Working
  <2>2. SavedRows /\ Together /\ FirstRates
    BY <1>2, <2>1
  <2>3. ASSUME row[US] = NoRate, NEW i \in Instances
        PROVE  pc'[i] \in {"starting", "fetch"} \/ (pc'[i] = "save" /\ US \in todo'[i])
    BY <2>1, <2>2, <2>3 DEF FirstRates, Tasks
  <2>. QED
    BY <2>1, <2>2, <2>3, AgreementStays
<1>. QED
  BY <1>1, <1>4, <1>5, <1>6, <1>7, <1>8, <1>9, <1>10, <1>11
     DEF Next, InstanceStep, RefreshStep, Tasks

-----------------------------------------------------------------------------
(* The age of the quotes. *)

LEMMA OldestGrows ==
    ASSUME TypeOK
    PROVE  /\ OldestRow = Period + 2 * MaxJob + Cost /\ OldestRow \in Nat
           /\ UNCHANGED <<faults, missed>> => OldestRow' = OldestRow
           /\ \/ UNCHANGED <<faults, missed>>
              \/ faults' = faults + 1 /\ missed' = missed
              \/ faults' = faults /\ missed' = missed + 1
              => OldestRow' \in Nat /\ OldestRow <= OldestRow'
<1>. DEFINE lost == faults * LostRuns + missed
            now  == (faults * LostRuns + missed)'
            runs == LostRuns * Period
<1>1. /\ faults \in Nat /\ missed \in Nat /\ LostRuns \in Nat /\ Period \in Nat
      /\ runs \in Nat /\ Cost \in Nat
  BY LostRunsSuffice, CostGrows, TimesAssumption DEF TypeOK
<1>2. \A n \in Nat : (1 + n) * Period = Period + n * Period
  BY <1>1, SMT
<1>3. \A n \in Nat : n * LostRuns \in Nat
  BY <1>1, SMT
<1>4. lost \in Nat /\ (faults' \in Nat /\ missed' \in Nat => now \in Nat)
  BY <1>1, <1>3
<1>5. OldestRow = (1 + lost) * Period + 2 * MaxJob
  <2>1. 1 + faults * LostRuns + missed = 1 + lost
    BY <1>1, <1>3
  <2>. QED
    BY <2>1 DEF OldestRow
<1>6. faults' \in Nat /\ missed' \in Nat => OldestRow' = (1 + now) * Period + 2 * MaxJob
  <2>1. faults' \in Nat /\ missed' \in Nat => 1 + faults' * LostRuns + missed' = 1 + now
    BY <1>1, <1>3
  <2>. QED
    BY <2>1 DEF OldestRow
<1>7. Cost = lost * Period /\ Cost' = now * Period
  BY DEF Cost
<1>. HIDE DEF lost, now, runs
<1>8. /\ OldestRow = Period + Cost + 2 * MaxJob
      /\ faults' \in Nat /\ missed' \in Nat => OldestRow' = Period + Cost' + 2 * MaxJob
  BY <1>2, <1>4, <1>5, <1>6, <1>7
<1>9. /\ UNCHANGED <<faults, missed>> => Cost' = Cost
      /\ faults' = faults + 1 /\ missed' = missed => Cost' = Cost + runs
      /\ faults' = faults /\ missed' = missed + 1 => Cost' = Cost + Period
  BY CostGrows DEF runs
<1>. QED
  BY <1>1, <1>8, <1>9, TimesAssumption

\* A row that waits for a job waits at most as long as a job takes.
LEMMA RowAge ==
    ASSUME IInv, OnTime, RowsInTime, NEW c \in Countries, row[c] # NoRate
    PROVE  row[c] \in Ages /\ row[c] <= OldestRow
<1>1. row[c] \in Ages /\ InTime(c) /\ clock \in 0 .. Period - 1
  BY DEF IInv, TypeOK, RowsInTime
<1>2. ASSUME Coming(c) \/ due # {}
      PROVE  clock <= MaxJob
  BY <1>2, TimesAssumption DEF IInv, TypeOK, OnTime, Coming, Tasks
<1>3. Cost \in Nat /\ OldestRow = Period + 2 * MaxJob + Cost
  BY CostGrows, OldestGrows DEF IInv
<1>4. CASE row[c] <= clock + MaxJob + Period + Cost /\ (Coming(c) \/ due # {})
  BY <1>1, <1>2, <1>3, <1>4, TimesAssumption DEF Ages
<1>5. ASSUME NEW j \in 1 .. LostRuns, row[c] + j * Period <= clock + MaxJob + Period + Cost
      PROVE  row[c] <= OldestRow
  <2>. DEFINE wait == j * Period
  <2>1. wait \in Nat /\ wait >= Period /\ row[c] + wait <= clock + MaxJob + Period + Cost
    BY <1>5, OnePeriod, LostRunsSuffice
  <2>. HIDE DEF wait
  <2>. QED
    BY <1>1, <1>3, <2>1, TimesAssumption DEF Ages
<1>. QED
  BY <1>1, <1>4, <1>5 DEF InTime

\* The entry of a country was a row, or what a slow reader had found in one.
CountriesQuoted ==
    \A x \in Currencies : countries[x] # None /\ countries[x].age # NoRate =>
        countries[x].age + countries[x].ttl <= OldestRow + MaxJob + Ttl

\* What a quoter has comes from a row, and is still to go into the cache, or from there.
HaveQuoted ==
    \A q \in Quoters, k \in Sides :
        /\ have[q][k] # None => want[q] # None
        /\ have[q][k] \in Ages =>
              /\ have[q][k] <= OldestRow + waited[q] + (MaxJob + Ttl - 1)
              /\ k \in store[q] => have[q][k] <= OldestRow + waited[q]

PairsQuoted ==
    \A p \in Pairs : pairs[p] # None =>
        /\ pairs[p].from + pairs[p].ttl <= OldestRow + 2 * (MaxJob + Ttl) - 1
        /\ pairs[p].to + pairs[p].ttl <= OldestRow + 2 * (MaxJob + Ttl) - 1

Quoted == CountriesQuoted /\ HaveQuoted /\ PairsQuoted

LEMMA TaskQuoted ==
    ASSUME IInv, Quoted, UNCHANGED <<quotes, missed>>, UNCHANGED faults \/ faults' = faults + 1
    PROVE  Quoted'
<1>1. OldestRow \in Nat /\ OldestRow' \in Nat /\ OldestRow <= OldestRow'
  <2>1. OldestRow \in Nat /\ (UNCHANGED <<faults, missed>> => OldestRow' = OldestRow)
    BY OldestGrows DEF IInv
  <2>2. faults' = faults + 1 => OldestRow' \in Nat /\ OldestRow <= OldestRow'
    BY OldestGrows DEF IInv
  <2>. QED
    BY <2>1, <2>2
<1>. USE TimesAssumption DEF quotes
<1>2. CountriesQuoted'
  <2>. SUFFICES ASSUME NEW x \in Currencies, countries[x] # None, countries[x].age # NoRate
                PROVE  countries[x].age + countries[x].ttl <= OldestRow' + MaxJob + Ttl
    BY DEF CountriesQuoted
  <2>1. countries[x].age \in Nat /\ countries[x].ttl \in Nat
    BY DEF IInv, TypeOK, Entries, Ages
  <2>. QED
    BY <1>1, <2>1 DEF Quoted, CountriesQuoted
<1>3. HaveQuoted'
  <2>. SUFFICES ASSUME NEW q \in Quoters, NEW k \in Sides
                PROVE  /\ have[q][k] # None => want[q] # None
                       /\ have[q][k] \in Ages =>
                             /\ have[q][k] <= OldestRow' + waited[q] + (MaxJob + Ttl - 1)
                             /\ k \in store[q] => have[q][k] <= OldestRow' + waited[q]
    BY DEF HaveQuoted
  <2>1. waited[q] \in Nat
    BY DEF IInv, TypeOK
  <2>. QED
    BY <1>1, <2>1 DEF Quoted, HaveQuoted, Ages
<1>4. PairsQuoted'
  <2>. SUFFICES ASSUME NEW p \in Pairs, pairs[p] # None
                PROVE  /\ pairs[p].from + pairs[p].ttl <= OldestRow' + 2 * (MaxJob + Ttl) - 1
                       /\ pairs[p].to + pairs[p].ttl <= OldestRow' + 2 * (MaxJob + Ttl) - 1
    BY DEF PairsQuoted
  <2>1. pairs[p].from \in Nat /\ pairs[p].to \in Nat /\ pairs[p].ttl \in Nat
    BY DEF IInv, TypeOK, Ages
  <2>. QED
    BY <1>1, <2>1 DEF Quoted, PairsQuoted
<1>. QED
  BY <1>2, <1>3, <1>4 DEF Quoted

LEMMA QuoterQuoted ==
    ASSUME IInv, OnTime, RowsInTime, Quoted, NEW q \in Quoters,
           AskRate(q) \/ QuoteStep(q) \/ QuoteFails(q)
    PROVE  Quoted'
<1>1. OldestRow \in Nat /\ OldestRow' = OldestRow
  <2>1. UNCHANGED <<faults, missed>>
    BY DEF QuoteStep, AskRate, ReadCountryCache, ReadCountryRow, StoreCountry,
           CompareCurrencies, Quote, QuoteFails, refresh
  <2>. QED
    BY <2>1, OldestGrows DEF IInv
<1>2. /\ CountriesQuoted /\ HaveQuoted /\ PairsQuoted /\ Reading
      /\ \A o \in Quoters : waited[o] \in Nat /\ waited[o] <= MaxJob
      /\ NoRate \notin Ages /\ None \notin Ages /\ Ages \subseteq Nat
  BY TimesAssumption, NoneAssumption DEF Quoted, IInv, TypeOK, Ages
<1>3. ASSUME want[q] # None, NEW k \in Sides
      PROVE  Code(q, k) \in Currencies
  BY <1>3, CountryAssumption DEF IInv, TypeOK, Code
<1>. USE TimesAssumption
<1>4. CASE AskRate(q)
  <2>1. /\ UNCHANGED <<countries, pairs, have, store, waited>>
        /\ \E p \in Pairs : want' = [want EXCEPT ![q] = p]
        /\ want[q] = None
    BY <1>4 DEF AskRate
  <2>2. \A o \in Quoters, k \in Sides : have[o][k] # None => want'[o] # None
    BY <1>2, <2>1 DEF HaveQuoted
  <2>. QED
    BY <1>1, <1>2, <2>1, <2>2 DEF Quoted, CountriesQuoted, HaveQuoted, PairsQuoted
<1>5. ASSUME NEW k \in Sides, ReadCountryCache(q, k)
      PROVE  Quoted'
  <2>1. /\ want[q] # None /\ have[q][k] = None /\ countries[Code(q, k)] # None
        /\ have' = [have EXCEPT ![q][k] = countries[Code(q, k)].age]
        /\ UNCHANGED <<countries, pairs, want, store, waited>>
    BY <1>5 DEF ReadCountryCache
  <2>2. /\ countries[Code(q, k)].ttl \in Nat /\ countries[Code(q, k)].ttl >= 1
        /\ countries[Code(q, k)].age \in Ages \cup {NoRate}
    BY <1>3, <2>1 DEF IInv, TypeOK, Entries
  <2>3. k \notin store[q]
    BY <1>2, <2>1 DEF Reading
  <2>4. ASSUME countries[Code(q, k)].age \in Ages
        PROVE  countries[Code(q, k)].age <= OldestRow + waited[q] + (MaxJob + Ttl - 1)
    BY <1>1, <1>2, <1>3, <2>1, <2>2, <2>4 DEF CountriesQuoted
  <2>5. \A o \in Quoters, j \in Sides : have'[o][j] =
           IF o = q /\ j = k THEN countries[Code(q, k)].age ELSE have[o][j]
    BY <2>1 DEF IInv, TypeOK
  <2>6. HaveQuoted'
    BY <1>1, <1>2, <2>1, <2>3, <2>4, <2>5 DEF HaveQuoted
  <2>. QED
    BY <1>1, <1>2, <2>1, <2>6 DEF Quoted, CountriesQuoted, PairsQuoted
<1>6. ASSUME NEW k \in Sides, ReadCountryRow(q, k)
      PROVE  Quoted'
  <2>1. /\ want[q] # None /\ have[q][k] = None
        /\ store' = [store EXCEPT ![q] = @ \cup {k}]
        /\ UNCHANGED <<countries, pairs, want, waited>>
    BY <1>6 DEF ReadCountryRow
  <2>2. PICK c \in Countries : have' = [have EXCEPT ![q][k] = row[c]]
    BY <1>6 DEF ReadCountryRow
  <2>3. row[c] \in Ages => row[c] <= OldestRow
    BY <1>2, RowAge
  <2>4. \A o \in Quoters, j \in Sides :
           /\ have'[o][j] = IF o = q /\ j = k THEN row[c] ELSE have[o][j]
           /\ j \in store'[o] <=> j \in store[o] \/ (o = q /\ j = k)
    BY <2>1, <2>2 DEF IInv, TypeOK
  <2>5. HaveQuoted'
    <3>1. \A o \in Quoters, j \in Sides : have'[o][j] # None => want[o] # None
      BY <1>2, <2>1, <2>4 DEF HaveQuoted
    <3>2. ASSUME NEW o \in Quoters, NEW j \in Sides, have'[o][j] \in Ages
          PROVE  /\ have'[o][j] <= OldestRow + waited[o] + (MaxJob + Ttl - 1)
                 /\ j \in store'[o] => have'[o][j] <= OldestRow + waited[o]
      <4>1. CASE o = q /\ j = k
        <5>1. have'[o][j] \in Nat /\ have'[o][j] <= OldestRow /\ waited[o] \in Nat
          BY <1>2, <2>3, <2>4, <3>2, <4>1
        <5>. QED
          BY <1>1, <5>1
      <4>2. CASE ~(o = q /\ j = k)
        BY <1>2, <2>4, <3>2, <4>2 DEF HaveQuoted
      <4>. QED
        BY <4>1, <4>2
    <3>. QED
      BY <1>1, <2>1, <3>1, <3>2 DEF HaveQuoted
  <2>. QED
    BY <1>1, <1>2, <2>1, <2>5 DEF Quoted, CountriesQuoted, PairsQuoted
<1>7. ASSUME NEW k \in Sides, StoreCountry(q, k)
      PROVE  Quoted'
  <2>1. /\ k \in store[q] /\ store' = [store EXCEPT ![q] = @ \ {k}]
        /\ countries' = [countries EXCEPT ![Code(q, k)] = [age |-> have[q][k], ttl |-> Ttl]]
        /\ UNCHANGED <<pairs, want, have, waited>>
    BY <1>7 DEF StoreCountry
  <2>2. have[q][k] \in Ages => have[q][k] <= OldestRow + MaxJob
    <3>1. have[q][k] \in Ages => have[q][k] <= OldestRow + waited[q]
      BY <1>2, <2>1 DEF HaveQuoted
    <3>2. have[q][k] \in Ages => have[q][k] \in Nat
      BY <1>2
    <3>. QED
      BY <1>1, <1>2, <3>1, <3>2
  <2>3. have[q][k] \in Ages \cup {NoRate}
    BY <1>2, <2>1 DEF IInv, TypeOK, Reading
  <2>4. CountriesQuoted'
    <3>. DEFINE e == [age |-> have[q][k], ttl |-> Ttl]
    <3>1. e.age # NoRate => e.age + e.ttl <= OldestRow + MaxJob + Ttl
      <4>1. have[q][k] # NoRate => have[q][k] \in Nat /\ have[q][k] <= OldestRow + MaxJob
        BY <1>2, <2>2, <2>3
      <4>. QED
        BY <1>1, <4>1
    <3>2. \A x \in Currencies : countries'[x] = IF x = Code(q, k) THEN e ELSE countries[x]
      BY <2>1 DEF IInv, TypeOK
    <3>. HIDE DEF e
    <3>. QED
      BY <1>1, <1>2, <3>1, <3>2 DEF CountriesQuoted
  <2>5. \A o \in Quoters : store'[o] \subseteq store[o]
    BY <2>1 DEF IInv, TypeOK
  <2>6. HaveQuoted'
    BY <1>1, <1>2, <2>1, <2>5 DEF HaveQuoted
  <2>. QED
    BY <1>1, <1>2, <2>1, <2>4, <2>6 DEF Quoted, PairsQuoted
<1>8. CASE CompareCurrencies(q)
  <2>1. /\ \A k \in Sides : have[q][k] # None
        /\ have' = [have EXCEPT ![q] = [k \in Sides |-> 0]]
        /\ UNCHANGED <<countries, pairs, want, store, waited>>
    BY <1>8 DEF CompareCurrencies
  <2>2. want[q] # None
    BY <1>2, <2>1 DEF HaveQuoted, Sides
  <2>3. \A o \in Quoters, j \in Sides : have'[o][j] = IF o = q THEN 0 ELSE have[o][j]
    BY <2>1 DEF IInv, TypeOK
  <2>4. HaveQuoted'
    BY <1>1, <1>2, <2>1, <2>2, <2>3 DEF HaveQuoted
  <2>. QED
    BY <1>1, <1>2, <2>1, <2>4 DEF Quoted, CountriesQuoted, PairsQuoted
<1>9. ASSUME Answer(q), UNCHANGED countries, PairsQuoted'
      PROVE  Quoted'
  <2>1. \A o \in Quoters \ {q} :
           have'[o] = have[o] /\ want'[o] = want[o] /\ store'[o] = store[o] /\ waited'[o] = waited[o]
    BY <1>9 DEF Answer, IInv, TypeOK
  <2>2. \A k \in Sides : have'[q][k] = None
    BY <1>9 DEF Answer, Empty, IInv, TypeOK
  <2>3. HaveQuoted'
    BY <1>1, <1>2, <2>1, <2>2 DEF HaveQuoted
  <2>. QED
    BY <1>1, <1>2, <1>9, <2>3 DEF Quoted, CountriesQuoted
<1>10. CASE Quote(q)
  <2>1. /\ \A k \in Sides : have[q][k] \in Ages
        /\ pairs' = [pairs EXCEPT ![want[q]] =
              [from |-> have[q]["from"], to |-> have[q]["to"], ttl |-> Ttl]]
        /\ Answer(q) /\ UNCHANGED countries
    BY <1>10 DEF Quote
  <2>2. ASSUME NEW k \in Sides
        PROVE  have[q][k] + Ttl <= OldestRow + 2 * (MaxJob + Ttl) - 1
    <3>1. have[q][k] \in Nat /\ have[q][k] <= OldestRow + waited[q] + (MaxJob + Ttl - 1)
      BY <1>2, <2>1 DEF HaveQuoted
    <3>. QED
      BY <1>1, <1>2, <3>1
  <2>3. PairsQuoted'
    <3>. DEFINE e == [from |-> have[q]["from"], to |-> have[q]["to"], ttl |-> Ttl]
    <3>1. /\ e.from + e.ttl <= OldestRow + 2 * (MaxJob + Ttl) - 1
          /\ e.to + e.ttl <= OldestRow + 2 * (MaxJob + Ttl) - 1
      BY <2>2 DEF Sides
    <3>2. \A p \in Pairs : pairs'[p] = IF p = want[q] THEN e ELSE pairs[p]
      BY <2>1 DEF IInv, TypeOK
    <3>. HIDE DEF e
    <3>. QED
      BY <1>1, <1>2, <3>1, <3>2 DEF PairsQuoted
  <2>. QED
    BY <1>9, <2>1, <2>3
<1>11. CASE QuoteFails(q)
  BY <1>1, <1>2, <1>9, <1>11 DEF QuoteFails, PairsQuoted
<1>. QED
  BY <1>4, <1>5, <1>6, <1>7, <1>8, <1>10, <1>11 DEF QuoteStep

LEMMA TickQuoted ==
    ASSUME IInv, Quoted, Tick
    PROVE  Quoted'
<1>1. OldestRow \in Nat /\ OldestRow' \in Nat /\ OldestRow <= OldestRow'
  <2>1. UNCHANGED <<faults, missed>> \/ (UNCHANGED faults /\ missed' = missed + 1)
    BY DEF Tick, CronTime
  <2>2. OldestRow \in Nat /\ (UNCHANGED <<faults, missed>> => OldestRow' = OldestRow)
    BY OldestGrows DEF IInv
  <2>3. UNCHANGED faults /\ missed' = missed + 1 => OldestRow' \in Nat /\ OldestRow <= OldestRow'
    BY OldestGrows DEF IInv
  <2>. QED
    BY <2>1, <2>2, <2>3
<1>. USE TimesAssumption
<1>2. CountriesQuoted'
  <2>. SUFFICES ASSUME NEW x \in Currencies, countries'[x] # None, countries'[x].age # NoRate
                PROVE  countries'[x].age + countries'[x].ttl <= OldestRow' + MaxJob + Ttl
    BY <1>1 DEF CountriesQuoted
  <2>1. /\ countries[x] # None
        /\ countries'[x] = [age |-> Older(countries[x].age), ttl |-> countries[x].ttl - 1]
    BY DEF Tick, Entry
  <2>2. /\ countries[x].age \in Ages /\ countries[x].age # NoRate
        /\ countries[x].ttl \in Nat
    BY <2>1, OlderTyped, NoneAssumption DEF IInv, TypeOK, Entries, Ages
  <2>3. Older(countries[x].age) \in Nat /\ Older(countries[x].age) <= countries[x].age + 1
    BY <2>2, OlderTyped DEF Ages
  <2>4. countries[x].age + countries[x].ttl <= OldestRow + MaxJob + Ttl
    BY <2>1, <2>2 DEF Quoted, CountriesQuoted
  <2>5. /\ countries'[x].age = Older(countries[x].age)
        /\ countries'[x].ttl = countries[x].ttl - 1
    BY <2>1
  <2>. QED
    BY <1>1, <2>2, <2>3, <2>4, <2>5 DEF Ages
<1>3. HaveQuoted'
  <2>. SUFFICES ASSUME NEW q \in Quoters, NEW k \in Sides
                PROVE  /\ have'[q][k] # None => want[q] # None
                       /\ have'[q][k] \in Ages =>
                             /\ have'[q][k] <= OldestRow' + waited'[q] + (MaxJob + Ttl - 1)
                             /\ k \in store[q] => have'[q][k] <= OldestRow' + waited'[q]
    BY <1>1 DEF HaveQuoted, Tick
  <2>1. /\ have'[q][k] = Older(have[q][k])
        /\ waited'[q] = (IF want[q] # None THEN waited[q] + 1 ELSE 0)
    BY DEF Tick
  <2>2. have[q][k] \in Ages \cup {NoRate, None} /\ waited[q] \in Nat
    BY DEF IInv, TypeOK
  <2>3. have'[q][k] # None => have[q][k] # None
    BY <2>1, OlderTyped
  <2>4. have'[q][k] \in Ages => have[q][k] \in Ages
    BY <2>1, <2>2, OlderTyped
  <2>5. ASSUME have'[q][k] \in Ages
        PROVE  /\ have'[q][k] <= OldestRow' + waited'[q] + (MaxJob + Ttl - 1)
               /\ k \in store[q] => have'[q][k] <= OldestRow' + waited'[q]
    <3>1. have[q][k] \in Ages /\ have'[q][k] <= have[q][k] + 1 /\ have[q][k] # None
      BY <2>1, <2>4, <2>5, OlderTyped, NoneAssumption DEF Ages
    <3>2. waited'[q] = waited[q] + 1
      BY <2>1, <3>1 DEF Quoted, HaveQuoted
    <3>3. /\ have[q][k] <= OldestRow + waited[q] + (MaxJob + Ttl - 1)
          /\ k \in store[q] => have[q][k] <= OldestRow + waited[q]
      BY <3>1 DEF Quoted, HaveQuoted
    <3>. QED
      BY <1>1, <2>2, <2>5, <3>1, <3>2, <3>3 DEF Ages
  <2>. QED
    BY <2>3, <2>5 DEF Quoted, HaveQuoted
<1>4. PairsQuoted'
  <2>. SUFFICES ASSUME NEW p \in Pairs, pairs'[p] # None
                PROVE  /\ pairs'[p].from + pairs'[p].ttl <= OldestRow' + 2 * (MaxJob + Ttl) - 1
                       /\ pairs'[p].to + pairs'[p].ttl <= OldestRow' + 2 * (MaxJob + Ttl) - 1
    BY <1>1 DEF PairsQuoted
  <2>1. /\ pairs[p] # None
        /\ pairs'[p] = [from |-> Older(pairs[p].from), to |-> Older(pairs[p].to),
                        ttl |-> pairs[p].ttl - 1]
    BY DEF Tick, PairEntry
  <2>2. pairs[p].from \in Ages /\ pairs[p].to \in Ages /\ pairs[p].ttl \in Nat
    BY <2>1 DEF IInv, TypeOK
  <2>3. /\ Older(pairs[p].from) \in Nat /\ Older(pairs[p].from) <= pairs[p].from + 1
        /\ Older(pairs[p].to) \in Nat /\ Older(pairs[p].to) <= pairs[p].to + 1
    BY <2>2, OlderTyped DEF Ages
  <2>4. /\ pairs[p].from + pairs[p].ttl <= OldestRow + 2 * (MaxJob + Ttl) - 1
        /\ pairs[p].to + pairs[p].ttl <= OldestRow + 2 * (MaxJob + Ttl) - 1
    BY <2>1 DEF Quoted, PairsQuoted
  <2>5. /\ pairs'[p].from = Older(pairs[p].from) /\ pairs'[p].to = Older(pairs[p].to)
        /\ pairs'[p].ttl = pairs[p].ttl - 1
    BY <2>1
  <2>. QED
    BY <1>1, <2>2, <2>3, <2>4, <2>5 DEF Ages
<1>. QED
  BY <1>2, <1>3, <1>4 DEF Quoted

LEMMA StepQuoted ==
    ASSUME IInv, OnTime, RowsInTime, Quoted, [Next]_vars
    PROVE  Quoted'
<1>1. CASE UNCHANGED vars
  BY <1>1, TaskQuoted DEF vars, refresh
<1>2. ASSUME NEW i \in Instances, Seed(i) \/ CronFires(i) \/ SetLock(i) \/ Release(i) \/ Crash(i)
      PROVE  Quoted'
  BY <1>2, TaskQuoted DEF Seed, CronFires, SetLock, Release, Crash, GoesDown
<1>3. ASSUME NEW t \in Tasks, FxRatesMissing(t) \/ RefreshStep(t) \/ TaskFails(t)
      PROVE  Quoted'
  BY <1>3, TaskQuoted DEF FxRatesMissing, RefreshStep, Fetch, SaveRate, CacheRates, TaskFails
<1>. QED
  BY <1>1, <1>2, <1>3, QuoterQuoted, TickQuoted DEF Next, InstanceStep, Tasks

-----------------------------------------------------------------------------
(* The theorems. *)

LEMMA Invariance == Safety => []IInv
<1>1. Init => IInv
  BY TimesAssumption, TasksAssumption
     DEF Init, IInv, TypeOK, Working, Fresh, Reading, LockHasAHolder, Tasks, Empty
<1>2. IInv /\ [Next]_vars => IInv'
  <2>. SUFFICES ASSUME IInv, [Next]_vars
                PROVE  IInv'
    OBVIOUS
  <2>1. CASE UNCHANGED vars
    BY <2>1 DEF IInv, TypeOK, Working, Fresh, Reading, LockHasAHolder, vars, refresh, quotes
  <2>2. ASSUME NEW i \in Instances, InstanceStep(i) \/ Crash(i)
        PROVE  IInv'
    BY <2>2, JobStarts, Refreshes, CacheRatesOK, ReleaseOK, FaultOK
       DEF InstanceStep, RefreshStep, Tasks
  <2>3. ASSUME NEW r \in FxRequests, FxRatesMissing(r) \/ RefreshStep(r)
        PROVE  IInv'
    BY <2>3, Refreshes, CacheRatesOK DEF RefreshStep, Tasks
  <2>. QED
    BY <2>1, <2>2, <2>3, FaultOK, QuoteOK, TickOK DEF Next
<1>. QED
  BY <1>1, <1>2, PTL DEF Safety

\* Every variable keeps its type: a task is where its kind may be, and no entry of a
\* cache outlives its ttl.
THEOREM TypeCorrect == Safety => []TypeOK
<1>1. IInv => TypeOK
  BY DEF IInv
<1>. QED
  BY <1>1, Invariance, PTL

\* What getFxRates answers is no older than the ttl of the entry and the longest
\* refresh allow, however many instances and requests refresh at once.
THEOREM FxRatesStayFresh == Safety => []FxRatesFresh
<1>1. IInv => FxRatesFresh
  BY TimesAssumption DEF IInv, TypeOK, Fresh, FxRatesFresh, Ages
<1>. QED
  BY <1>1, Invariance, PTL

\* However many instances pass the lock at once and delete it twice, without a
\* fault it is never left behind.
THEOREM LockHeld == Safety => []LockHasAHolder
<1>1. IInv => LockHasAHolder
  BY DEF IInv
<1>. QED
  BY <1>1, Invariance, PTL

\* The invariants that the ages need, on top of it.
LEMMA InTimeInvariance == Safety => [](IInv /\ OnTime /\ RowsInTime /\ Quoted /\ Agreement)
<1>. DEFINE Inv == IInv /\ OnTime /\ RowsInTime /\ Quoted /\ Agreement
<1>1. Init /\ IInv => Inv
  <2>. SUFFICES ASSUME Init, IInv
                PROVE  OnTime /\ RowsInTime /\ Quoted /\ Agreement
    OBVIOUS
  <2>1. OnTime
    <3>1. LostRuns * Period \in Nat
      BY LostRunsSuffice
    <3>. QED
      BY <3>1 DEF Init, OnTime, Tasks
  <2>2. RowsInTime
    BY DEF Init, RowsInTime
  <2>3. Quoted
    BY NoneAssumption DEF Init, Quoted, CountriesQuoted, HaveQuoted, PairsQuoted, Empty, Ages
  <2>4. Agreement
    BY DEF Init, Agreement, SavedRows, Together, FirstRates, Tasks
  <2>. QED
    BY <2>1, <2>2, <2>3, <2>4
<1>2. Inv /\ IInv' /\ [Next]_vars => Inv'
  BY StepOnTime, StepInTime, StepQuoted, StepAgrees
<1>. QED
  BY <1>1, <1>2, Invariance, PTL DEF Safety

\* The job keeps the rates of the table fresh, however many instances race for the
\* lock and delete it, whatever requests refresh without it, with every fault at the
\* cost of the run it breaks off and of those that find its lock, and every run at
\* which no process was up at the cost of that run.
THEOREM RowsStayFresh == Safety => []RatesStayFresh
<1>1. IInv /\ OnTime /\ RowsInTime => RatesStayFresh
  BY RowAge DEF RatesStayFresh
<1>. QED
  BY <1>1, InTimeInvariance, PTL

\* A quote is no older than a row can be and the two caches on its way allow.
THEOREM QuotesStayFresh == Safety => []QuotesFresh
<1>1. ASSUME IInv, Quoted
      PROVE  QuotesFresh
  <2>. SUFFICES ASSUME NEW p \in Pairs, pairs[p] # None
                PROVE  /\ pairs[p].from <= OldestRow + 2 * (MaxJob + Ttl - 1)
                       /\ pairs[p].to <= OldestRow + 2 * (MaxJob + Ttl - 1)
    BY DEF QuotesFresh
  <2>1. /\ pairs[p].from \in Nat /\ pairs[p].to \in Nat
        /\ pairs[p].ttl \in Nat /\ pairs[p].ttl >= 1
    BY <1>1, TimesAssumption DEF IInv, TypeOK, Ages
  <2>2. OldestRow \in Nat
    BY <1>1, OldestGrows DEF IInv
  <2>. QED
    BY <1>1, <2>1, <2>2, TimesAssumption DEF Quoted, PairsQuoted
<1>. QED
  BY <1>1, InTimeInvariance, PTL

\* When no refresh is under way and none has failed, all rows have a rate, and the
\* oldest is older than the newest by at most what a refresh takes.
THEOREM RowsOfOneGeneration == Safety => []RowsAgree
<1>1. ASSUME IInv, Agreement
      PROVE  RowsAgree
  <2>. SUFFICES ASSUME faults = 0, \A t \in Tasks : pc[t] \in {"idle", "locking"},
                       NEW c \in Countries, NEW d \in Countries
                PROVE  row[c] # NoRate /\ row[c] - row[d] <= MaxJob
    BY DEF RowsAgree
  <2>1. Together /\ FirstRates
    BY <1>1 DEF Agreement
  <2>2. row[US] # NoRate
    BY <2>1, InstancesAssumption DEF FirstRates, Tasks
  <2>3. \A a, b \in Countries : ~StillToSave(a, b)
    BY DEF StillToSave
  <2>4. \A a \in Countries : row[a] # NoRate
    BY <2>1, <2>2, <2>3, CountryAssumption DEF Together
  <2>5. row[c] \in Nat /\ row[d] \in Nat
    BY <1>1, <2>4, TimesAssumption DEF IInv, TypeOK, Ages
  <2>6. row[c] <= row[d] + MaxJob
    BY <2>1, <2>3, <2>4 DEF Together
  <2>. QED
    BY <2>4, <2>5, <2>6, TimesAssumption
<1>. QED
  BY <1>1, InTimeInvariance, PTL

=============================================================================
