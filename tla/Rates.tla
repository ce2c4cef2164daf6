--------------------------------- MODULE Rates ---------------------------------
(***************************************************************************)
(* Exchange rates from the external service to a quote: the cron job of    *)
(* localisation.service.ts under the lock of distributed-lock.service.ts,  *)
(* the refresh of countries.service.ts, which the job shares with the      *)
(* seeder and with getFxRates, and the caches a quote goes through.        *)
(*                                                                         *)
(* A rate is known by its AGE, the time since the service gave it out.     *)
(* Tick is one unit of time: everything that has an age gets older, and    *)
(* everything that has a ttl gets nearer to its end.  The cron jobs of the *)
(* processes that are up fire on time; one that is down misses its runs.   *)
(* A task takes at most MaxJob units, a process is down for any time.      *)
(***************************************************************************)
EXTENDS Integers, FiniteSets

CONSTANTS
    Instances,   \* instances of the API, each with its cron job
    FxRequests,  \* GET requests for the rates (getFxRates)
    Quoters,     \* requests that need the rate of a pair (getExchangeRate)
    Countries,   \* rows of the country table
    Currency,    \* the currency code of each
    US,          \* the country the seeder looks at
    Pairs,       \* currency pairs asked for
    Period,      \* time between two runs of the cron job
    Ttl,         \* life of a cache entry and of the lock: 3600000 ms
    MaxJob,      \* bound: how long a task takes
    MaxFaults,   \* bound: failing jobs and crashes
    MaxMissed,   \* bound: runs of the cron job at which no process is up
    Cap,         \* bound: ages are not told apart from here on
    NoRate,      \* a country without exchange_rate
    None         \* nothing cached, nothing read

Currencies == {Currency[c] : c \in Countries}
Tasks      == Instances \cup FxRequests
Ages       == 0 .. Cap

ASSUME TimesAssumption ==
    /\ Period \in Nat \ {0} /\ Ttl \in Nat \ {0} /\ MaxJob \in Nat
    /\ MaxFaults \in Nat /\ MaxMissed \in Nat /\ Cap \in Nat
ASSUME CountryAssumption == US \in Countries /\ Pairs \subseteq Currencies \X Currencies
ASSUME TasksAssumption == Instances \cap FxRequests = {}
ASSUME NoneAssumption == {None, NoRate} \cap Nat = {} /\ None # NoRate

\* Some instance runs the job, at equal intervals, and a task is over before it is due again.
ASSUME InstancesAssumption == Instances # {}
ASSUME ScheduleAssumption == MaxJob < Period

VARIABLES
    clock,      \* time since the cron jobs were due
    missed,     \* runs so far at which no process was up
    due,        \* instances whose cron job is to fire now
    row,        \* exchange_rate of each country
    lock,       \* time the lock has to live, 0 when nobody holds it
    fxCache,    \* the key exchangeRates
    pc,         \* where each task is
    cron,       \* instances whose task is the cron job, not the seeding
    response,   \* what each refresh got from the service
    todo,       \* the countries it has still to save
    busy,       \* how long each task has been at work
    faults,     \* failing jobs and crashes so far
    countries,  \* the keys countryData_<code>
    pairs,      \* the keys countryData_<from>_<to>
    want,       \* the pair each quoter asks for
    have,       \* the two sides it has got
    store,      \* the sides it has still to put into the cache
    waited      \* how long it has been at work

refresh == <<fxCache, pc, cron, response, todo, busy, faults>>
quotes  == <<countries, pairs, want, have, store, waited>>
vars    == <<clock, missed, due, row, lock, refresh, quotes>>

Sides == {"from", "to"}
Empty == [k \in Sides |-> None]

Init ==
    /\ clock = 0
    /\ missed = 0
    /\ due = {}
    /\ row = [c \in Countries |-> NoRate]
    /\ lock = 0
    /\ fxCache = None
    /\ pc = [t \in Tasks |-> IF t \in Instances THEN "starting" ELSE "idle"]
    /\ cron = {}
    /\ response = [t \in Tasks |-> None]
    /\ todo = [t \in Tasks |-> {}]
    /\ busy = [t \in Tasks |-> 0]
    /\ faults = 0
    /\ countries = [x \in Currencies |-> None]
    /\ pairs = [p \in Pairs |-> None]
    /\ want = [q \in Quoters |-> None]
    /\ have = [q \in Quoters |-> Empty]
    /\ store = [q \in Quoters |-> {}]
    /\ waited = [q \in Quoters |-> 0]

-----------------------------------------------------------------------------
(* The start and the end of a task. *)

\* Task t is over, and what it held in memory is gone.
Leave(t, then) ==
    /\ pc' = [pc EXCEPT ![t] = then]
    /\ cron' = cron \ {t}
    /\ response' = [response EXCEPT ![t] = None]
    /\ todo' = [todo EXCEPT ![t] = {}]
    /\ busy' = [busy EXCEPT ![t] = 0]

\* A process is started, and onApplicationBootstrap gets to seedExchangeRates, which
\* refreshes only when the US have no rate.
Seed(i) ==
    /\ pc[i] = "starting"
    /\ pc' = [pc EXCEPT ![i] = IF row[US] = NoRate THEN "fetch" ELSE "idle"]
    /\ UNCHANGED <<clock, missed, due, row, lock, fxCache, cron, response, todo, busy, faults, quotes>>

\* acquireLock: the get.
CronFires(i) ==
    /\ i \in due
    /\ pc[i] = "idle"
    /\ due' = due \ {i}
    /\ IF lock = 0
       THEN pc' = [pc EXCEPT ![i] = "locking"] /\ cron' = cron \cup {i}
       ELSE UNCHANGED <<pc, cron>>
    /\ UNCHANGED <<clock, missed, row, lock, fxCache, response, todo, busy, faults, quotes>>

\* acquireLock: the set, whoever has set it since the get.
SetLock(i) ==
    /\ pc[i] = "locking"
    /\ lock' = Ttl
    /\ pc' = [pc EXCEPT ![i] = "fetch"]
    /\ UNCHANGED <<clock, missed, due, row, fxCache, cron, response, todo, busy, faults, quotes>>

\* getFxRates when the cache has expired: a refresh, without the lock.
FxRatesMissing(r) ==
    /\ pc[r] = "idle"
    /\ fxCache = None
    /\ pc' = [pc EXCEPT ![r] = "fetch"]
    /\ UNCHANGED <<clock, missed, due, row, lock, fxCache, cron, response, todo, busy, faults, quotes>>

-----------------------------------------------------------------------------
(* updateExchangeRate, called by cron jobs, getFxRates and the seeder. *)

\* The countries, and the rates of this moment.
Fetch(t) ==
    /\ pc[t] = "fetch"
    /\ response' = [response EXCEPT ![t] = 0]
    /\ todo' = [todo EXCEPT ![t] = Countries]
    /\ pc' = [pc EXCEPT ![t] = "save"]
    /\ UNCHANGED <<clock, missed, due, row, lock, fxCache, cron, busy, faults, quotes>>

\* Mutant: the loop leaves one row out.
SaveRateButLast(t, c) ==
    /\ pc[t] = "save"
    /\ c \in todo[t]
    /\ row' = [row EXCEPT ![c] = response[t]]
    /\ todo' = [todo EXCEPT ![t] = @ \ {c}]
    /\ pc' = [pc EXCEPT ![t] = IF Cardinality(todo[t]) <= 2 THEN "cache" ELSE "save"]
    /\ UNCHANGED <<clock, missed, due, lock, fxCache, cron, response, busy, faults, quotes>>

\* The loop saves the rows one by one, outside a transaction.
SaveRate(t, c) ==
    /\ pc[t] = "save"
    /\ c \in todo[t]
    /\ row' = [row EXCEPT ![c] = response[t]]
    /\ todo' = [todo EXCEPT ![t] = @ \ {c}]
    /\ pc' = [pc EXCEPT ![t] = IF todo[t] = {c} THEN "cache" ELSE "save"]
    /\ UNCHANGED <<clock, missed, due, lock, fxCache, cron, response, busy, faults, quotes>>

\* Mutant: the entry of the rates gets no ttl.
CacheRatesForGood(t) ==
    /\ pc[t] = "cache"
    /\ fxCache' = [age |-> response[t], ttl |-> Cap + Cap]
    /\ IF t \in cron
       THEN pc' = [pc EXCEPT ![t] = "release"] /\ UNCHANGED <<cron, response, todo, busy>>
       ELSE Leave(t, "idle")
    /\ UNCHANGED <<clock, missed, due, row, lock, faults, quotes>>

\* Mutant: every refresh ends like the job.
CacheThenRelease(t) ==
    /\ pc[t] = "cache"
    /\ fxCache' = [age |-> response[t], ttl |-> Ttl]
    /\ pc' = [pc EXCEPT ![t] = "release"]
    /\ UNCHANGED <<clock, missed, due, row, lock, cron, response, todo, busy, faults, quotes>>

\* The key exchangeRates.  The seeder and getFxRates are done with it.
CacheRates(t) ==
    /\ pc[t] = "cache"
    /\ fxCache' = [age |-> response[t], ttl |-> Ttl]
    /\ IF t \in cron
       THEN pc' = [pc EXCEPT ![t] = "release"] /\ UNCHANGED <<cron, response, todo, busy>>
       ELSE Leave(t, "idle")
    /\ UNCHANGED <<clock, missed, due, row, lock, faults, quotes>>

\* Mutant: the job returns without releaseLock.
ReleaseForgotten(i) ==
    /\ pc[i] = "release"
    /\ Leave(i, "idle")
    /\ UNCHANGED <<clock, missed, due, row, lock, fxCache, faults, quotes>>

\* releaseLock deletes the key, whoever has set it.
Release(i) ==
    /\ pc[i] = "release"
    /\ lock' = 0
    /\ Leave(i, "idle")
    /\ UNCHANGED <<clock, missed, due, row, fxCache, faults, quotes>>

\* The process of i ends: it is down until Seed, and its cron job does not fire.
GoesDown(i) == due' = due \ {i} /\ Leave(i, "starting")

\* The service, the database or the cache throws.  The job logs it and leaves the
\* lock as it is, a request answers; the seeder ends the process.
TaskFails(t) ==
    /\ pc[t] \notin {"starting", "idle"}
    /\ faults < MaxFaults
    /\ faults' = faults + 1
    /\ \/ t \in Instances \ cron /\ GoesDown(t)
       \/ t \notin Instances \ cron /\ Leave(t, "idle") /\ UNCHANGED due
    /\ UNCHANGED <<clock, missed, row, lock, fxCache, quotes>>

Crash(i) ==
    /\ faults < MaxFaults
    /\ faults' = faults + 1
    /\ GoesDown(i)
    /\ UNCHANGED <<clock, missed, row, lock, fxCache, quotes>>

-----------------------------------------------------------------------------
(* getExchangeRate.  When the pair is cached it answers and changes nothing. *)

Code(q, k) == IF k = "from" THEN want[q][1] ELSE want[q][2]

AskRate(q) ==
    /\ want[q] = None
    /\ \E p \in Pairs : pairs[p] = None /\ want' = [want EXCEPT ![q] = p]
    /\ UNCHANGED <<clock, missed, due, row, lock, refresh, countries, pairs, have, store, waited>>

\* fetchCountryData of one side: a hit.
ReadCountryCache(q, k) ==
    /\ want[q] # None
    /\ have[q][k] = None
    /\ countries[Code(q, k)] # None
    /\ have' = [have EXCEPT ![q][k] = countries[Code(q, k)].age]
    /\ UNCHANGED <<clock, missed, due, row, lock, refresh, countries, pairs, want, store, waited>>

\* A miss: some country of that currency, and the cache is still to be filled.
ReadCountryRow(q, k) ==
    /\ want[q] # None
    /\ have[q][k] = None
    /\ countries[Code(q, k)] = None
    /\ \E c \in Countries :
          /\ Currency[c] = Code(q, k)
          /\ have' = [have EXCEPT ![q][k] = row[c]]
    /\ store' = [store EXCEPT ![q] = @ \cup {k}]
    /\ UNCHANGED <<clock, missed, due, row, lock, refresh, countries, pairs, want, waited>>

StoreCountry(q, k) ==
    /\ k \in store[q]
    /\ countries' = [countries EXCEPT ![Code(q, k)] = [age |-> have[q][k], ttl |-> Ttl]]
    /\ store' = [store EXCEPT ![q] = @ \ {k}]
    /\ UNCHANGED <<clock, missed, due, row, lock, refresh, pairs, want, have, waited>>

\* A side without a rate: the service is asked for the pair.
CompareCurrencies(q) ==
    /\ store[q] = {}
    /\ \A k \in Sides : have[q][k] # None
    /\ \E k \in Sides : have[q][k] = NoRate
    /\ have' = [have EXCEPT ![q] = [k \in Sides |-> 0]]
    /\ UNCHANGED <<clock, missed, due, row, lock, refresh, countries, pairs, want, store, waited>>

Answer(q) ==
    /\ want' = [want EXCEPT ![q] = None]
    /\ have' = [have EXCEPT ![q] = Empty]
    /\ store' = [store EXCEPT ![q] = {}]
    /\ waited' = [waited EXCEPT ![q] = 0]

\* Mutant: the entry of a pair gets the ttl of a day.
QuoteForLong(q) ==
    /\ store[q] = {}
    /\ \A k \in Sides : have[q][k] \in Ages
    /\ pairs' = [pairs EXCEPT ![want[q]] =
          [from |-> have[q]["from"], to |-> have[q]["to"], ttl |-> 24 * Ttl]]
    /\ Answer(q)
    /\ UNCHANGED <<clock, missed, due, row, lock, refresh, countries>>

\* The quotient of the two sides is cached and returned.
Quote(q) ==
    /\ store[q] = {}
    /\ \A k \in Sides : have[q][k] \in Ages
    /\ pairs' = [pairs EXCEPT ![want[q]] =
          [from |-> have[q]["from"], to |-> have[q]["to"], ttl |-> Ttl]]
    /\ Answer(q)
    /\ UNCHANGED <<clock, missed, due, row, lock, refresh, countries>>

QuoteFails(q) ==
    /\ want[q] # None
    /\ Answer(q)
    /\ UNCHANGED <<clock, missed, due, row, lock, refresh, countries, pairs>>

-----------------------------------------------------------------------------
(* Time. *)

Older(age) == IF age \in Ages THEN (IF age < Cap THEN age + 1 ELSE Cap) ELSE age

\* Mutant: the lock is set without a ttl.
NoLockTtl(ttl) == ttl

\* What is left of the ttl of the lock.
LockTtl(ttl) == IF ttl = 0 THEN 0 ELSE ttl - 1

\* An entry of the caches after one unit of time: gone at the end of its ttl.
Entry(e) ==
    IF e = None \/ e.ttl = 1 THEN None ELSE [age |-> Older(e.age), ttl |-> e.ttl - 1]
PairEntry(e) ==
    IF e = None \/ e.ttl = 1 THEN None
    ELSE [from |-> Older(e.from), to |-> Older(e.to), ttl |-> e.ttl - 1]

AtWork(t) == pc[t] \notin {"starting", "idle"}
Up        == {i \in Instances : pc[i] # "starting"}

\* The time of the cron expression: the timers of the processes that are up fire.
CronTime ==
    /\ due' = Up
    /\ missed' = IF Up = {} THEN missed + 1 ELSE missed
    /\ missed' <= MaxMissed

Tick ==
    /\ due = {}
    /\ \A t \in Tasks : AtWork(t) => busy[t] < MaxJob
    /\ \A q \in Quoters : want[q] # None => waited[q] < MaxJob
    /\ clock' = (clock + 1) % Period
    /\ IF clock' = 0 THEN CronTime ELSE due' = {} /\ UNCHANGED missed
    /\ row' = [c \in Countries |-> Older(row[c])]
    /\ lock' = LockTtl(lock)
    /\ fxCache' = Entry(fxCache)
    /\ response' = [t \in Tasks |-> Older(response[t])]
    /\ busy' = [t \in Tasks |-> IF AtWork(t) THEN busy[t] + 1 ELSE 0]
    /\ countries' = [x \in Currencies |-> Entry(countries[x])]
    /\ pairs' = [p \in Pairs |-> PairEntry(pairs[p])]
    /\ have' = [q \in Quoters |-> [k \in Sides |-> Older(have[q][k])]]
    /\ waited' = [q \in Quoters |-> IF want[q] # None THEN waited[q] + 1 ELSE 0]
    /\ UNCHANGED <<pc, cron, todo, faults, want, store>>

-----------------------------------------------------------------------------

RefreshStep(t) == Fetch(t) \/ (\E c \in Countries : SaveRate(t, c)) \/ CacheRates(t)
InstanceStep(i) == Seed(i) \/ CronFires(i) \/ SetLock(i) \/ RefreshStep(i) \/ Release(i)
QuoteStep(q) ==
    \/ CompareCurrencies(q) \/ Quote(q)
    \/ \E k \in Sides : ReadCountryCache(q, k) \/ ReadCountryRow(q, k) \/ StoreCountry(q, k)

Next ==
    \/ \E i \in Instances : InstanceStep(i) \/ Crash(i)
    \/ \E r \in FxRequests : FxRatesMissing(r) \/ RefreshStep(r)
    \/ \E t \in Tasks : TaskFails(t)
    \/ \E q \in Quoters : AskRate(q) \/ QuoteStep(q) \/ QuoteFails(q)
    \/ Tick

\* Tasks that have started go on, processes that have ended are started, and time passes.
Fairness ==
    /\ \A i \in Instances : WF_vars(InstanceStep(i))
    /\ \A r \in FxRequests : WF_vars(RefreshStep(r))
    /\ \A q \in Quoters : WF_vars(QuoteStep(q))
    /\ WF_vars(Tick)

Safety == Init /\ [][Next]_vars
Spec   == Safety /\ Fairness

-----------------------------------------------------------------------------
(* Properties. *)

Entries == [age : Ages \cup {NoRate}, ttl : 1 .. Ttl]

TypeOK ==
    /\ clock \in 0 .. Period - 1
    /\ due \subseteq Instances
    /\ row \in [Countries -> Ages \cup {NoRate}]
    /\ lock \in 0 .. Ttl
    /\ fxCache \in [age : Ages, ttl : 1 .. Ttl] \cup {None}
    /\ \A i \in Instances :
          pc[i] \in {"starting", "idle", "locking", "fetch", "save", "cache", "release"}
    /\ \A r \in FxRequests : pc[r] \in {"idle", "fetch", "save", "cache"}
    /\ cron \subseteq Instances
    /\ response \in [Tasks -> Ages \cup {None}]
    /\ todo \in [Tasks -> SUBSET Countries]
    /\ busy \in [Tasks -> 0 .. MaxJob]
    /\ faults \in 0 .. MaxFaults
    /\ missed \in 0 .. MaxMissed
    /\ countries \in [Currencies -> Entries \cup {None}]
    /\ pairs \in [Pairs -> [from : Ages, to : Ages, ttl : 1 .. Ttl] \cup {None}]
    /\ want \in [Quoters -> Pairs \cup {None}]
    /\ have \in [Quoters -> [Sides -> Ages \cup {NoRate, None}]]
    /\ store \in [Quoters -> SUBSET Sides]
    /\ waited \in [Quoters -> 0 .. MaxJob]

\* The runs a lock can cost that is left behind: its own, and those before its ttl is over.
LostRuns == (MaxJob + Ttl + Period - 1) \div Period

\* The oldest a row may be.  A slow refresh of getFxRates can put older rates back
\* over those of the job, which then wait for the next job, which can be slow too;
\* a failing job or a crash leaves its lock behind; and when no process is up the
\* run is missed, and is not made up for, since the seeder finds a rate and is content.
OldestRow == (1 + faults * LostRuns + missed) * Period + 2 * MaxJob

\* The job keeps the rates of the table fresh but for the runs that faults and outages
\* cost, whatever instances, requests and restarts do to each other's lock: it is taken
\* by a get and a set, deleted by whoever is done, and left behind by who fails.
RatesStayFresh == \A c \in Countries : row[c] # NoRate => row[c] <= OldestRow

\* What getFxRates answers is no older than a cache entry can get after a refresh
\* that took as long as it may, whoever refreshed it.
FxRatesFresh == fxCache # None => fxCache.age < Ttl + MaxJob

\* A lock is left behind only by a fault: two instances that both got it delete it
\* twice, and neither deletion lets a third job leave one.
LockHasAHolder ==
    faults = 0 /\ lock > 0 => \E i \in cron : pc[i] \in {"fetch", "save", "cache", "release"}

\* Rates are refreshed again and again, whatever a fault leaves locked.
RatesRefreshedAgain == []<>(\A c \in Countries : row[c] \in 0 .. MaxJob)

\* When no refresh is under way and none has failed, the rows are of one generation
\* or of two that overlapped: a cross rate mixes nothing older than that.
RowsAgree ==
    faults = 0 /\ (\A t \in Tasks : pc[t] \in {"idle", "locking"}) =>
        \A c, d \in Countries : row[c] # NoRate /\ row[c] - row[d] <= MaxJob

\* A quote lives through two caches: from a row, to the entry of its country, to
\* the entry of its pair, each of them read by a request that may be slow.
QuotesFresh ==
    \A p \in Pairs : pairs[p] # None =>
        /\ pairs[p].from <= OldestRow + 2 * (MaxJob + Ttl - 1)
        /\ pairs[p].to <= OldestRow + 2 * (MaxJob + Ttl - 1)

\* What 'Another instance is already running' says of the lock: one instance at a
\* time is past it.
OneJobAtATime ==
    \A i, j \in cron :
        pc[i] # "locking" /\ pc[j] # "locking" => i = j

=============================================================================
