---------------------------- MODULE OperatorProofs ----------------------------
(***************************************************************************)
(* What holds of the operators without state: the rounding of a conversion *)
(* and of a BUY, for every amount and rate; then the searches and the      *)
(* rates for a base, for every table and query; then the guards in front   *)
(* of the handlers, for every caller.                                      *)
(***************************************************************************)
EXTENDS Exchange, Queries, Access, TLAPS

\* The rate of the way back.
Inverse(rate) == [num |-> rate.den, den |-> rate.num]

\* Products with a positive factor compare as the other factors do.
LEMMA Cancel ==
    ASSUME NEW a \in Int, NEW b \in Int, NEW n \in Nat \ {0}, a * n < b * n + n
    PROVE  a <= b
<1>1. a - b \in Int /\ (a - b) * n < n
  BY SMT
<1>2. \A d \in Int : d >= 1 => d * n >= n
  BY SMT
<1>. QED
  BY <1>1, <1>2

LEMMA CancelFactor ==
    ASSUME NEW a \in Int, NEW b \in Int, NEW n \in Nat \ {0}, a * n <= b * n
    PROVE  a <= b
<1>1. a * n \in Int /\ b * n \in Int
  BY SMT
<1>2. a * n < b * n + n
  BY <1>1
<1>. QED
  BY <1>2, Cancel

LEMMA Bounds ==
    ASSUME NEW amount \in Nat, NEW rate, IsRate(rate), NEW got \in ConvertedAmounts(amount, rate)
    PROVE  /\ got \in Nat /\ rate.num \in Nat \ {0} /\ rate.den \in Nat \ {0}
           /\ got * rate.den \in Nat /\ amount * rate.num \in Nat
           /\ 2 * (got * rate.den) <= 2 * (amount * rate.num) + rate.den
           /\ 2 * (got * rate.den) >= 2 * (amount * rate.num) - rate.den
<1>1. rate.num \in Nat \ {0} /\ rate.den \in Nat \ {0}
  BY DEF IsRate
<1>2. got \in Nat
  BY <1>1, SMT DEF ConvertedAmounts
<1>3. got * rate.den \in Nat /\ amount * rate.num \in Nat
  BY <1>1, <1>2, SMT
<1>4. /\ 2 * got * rate.den = 2 * (got * rate.den)
      /\ 2 * amount * rate.num = 2 * (amount * rate.num)
  BY <1>1, <1>2, SMT
<1>5. /\ 2 * got * rate.den <= 2 * amount * rate.num + rate.den
      /\ 2 * got * rate.den >= 2 * amount * rate.num - rate.den
  BY DEF ConvertedAmounts
<1>. QED
  BY <1>1, <1>2, <1>3, <1>4, <1>5

\* A BUY delivers the amount bought to the nearest unit: at most half a unit less, nothing
\* less when the amount is whole, and at most what one more unit of the quote currency and
\* half a unit of rounding bring.  The cost is rounded up and the conversion to the
\* nearest, so that of a fraction of a unit, which DTO and code let through, the rounding
\* can take all: 0.4 at the rate 0.4 costs 1 and delivers 0.  The first two bounds hold too
\* when the conversion reads a rate that has risen since the cost was worked out.
THEOREM BuyDelivers ==
    ASSUME NEW amount, IsAmount(amount), NEW rate, IsRate(rate), NEW later, IsRate(later),
           rate.num * later.den <= later.num * rate.den,
           NEW cost \in BuyCosts(amount, rate), NEW got \in ConvertedAmounts(cost, later)
    PROVE  /\ 2 * amount.num <= 2 * (got * amount.den) + amount.den
           /\ amount.den = 1 => got >= amount.num
           /\ later = rate =>
                 2 * (got * (rate.den * amount.den)) <=
                    2 * (amount.num * rate.den) + 2 * (rate.num * amount.den) + rate.den * amount.den
<1>. DEFINE n == amount.num
            d == amount.den
<1>1. /\ rate.num \in Nat \ {0} /\ rate.den \in Nat \ {0}
      /\ later.num \in Nat \ {0} /\ later.den \in Nat \ {0}
      /\ n \in Nat \ {0} /\ d \in Nat \ {0}
  BY DEF IsRate, IsAmount
<1>2. /\ cost \in Nat
      /\ cost * (rate.num * d) >= n * rate.den
      /\ cost * (rate.num * d) <= n * rate.den + rate.num * d
  BY <1>1, SMT DEF BuyCosts
<1>3. /\ got \in Nat /\ got * later.den \in Nat /\ cost * later.num \in Nat
      /\ 2 * (got * later.den) <= 2 * (cost * later.num) + later.den
      /\ 2 * (got * later.den) >= 2 * (cost * later.num) - later.den
  BY <1>2, Bounds
<1>. HIDE DEF n, d
\* What is paid, at the later rate, is worth the amount.
<1>4. n * later.den <= (cost * later.num) * d
  <2>1. (n * rate.den) * later.den <= (cost * (rate.num * d)) * later.den
    BY <1>1, <1>2, SMT
  <2>2. (cost * d) * (rate.num * later.den) <= (cost * d) * (later.num * rate.den)
    <3>1. rate.num * later.den \in Nat /\ later.num * rate.den \in Nat /\ cost * d \in Nat
      BY <1>1, <1>2, SMT
    <3>. QED
      BY <3>1, SMT
  <2>3. /\ (n * later.den) * rate.den = (n * rate.den) * later.den
        /\ (cost * (rate.num * d)) * later.den = (cost * d) * (rate.num * later.den)
        /\ ((cost * later.num) * d) * rate.den = (cost * d) * (later.num * rate.den)
    BY <1>1, <1>2, SMT
  <2>4. n * later.den \in Int /\ (cost * later.num) * d \in Int
    BY <1>1, <1>2, SMT
  <2>5. (n * later.den) * rate.den <= ((cost * later.num) * d) * rate.den
    <3>. DEFINE left  == (n * rate.den) * later.den
                paid  == (cost * d) * (rate.num * later.den)
                right == (cost * d) * (later.num * rate.den)
    <3>1. left \in Int /\ paid \in Int /\ right \in Int
      BY <1>1, <1>2, SMT
    <3>2. left <= paid /\ paid <= right
      BY <2>1, <2>2, <2>3, Zenon
    <3>. HIDE DEF left, paid, right
    <3>3. left <= right
      BY <3>1, <3>2
    <3>. QED
      BY <2>3, <3>3, Zenon DEF left, right
  <2>. QED
    BY <1>1, <2>4, <2>5, CancelFactor
<1>5. 2 * n <= 2 * (got * d) + d
  <2>1. (2 * (cost * later.num)) * d <= (2 * (got * later.den) + later.den) * d
    <3>1. 2 * (cost * later.num) \in Nat /\ 2 * (got * later.den) + later.den \in Nat
          /\ 2 * (cost * later.num) <= 2 * (got * later.den) + later.den
      BY <1>1, <1>3, SMT
    <3>. QED
      BY <1>1, <3>1, SMT
  <2>2. /\ (2 * (cost * later.num)) * d = 2 * ((cost * later.num) * d)
        /\ (2 * (got * later.den) + later.den) * d = (2 * (got * d) + d) * later.den
        /\ (2 * n) * later.den = 2 * (n * later.den)
    BY <1>1, <1>2, <1>3, SMT
  <2>3. 2 * n \in Int /\ 2 * (got * d) + d \in Int
    BY <1>1, <1>3, SMT
  <2>4. (2 * n) * later.den <= (2 * (got * d) + d) * later.den
    <3>. DEFINE asked == n * later.den
                worth == (cost * later.num) * d
                most  == (2 * (got * later.den) + later.den) * d
    <3>1. asked \in Int /\ worth \in Int /\ most \in Int
      BY <1>1, <1>2, <1>3, SMT
    <3>2. asked <= worth
      BY <1>4
    <3>3. 2 * worth <= most
      BY <2>1, <2>2, Zenon
    <3>. HIDE DEF asked, worth, most
    <3>4. 2 * asked <= most
      BY <3>1, <3>2, <3>3
    <3>. QED
      BY <2>2, <3>4, Zenon DEF asked, most
  <2>. QED
    BY <1>1, <2>3, <2>4, CancelFactor
<1>6. d = 1 => got >= n
  BY <1>1, <1>3, <1>5, SMT
<1>7. ASSUME later = rate
      PROVE  2 * (got * (rate.den * d)) <= 2 * (n * rate.den) + 2 * (rate.num * d) + rate.den * d
  <2>1. (2 * (got * rate.den)) * d <= (2 * (cost * rate.num) + rate.den) * d
    <3>1. 2 * (got * rate.den) \in Nat /\ 2 * (cost * rate.num) + rate.den \in Nat
          /\ 2 * (got * rate.den) <= 2 * (cost * rate.num) + rate.den
      BY <1>1, <1>3, <1>7, SMT
    <3>. QED
      BY <1>1, <3>1, SMT
  <2>2. /\ (2 * (got * rate.den)) * d = 2 * (got * (rate.den * d))
        /\ (2 * (cost * rate.num) + rate.den) * d = 2 * (cost * (rate.num * d)) + rate.den * d
    BY <1>1, <1>2, <1>3, SMT
  <2>3. /\ got * (rate.den * d) \in Int /\ cost * (rate.num * d) \in Int /\ n * rate.den \in Int
        /\ rate.num * d \in Int /\ rate.den * d \in Int
    BY <1>1, <1>2, <1>3, SMT
  <2>. QED
    BY <1>2, <2>1, <2>2, <2>3, SMT
<1>. QED
  BY <1>5, <1>6, <1>7 DEF n, d

\* Converting there and back gains at most half a unit of each currency: with a rate of 1
\* or more, at most one unit, however large the amount.
THEOREM RoundTrip ==
    ASSUME NEW amount \in Nat, NEW rate, IsRate(rate),
           NEW got \in ConvertedAmounts(amount, rate), NEW back \in ConvertedAmounts(got, Inverse(rate))
    PROVE  /\ 2 * (back * rate.num) <= 2 * (amount * rate.num) + rate.num + rate.den
           /\ rate.den <= rate.num => back <= amount + 1
<1>1. /\ got \in Nat /\ rate.num \in Nat \ {0} /\ rate.den \in Nat \ {0}
      /\ got * rate.den \in Nat /\ amount * rate.num \in Nat
      /\ 2 * (got * rate.den) <= 2 * (amount * rate.num) + rate.den
  BY Bounds
<1>2. IsRate(Inverse(rate)) /\ Inverse(rate).num = rate.den /\ Inverse(rate).den = rate.num
  BY <1>1 DEF IsRate, Inverse
<1>3. /\ back \in Nat /\ back * rate.num \in Nat
      /\ 2 * (back * rate.num) <= 2 * (got * rate.den) + rate.num
  BY <1>1, <1>2, Bounds
<1>4. 2 * (back * rate.num) <= 2 * (amount * rate.num) + rate.num + rate.den
  BY <1>1, <1>3, SMT
<1>5. ASSUME rate.den <= rate.num
      PROVE  back <= amount + 1
  <2>1. (amount + 1) * rate.num = amount * rate.num + rate.num
    BY <1>1, SMT
  <2>2. back * rate.num < (amount + 1) * rate.num + rate.num
    BY <1>1, <1>3, <1>4, <1>5, <2>1, SMT
  <2>. QED
    BY <1>1, <1>3, <2>2, Cancel
<1>. QED
  BY <1>4, <1>5

\* An amount worth less than half a unit is converted to nothing, and only such a one is:
\* the debit of a larger one always has its credit.
THEOREM WorthNothing ==
    ASSUME NEW amount \in Nat, NEW rate, IsRate(rate), NEW got \in ConvertedAmounts(amount, rate)
    PROVE  /\ 2 * (amount * rate.num) < rate.den => got = 0
           /\ 2 * (amount * rate.num) > rate.den => got > 0
<1>1. /\ got \in Nat /\ rate.den \in Nat \ {0}
      /\ got * rate.den \in Nat /\ amount * rate.num \in Nat
      /\ 2 * (got * rate.den) <= 2 * (amount * rate.num) + rate.den
      /\ 2 * (got * rate.den) >= 2 * (amount * rate.num) - rate.den
  BY Bounds
<1>2. ASSUME 2 * (amount * rate.num) < rate.den
      PROVE  got = 0
  <2>1. got * rate.den < 0 * rate.den + rate.den
    BY <1>1, <1>2, SMT
  <2>2. got <= 0
    BY <1>1, <2>1, Cancel
  <2>. QED
    BY <1>1, <2>2
<1>3. ASSUME 2 * (amount * rate.num) > rate.den, got = 0
      PROVE  FALSE
  BY <1>1, <1>3, SMT
<1>. QED
  BY <1>1, <1>2, <1>3

\* Quotients, as the two rational results of the code are rounded from.
LEMMA Quotient ==
    ASSUME NEW n \in Nat, NEW d \in Nat \ {0}
    PROVE  n \div d \in Nat /\ (n \div d) * d <= n /\ n < (n \div d) * d + d /\ n \div d <= n
<1>1. n \div d \in Nat /\ (n \div d) * d <= n /\ n < (n \div d) * d + d
  BY SMT
<1>2. n \div d <= (n \div d) * d
  BY <1>1, SMT
<1>. QED
  BY <1>1, <1>2

\* Every conversion and every BUY has a result: the theorems above are about something.
THEOREM ConversionDefined ==
    ASSUME NEW amount \in Nat, NEW bought, IsAmount(bought), NEW rate, IsRate(rate)
    PROVE  ConvertedAmounts(amount, rate) # {} /\ BuyCosts(bought, rate) # {}
<1>. DEFINE worth == amount * rate.num
            low   == worth \div rate.den
            price == bought.num * rate.den
            unit  == rate.num * bought.den
            least == price \div unit
<1>1. /\ rate.num \in Nat \ {0} /\ rate.den \in Nat \ {0} /\ worth \in Nat
      /\ price \in Nat /\ unit \in Nat \ {0}
  <2>1. /\ rate.num \in Nat \ {0} /\ rate.den \in Nat \ {0}
        /\ bought.num \in Nat \ {0} /\ bought.den \in Nat \ {0}
    BY DEF IsRate, IsAmount
  <2>. QED
    BY <2>1, SMT
<1>2. low \in Nat /\ low * rate.den <= worth /\ worth < low * rate.den + rate.den /\ low <= worth
  BY <1>1, Quotient
<1>3. least \in Nat /\ least * unit <= price /\ price < least * unit + unit /\ least <= price
  BY <1>1, Quotient
<1>. HIDE DEF low, least
<1>4. ConvertedAmounts(amount, rate) # {}
  <2>1. CASE 2 * (low * rate.den) >= 2 * worth - rate.den
    <3>1. low \in ConvertedAmounts(amount, rate)
      BY <1>1, <1>2, <2>1, SMT DEF ConvertedAmounts
    <3>. QED
      BY <3>1
  <2>2. CASE 2 * (low * rate.den) < 2 * worth - rate.den
    <3>1. low + 1 \in ConvertedAmounts(amount, rate)
      BY <1>1, <1>2, <2>2, SMT DEF ConvertedAmounts
    <3>. QED
      BY <3>1
  <2>3. low * rate.den \in Int
    BY <1>1, <1>2, SMT
  <2>. QED
    BY <1>1, <2>1, <2>2, <2>3, SMT
<1>5. BuyCosts(bought, rate) # {}
  <2>1. (least + 1) * unit = least * unit + unit
    BY <1>1, <1>3, SMT
  <2>2. least + 1 \in BuyCosts(bought, rate)
    BY <1>1, <1>3, <2>1, SMT DEF BuyCosts
  <2>. QED
    BY <2>2
<1>. QED
  BY <1>4, <1>5



\* The query of an admin that asks for what a user's own search asks.
AsAdmin(user_id, q) ==
    [user_id |-> user_id, session_id |-> None, is_transfer |-> None, flow |-> None, status |-> None,
     type |-> q.type, reference |-> q.reference, start_date |-> q.start_date, end_date |-> q.end_date]

\* The two searches of the transactions, written apart, agree: what a user sees of the
\* table is what an admin sees of the user.
THEOREM OwnSearchIsAdminSearch ==
    ASSUME NEW table, NEW user_id, Given(user_id), NEW q, None # TRUE
    PROVE  getTransactions(table, user_id, q) = adminGetTransactions(table, AsAdmin(user_id, q))
<1>1. \A column : Is(user_id, column) <=> column = user_id
  BY DEF Is
<1>2. \A column : Is(None, column)
  BY DEF Is, Given
<1>3. user_id # None
  BY DEF Given
<1>. QED
  BY <1>1, <1>2, <1>3, Zenon DEF getTransactions, adminGetTransactions, AsAdmin

\* The filters of an admin's query, the broken ones aside: q asks for all that r asks for.
Narrows(q, r) ==
    /\ r.user_id \in {None, q.user_id} /\ r.session_id \in {None, q.session_id}
    /\ r.flow \in {None, q.flow} /\ r.status \in {None, q.status}
    /\ r.type \in {None, q.type} /\ r.reference \in {None, q.reference}
    /\ r.is_transfer = None
    /\ r.start_date # None => q.start_date # None /\ q.start_date >= r.start_date
    /\ r.end_date # None => q.end_date # None /\ q.end_date <= r.end_date

\* Another filter, or a shorter period, never brings a row in.
THEOREM FiltersNarrow ==
    ASSUME NEW table, \A t \in table : t.created_at \in Int,
           NEW q, NEW r, {q.start_date, q.end_date, r.start_date, r.end_date} \subseteq Int \cup {None},
           None # TRUE, Narrows(q, r)
    PROVE  adminGetTransactions(table, q) \subseteq adminGetTransactions(table, r)
<1>1. \A v, w, column : w \in {None, v} /\ Is(v, column) => Is(w, column)
  BY DEF Is, Given
<1>2. ASSUME NEW at \in Int, Within(q.start_date, q.end_date, at)
      PROVE  Within(r.start_date, r.end_date, at)
  BY <1>2, SMT DEF Within, Narrows
<1>3. SUFFICES ASSUME NEW t \in adminGetTransactions(table, q)
               PROVE  t \in adminGetTransactions(table, r)
  OBVIOUS
<1>4. t \in table /\ t.created_at \in Int
  BY <1>3 DEF adminGetTransactions
<1>5. /\ Is(r.user_id, t.user_id) /\ Is(r.session_id, t.session_id)
      /\ Is(r.flow, t.flow) /\ Is(r.status, t.status)
      /\ Is(r.type, t.type) /\ Is(r.reference, t.reference)
  BY <1>1, <1>3 DEF adminGetTransactions, Narrows
<1>6. Within(r.start_date, r.end_date, t.created_at)
  BY <1>2, <1>3, <1>4 DEF adminGetTransactions
<1>. QED
  BY <1>4, <1>5, <1>6 DEF adminGetTransactions, Narrows

\* A password that a registration, the completion of an invitation or a change accepts is
\* one that the next sign-in and the next change accept, so that nobody sets one he cannot
\* use again.
THEOREM PasswordsStayUsable ==
    ASSUME NEW password, NEW next, NEW email, IsEmail(email), AtLeast(next, 6),
           password.length \in Nat,
           \/ \E p : SignupDto(p) /\ p.password = password
           \/ \E p : CompleteAdminSignupDto(p) /\ p.password = password
           \/ \E p : ChangePasswordDto(p) /\ p.new_password = password
    PROVE  /\ SigninDto([email |-> email, password |-> password])
           /\ ChangePasswordDto([current_password |-> password, new_password |-> next])
<1>1. AtLeast(password, 6)
  <2>1. CASE \E p : SignupDto(p) /\ p.password = password
    BY <2>1 DEF SignupDto
  <2>2. CASE \E p : CompleteAdminSignupDto(p) /\ p.password = password
    BY <2>2 DEF CompleteAdminSignupDto, Between, AtLeast
  <2>3. CASE \E p : ChangePasswordDto(p) /\ p.new_password = password
    BY <2>3 DEF ChangePasswordDto
  <2>. QED
    BY <2>1, <2>2, <2>3
<1>2. NotEmpty(password)
  BY <1>1 DEF AtLeast, NotEmpty
<1>. QED
  BY <1>1, <1>2 DEF SigninDto, ChangePasswordDto

\* The month the statistics compare with is the one before, over a year's end too.
THEOREM LastMonthPrecedes ==
    ASSUME NEW now, now.month \in 1 .. 12, now.year \in Int
    PROVE  /\ LastMonth(now).month \in 1 .. 12
           /\ 12 * LastMonth(now).year + LastMonth(now).month = 12 * now.year + now.month - 1
  BY DEF LastMonth

\* k hundredths have the sign the direction announces, and no loss is of more than all.
Agrees(k, current, last) ==
    /\ direction(current, last) = "increase" => k >= 0
    /\ direction(current, last) = "decrease" => k \in -10000 .. 0
    /\ direction(current, last) = "no change" => k = 0

\* The percentage is there for all numbers of users, no division by zero among them, and
\* has the sign the direction announces.
THEOREM PercentageAgrees ==
    ASSUME NEW current \in Nat, NEW last \in Nat
    PROVE  /\ percentageChange(current, last) # {}
           /\ \A k \in percentageChange(current, last) : Agrees(k, current, last)
<1>. DEFINE
       Goal ==
           /\ percentageChange(current, last) # {}
           /\ \A k \in percentageChange(current, last) : Agrees(k, current, last)
<1>1. ASSUME current = last \/ last = 0
      PROVE  Goal
  BY <1>1 DEF percentageChange, direction, Agrees
<1>2. ASSUME current # last /\ last # 0
      PROVE  Goal
  <2>. DEFINE n == current - last
              low == (10000 * n) \div last
  <2>1. n \in Int /\ last \in Nat \ {0} /\ 10000 * n \in Int
    BY <1>2
  <2>2. low \in Int /\ low * last <= 10000 * n /\ 10000 * n < low * last + last
    BY <2>1, SMT
  <2>3. percentageChange(current, last) = Hundredths(n, last)
    BY <1>2 DEF percentageChange
  <2>4. Hundredths(n, last) # {}
    <3>1. CASE 2 * (low * last) >= 20000 * n - last
      <4>1. low \in Hundredths(n, last)
        BY <2>1, <2>2, <3>1, SMT DEF Hundredths
      <4>. QED
        BY <4>1
    <3>2. CASE ~(2 * (low * last) >= 20000 * n - last)
      <4>1. low + 1 \in Hundredths(n, last)
        BY <2>1, <2>2, <3>2, SMT DEF Hundredths
      <4>. QED
        BY <4>1
    <3>. QED
      BY <3>1, <3>2
  <2>5. ASSUME NEW k \in Hundredths(n, last)
        PROVE  /\ k \in Int
               /\ 2 * k * last <= 20000 * n + last /\ 2 * k * last >= 20000 * n - last
    BY <2>2 DEF Hundredths
  <2>6. ASSUME NEW k \in Hundredths(n, last), n > 0
        PROVE  k >= 0
    BY <2>1, <2>5, <2>6, SMT
  <2>7. ASSUME NEW k \in Hundredths(n, last), n < 0
        PROVE  k \in -10000 .. 0
    <3>1. k \in Int /\ -last <= n /\ 20000 * n >= -20000 * last
      BY <2>1, <2>5, SMT
    <3>2. ~(k > 0)
      <4>1. k > 0 => 2 * k * last >= 2 * last
        BY <2>1, <3>1, SMT
      <4>. QED
        BY <2>1, <2>5, <2>7, <4>1, SMT
    <3>3. ~(k < -10000)
      <4>1. k < -10000 => 2 * k * last <= -20002 * last
        <5>1. \A d \in Nat : d >= 10001 => d * last >= 10001 * last
          BY <2>1, SMT
        <5>2. k < -10000 => -k \in Nat /\ -k >= 10001
          BY <3>1, SMT
        <5>3. 2 * k * last = -2 * ((-k) * last)
          BY <2>1, <3>1, SMT
        <5>. QED
          BY <2>1, <5>1, <5>2, <5>3, SMT
      <4>. QED
        BY <2>1, <2>5, <3>1, <4>1, SMT
    <3>. QED
      BY <3>1, <3>2, <3>3
  <2>8. ASSUME NEW k \in percentageChange(current, last)
        PROVE  Agrees(k, current, last)
    <3>1. k \in Hundredths(n, last)
      BY <2>3, <2>8
    <3>2. CASE current > last
      <4>1. direction(current, last) = "increase" /\ n > 0
        BY <3>2 DEF direction
      <4>2. k >= 0
        BY <3>1, <4>1, <2>6
      <4>. QED
        BY <4>1, <4>2 DEF Agrees
    <3>3. CASE current < last
      <4>1. direction(current, last) = "decrease" /\ n < 0
        BY <3>3 DEF direction
      <4>2. k \in -10000 .. 0
        BY <3>1, <4>1, <2>7
      <4>. QED
        BY <4>1, <4>2 DEF Agrees
    <3>4. current > last \/ current < last
      BY <1>2
    <3>. QED
      BY <3>2, <3>3, <3>4
  <2>9. percentageChange(current, last) # {}
    BY <2>3, <2>4
  <2>. QED
    BY <2>8, <2>9
<1>3. Goal
  <2>. HIDE DEF Goal
  <2>. QED
    BY <1>1, <1>2
<1>. QED
  BY <1>3

\* The routes of a user answer a user with rows of his own, whatever the query and the id in
\* the path: the lists of transactions and activities, and the single transaction.
THEOREM OwnRowsOnly ==
    ASSUME NEW table, NEW user_type, NEW user_id, NEW q, NEW id,
           user_type # "admin", Given(user_id), Given("user")
    PROVE  /\ \A t \in SearchTransactions(table, CurrentUserId(user_type, user_id), q).rows :
                 t.user_id = user_id
           /\ \A t \in getTransaction(table, CurrentUserId(user_type, user_id), id).rows :
                 t.user_id = user_id
           /\ \A a \in SearchOwnActivities(table, CurrentUserId(user_type, user_id), q).rows :
                 a.entity_id = user_id /\ a.entity = "user"
<1>0. CurrentUserId(user_type, user_id) = user_id /\ user_id # None
  BY DEF CurrentUserId, Given
<1>1. \A accepted, readable, rows :
         Search(accepted, readable, q, rows).rows \in {{}, rows}
  BY DEF Search, BadRequest, InternalServerError, Listed
<1>2. \A rows : Found(id, rows).rows \in {{}, rows}
  BY DEF Found, InternalServerError, NotFound
<1>3. SearchTransactions(table, user_id, q).rows \in {{}, getTransactions(table, user_id, q)}
  BY <1>1 DEF SearchTransactions
<1>4. \A t \in getTransactions(table, user_id, q) : t.user_id = user_id
  BY DEF getTransactions
<1>5. \A t \in getTransaction(table, user_id, id).rows : t.user_id = user_id
  <2>. DEFINE rows == {t \in table : t.transaction_id = id /\ (user_id # None => t.user_id = user_id)}
  <2>1. \A t \in rows : t.user_id = user_id
    BY <1>0
  <2>2. getTransaction(table, user_id, id) = Found(id, rows)
    BY DEF getTransaction
  <2>. QED
    BY <1>2, <2>1, <2>2
<1>6. SearchOwnActivities(table, user_id, q).rows \in {{}, getActivities(table, OwnQuery(user_id, q))}
  BY <1>1 DEF SearchOwnActivities
<1>7. \A a \in getActivities(table, OwnQuery(user_id, q)) : a.entity_id = user_id /\ a.entity = "user"
  <2>1. OwnQuery(user_id, q).entity_id = user_id /\ OwnQuery(user_id, q).entity = "user"
    BY DEF OwnQuery
  <2>2. \A value, column : Given(value) /\ Is(value, column) => column = value
    BY DEF Is
  <2>. QED
    BY <2>1, <2>2 DEF getActivities
<1>. QED
  BY <1>0, <1>3, <1>4, <1>5, <1>6, <1>7

\* The same routes let in the token of an admin, who has no user_id.  His list of transactions
\* is empty; but the single transaction is any user's, as on the route for admins, and the
\* activities are those of all users, among them whatever the query yields for one of them.
THEOREM AdminOnUserRoutes ==
    ASSUME NEW table, NEW admin_id, NEW q, NEW id, NEW user_id
    PROVE  /\ SearchTransactions(table, CurrentUserId("admin", admin_id), q).rows = {}
           /\ getTransaction(table, CurrentUserId("admin", admin_id), id)
                = adminGetTransaction(table, id)
           /\ SearchOwnActivities(table, user_id, q).rows
                \subseteq SearchOwnActivities(table, CurrentUserId("admin", admin_id), q).rows
<1>1. CurrentUserId("admin", admin_id) = None
  BY DEF CurrentUserId
<1>2. \A accepted, readable, rows : /\ Search(accepted, readable, q, rows).rows \in {{}, rows}
                                  /\ Search(accepted, readable, q, rows).rows
                                       = IF accepted /\ readable THEN rows ELSE {}
  BY DEF Search, BadRequest, InternalServerError, Listed
<1>3. SearchTransactions(table, None, q).rows = {}
  <2>1. getTransactions(table, None, q) = {}
    BY DEF getTransactions
  <2>. QED
    BY <1>2, <2>1 DEF SearchTransactions
<1>4. getTransaction(table, None, id) = adminGetTransaction(table, id)
  <2>1. {t \in table : t.transaction_id = id /\ (None # None => t.user_id = None)}
          = {t \in table : t.transaction_id = id}
    OBVIOUS
  <2>. QED
    BY <2>1 DEF getTransaction, adminGetTransaction
<1>5. getActivities(table, OwnQuery(user_id, q)) \subseteq getActivities(table, OwnQuery(None, q))
  <2>1. \A column : Is(None, column)
    BY DEF Is, Given
  <2>2. /\ OwnQuery(None, q).activity_id = OwnQuery(user_id, q).activity_id
        /\ OwnQuery(None, q).entity_id = None
        /\ OwnQuery(None, q).entity = OwnQuery(user_id, q).entity
        /\ OwnQuery(None, q).from = OwnQuery(user_id, q).from
        /\ OwnQuery(None, q).to = OwnQuery(user_id, q).to
    BY DEF OwnQuery
  <2>. QED
    BY <2>1, <2>2 DEF getActivities
<1>6. SearchOwnActivities(table, user_id, q).rows \subseteq SearchOwnActivities(table, None, q).rows
  BY <1>2, <1>5 DEF SearchOwnActivities
<1>. QED
  BY <1>1, <1>3, <1>4, <1>6

-----------------------------------------------------------------------------
(* The rates for a base. *)

\* k millionths are not more than half a millionth off n / d.
NearQuotient(k, n, d) ==
    k \in Nat /\ 2 * (k * d) <= 2 * (1000000 * n) + d /\ 2 * (k * d) >= 2 * (1000000 * n) - d

\* toFixed(6) of a quotient: there is a result, and it is that near.
LEMMA MillionthsDefined ==
    ASSUME NEW n \in Nat, NEW d \in Nat \ {0}
    PROVE  Millionths(n, d) # {} /\ \A k \in Millionths(n, d) : NearQuotient(k, n, d)
<1>. DEFINE m == 1000000 * n
            low == m \div d
<1>1. m \in Nat
  OBVIOUS
<1>2. Millionths(n, d) = {k \in low .. low + 1 : 2 * k * d <= 2 * m + d /\ 2 * k * d >= 2 * m - d}
  BY DEF Millionths
<1>. HIDE DEF m
<1>3. low \in Nat /\ low * d <= m /\ m < low * d + d
  BY <1>1, Quotient
<1>. HIDE DEF low
<1>4. (low + 1) * d = low * d + d /\ low * d \in Nat
  BY <1>3, SMT
<1>5. \A k \in low .. low + 1 : k \in Nat /\ 2 * k * d = 2 * (k * d) /\ k * d \in Nat
  BY <1>3, SMT
<1>6. low \in low .. low + 1 /\ low + 1 \in low .. low + 1
  BY <1>3
<1>7. Millionths(n, d) # {}
  <2>1. CASE 2 * (low * d) >= 2 * m - d
    <3>1. low \in Millionths(n, d)
      BY <1>1, <1>2, <1>3, <1>4, <1>5, <1>6, <2>1
    <3>. QED
      BY <3>1
  <2>2. CASE ~(2 * (low * d) >= 2 * m - d)
    <3>1. 2 * ((low + 1) * d) <= 2 * m + d /\ 2 * ((low + 1) * d) >= 2 * m - d
      BY <1>1, <1>3, <1>4, <2>2
    <3>2. low + 1 \in Millionths(n, d)
      BY <1>2, <1>5, <1>6, <3>1
    <3>. QED
      BY <3>2
  <2>. QED
    BY <2>1, <2>2
<1>. QED
  BY <1>2, <1>5, <1>7 DEF m, NearQuotient

\* getFxRates for another base than USD, for any table of rates: every currency and USD
\* has a rate, a natural number of millionths not half a millionth off; the rate of the
\* base is one; and it is the same table whether USD is in the one for USD or not.
THEOREM RatesForAnyBase ==
    ASSUME NEW rates, NEW unit \in Nat \ {0}, NEW base \in DOMAIN rates, base # "USD",
           \A c \in DOMAIN rates : rates[c] \in Nat \ {0},
           "USD" \in DOMAIN rates => rates["USD"] = unit
    PROVE  /\ DOMAIN getFxRates(rates, base, unit).rows = DOMAIN rates \cup {"USD"}
           /\ getFxRates(rates, base, unit).rows[base] = {1000000}
           /\ \A c \in DOMAIN rates \cup {"USD"} :
                 LET worth == IF c = "USD" THEN unit ELSE rates[c]
                 IN  /\ getFxRates(rates, base, unit).rows[c] # {}
                     /\ \A k \in getFxRates(rates, base, unit).rows[c] :
                           NearQuotient(k, worth, rates[base])
           /\ getFxRates([c \in DOMAIN rates \ {"USD"} |-> rates[c]], base, unit).rows
                = getFxRates(rates, base, unit).rows
<1>. DEFINE all == DOMAIN rates \cup {"USD"}
            value(c) == IF c = "USD" THEN unit ELSE rates[c]
            without == [c \in DOMAIN rates \ {"USD"} |-> rates[c]]
            table == [c \in all |-> IF c = base THEN {1000000} ELSE Millionths(value(c), rates[base])]
<1>1. \A c \in all : value(c) \in Nat \ {0}
  OBVIOUS
<1>2. getFxRates(rates, base, unit).rows = table
  <2>1. derivedRates(rates, base, unit) = table
    BY DEF derivedRates
  <2>. QED
    BY <2>1 DEF getFxRates
<1>3. getFxRates(without, base, unit).rows = table
  <2>1. DOMAIN without = DOMAIN rates \ {"USD"} /\ \A c \in DOMAIN without : without[c] = rates[c]
    OBVIOUS
  <2>. HIDE DEF without
  <2>2. derivedRates(without, base, unit) = table
    BY <2>1 DEF derivedRates
  <2>3. base \in DOMAIN without
    BY <2>1
  <2>. QED
    BY <2>2, <2>3 DEF getFxRates
<1>4. ASSUME NEW c \in all
      PROVE  table[c] # {} /\ \A k \in table[c] : NearQuotient(k, value(c), rates[base])
  <2>1. CASE c = base
    <3>1. table[c] = {1000000} /\ value(c) = rates[base] /\ rates[base] \in Nat
      BY <2>1
    <3>2. NearQuotient(1000000, rates[base], rates[base])
      BY <3>1, SMT DEF NearQuotient
    <3>. HIDE DEF table, value
    <3>. QED
      BY <3>1, <3>2, SMT
  <2>2. CASE c # base
    <3>1. table[c] = Millionths(value(c), rates[base])
      BY <2>2
    <3>2. value(c) \in Nat /\ rates[base] \in Nat \ {0}
      BY <1>1
    <3>. HIDE DEF table, value
    <3>. QED
      BY <3>1, <3>2, MillionthsDefined
  <2>. QED
    BY <2>1, <2>2
<1>5. DOMAIN table = all /\ table[base] = {1000000}
  OBVIOUS
<1>. HIDE DEF table
<1>. QED
  BY <1>2, <1>3, <1>4, <1>5

-----------------------------------------------------------------------------
(* The guards. *)

\* A handler that moves money belongs to wallets.controller.ts alone, and wants a verified email.
LEMMA MoneyDemands ==
    ASSUME NEW h \in {"fundWallet", "convertCurrency", "trade"}
    PROVE  Demand(h) = Verified
<1>1. \A c \in Controllers : h \in DOMAIN c <=> c = WalletHandlers
  BY DEF Controllers, AdminHandlers, AdminViews, RoleHandlers, PermissionHandlers, UserHandlers,
         WalletHandlers, TransactionHandlers, ActivityHandlers, AuthHandlers, CountryHandlers
<1>2. WalletHandlers \in Controllers /\ h \in DOMAIN WalletHandlers /\ WalletHandlers[h] = Verified
  BY DEF Controllers, WalletHandlers
<1>3. (CHOOSE c \in Controllers : h \in DOMAIN c) = WalletHandlers
  BY <1>1, <1>2
<1>. QED
  BY <1>2, <1>3 DEF Demand

\* The guards of the handlers that move money, for every caller: they let pass who has a
\* token, is neither locked, suspended nor deleted, and has a verified email; that leaves out every
\* inactive account, and asks for no permission.
THEOREM MoneyNeedsVerification ==
    ASSUME NEW h \in {"fundWallet", "convertCurrency", "trade"}, NEW caller,
           caller.known \in BOOLEAN, caller.verified \in BOOLEAN
    PROVE  Guards(caller, h) = 200 <=>
              caller.known /\ caller.verified /\ caller.status \notin Refused \cup {"inactive"}
<1>1. Demand(h) = Verified /\ Verified # Public
  BY MoneyDemands DEF Verified, Public
<1>2. PermissionsGuard(caller.held, h)
  BY <1>1 DEF PermissionsGuard
<1>3. EmailVerifiedGuard(caller.verified, h) <=> caller.verified
  BY <1>1 DEF EmailVerifiedGuard
<1>. QED
  BY <1>1, <1>2, <1>3 DEF Guards, ValidToken, Refused

=============================================================================
