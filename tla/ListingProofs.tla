----------------------------- MODULE ListingProofs -----------------------------
(***************************************************************************)
(* A client that has followed next_page to the end has missed no row.      *)
(***************************************************************************)
EXTENDS Listing, FiniteSetTheorems, TLAPS

\* A row inserted at k: a list again, one longer, without repetitions; a row that was
\* there is at its place, or one behind it.
LEMMA Insertion ==
    ASSUME NEW list \in Seq(Rows), Distinct(list), NEW k \in 1 .. Len(list) + 1,
           NEW r \in Rows, r \notin Elements(list)
    PROVE  /\ With(list, k, r) \in Seq(Rows)
           /\ Len(With(list, k, r)) = Len(list) + 1
           /\ Distinct(With(list, k, r))
           /\ Elements(list) \subseteq Elements(With(list, k, r))
           /\ \A j \in 1 .. Len(list) + 1 :
                 With(list, k, r)[j] = r
                 \/ \E i \in 1 .. Len(list) : i <= j /\ With(list, k, r)[j] = list[i]
<1> DEFINE new == With(list, k, r)
<1>1. /\ Len(list) \in Nat
      /\ \A i \in 1 .. Len(list) : list[i] \in Rows /\ list[i] # r
    BY DEF Elements
<1>2. new \in [1 .. Len(list) + 1 -> Rows]
    BY <1>1 DEF With
<1>3. new \in Seq(Rows) /\ Len(new) = Len(list) + 1
    BY <1>1, <1>2
<1>4. \A j \in 1 .. Len(list) + 1 :
         new[j] = IF j < k THEN list[j] ELSE IF j = k THEN r ELSE list[j - 1]
    BY DEF With
<1>5. Distinct(new)
    <2> SUFFICES ASSUME NEW i \in 1 .. Len(list) + 1, NEW j \in 1 .. Len(list) + 1, new[i] = new[j]
                 PROVE  i = j
        BY <1>3 DEF Distinct
    <2>1. CASE i = k \/ j = k
        BY <1>1, <1>4, <2>1
    <2>2. CASE i # k /\ j # k
        BY <1>1, <1>4, <2>2 DEF Distinct
    <2> QED BY <2>1, <2>2
<1>6. Elements(list) \subseteq Elements(new)
    <2> SUFFICES ASSUME NEW i \in 1 .. Len(list)
                 PROVE  \E j \in 1 .. Len(list) + 1 : new[j] = list[i]
        BY <1>3 DEF Elements
    <2>1. CASE i < k
        BY <1>1, <1>4, <2>1
    <2>2. CASE k <= i
        <3>1. i + 1 \in 1 .. Len(list) + 1 /\ ~(i + 1 < k) /\ i + 1 # k /\ (i + 1) - 1 = i
            BY <1>1, <2>2
        <3> QED BY <1>4, <3>1
    <2> QED BY <1>1, <2>1, <2>2
<1>7. \A j \in 1 .. Len(list) + 1 :
         new[j] = r \/ \E i \in 1 .. Len(list) : i <= j /\ new[j] = list[i]
    <2> SUFFICES ASSUME NEW j \in 1 .. Len(list) + 1, new[j] # r
                 PROVE  \E i \in 1 .. Len(list) : i <= j /\ new[j] = list[i]
        OBVIOUS
    <2>1. CASE j < k
        BY <1>1, <1>4, <2>1
    <2>2. CASE k < j
        <3>1. j - 1 \in 1 .. Len(list) /\ j - 1 <= j /\ ~(j < k) /\ j # k
            BY <1>1, <2>2
        <3> QED BY <1>4, <3>1
    <2> QED BY <1>1, <1>4, <2>1, <2>2
<1> QED BY <1>3, <1>5, <1>6, <1>7

\* Two neighbours change places.
LEMMA Exchange ==
    ASSUME NEW list \in Seq(Rows), Distinct(list), NEW k \in 1 .. Len(list) - 1,
           NEW new, new = [list EXCEPT ![k] = list[k + 1], ![k + 1] = list[k]]
    PROVE  /\ new \in Seq(Rows) /\ Len(new) = Len(list) /\ Distinct(new)
           /\ Elements(new) = Elements(list)
           /\ \A j \in 1 .. Len(list) : j \in {k, k + 1} \/ new[j] = list[j]
           /\ new[k] = list[k + 1] /\ new[k + 1] = list[k]
<1>1. /\ Len(list) \in Nat
      /\ list \in [1 .. Len(list) -> Rows]
      /\ k \in 1 .. Len(list) /\ k + 1 \in 1 .. Len(list) /\ k # k + 1
    OBVIOUS
<1>2. /\ new \in [1 .. Len(list) -> Rows]
      /\ \A j \in 1 .. Len(list) :
            new[j] = IF j = k + 1 THEN list[k] ELSE IF j = k THEN list[k + 1] ELSE list[j]
    BY <1>1
<1>3. new \in Seq(Rows) /\ Len(new) = Len(list)
    BY <1>1, <1>2
<1>4. Distinct(new)
    BY <1>1, <1>2, <1>3 DEF Distinct
<1>5. Elements(new) = Elements(list)
    <2>1. Elements(new) \subseteq Elements(list)
        BY <1>1, <1>2, <1>3 DEF Elements
    <2>2. ASSUME NEW j \in 1 .. Len(list)
          PROVE  list[j] \in Elements(new)
        <3>1. CASE j = k
            BY <1>1, <1>2, <1>3, <3>1 DEF Elements
        <3>2. CASE j = k + 1
            BY <1>1, <1>2, <1>3, <3>2 DEF Elements
        <3>3. CASE j # k /\ j # k + 1
            BY <1>1, <1>2, <1>3, <3>3 DEF Elements
        <3> QED BY <3>1, <3>2, <3>3
    <2> QED BY <2>1, <2>2 DEF Elements
<1> QED BY <1>1, <1>2, <1>3, <1>4, <1>5

-----------------------------------------------------------------------------

\* The rows of a list are its rows up to a page boundary and those beyond.
LEMMA PageBounds ==
    ASSUME NEW p \in Nat \ {0}
    PROVE  (p - 1) * Limit \in Nat /\ p * Limit \in Nat /\ p * Limit = (p - 1) * Limit + Limit
<1>1. Limit \in Nat
    BY LimitAssumption
<1>2. \E q \in Nat : p = q + 1 /\ p - 1 = q
    <2>1. p - 1 \in Nat /\ p = (p - 1) + 1
        OBVIOUS
    <2> QED BY <2>1
<1>3. PICK q \in Nat : p = q + 1 /\ p - 1 = q
    BY <1>2
<1>4. q * Limit \in Nat /\ (q + 1) * Limit = q * Limit + Limit
    BY <1>1, SMT
<1>5. (q + 1) * Limit \in Nat
    BY <1>1, <1>4
<1> QED BY <1>3, <1>4, <1>5

\* A page is followed by another, according to paginateResult, exactly when there is a
\* row on the next one.
THEOREM NextPageHasRows ==
    ASSUME NEW list \in Seq(Rows), NEW p \in Nat \ {0}
    PROVE  /\ paginateResult(Len(list), p, Limit).next_page \in {None, p + 1}
           /\ paginateResult(Len(list), p, Limit).next_page = None <=> Page(list, p + 1) = {}
<1> DEFINE next == paginateResult(Len(list), p, Limit).next_page
<1>1. next = IF Len(list) > p * Limit THEN p + 1 ELSE None
    BY DEF paginateResult
<1>2. Len(list) \in Nat /\ Limit \in Nat \ {0} /\ (p + 1) - 1 = p /\ p + 1 \in Nat \ {0}
    BY LimitAssumption
<1>3. p * Limit \in Nat /\ (p + 1) * Limit = p * Limit + Limit
    BY <1>2, PageBounds
<1>4. CASE Len(list) > p * Limit
    <2>1. next = p + 1 /\ next # None
        BY <1>1, <1>2, <1>4, NoneAssumption
    <2>2. p * Limit + 1 \in 1 .. Len(list) /\ p * Limit + 1 <= p * Limit + Limit
        BY <1>2, <1>3, <1>4
    <2>3. list[p * Limit + 1] \in Page(list, p + 1)
        BY <1>2, <1>3, <2>2 DEF Page
    <2> QED BY <2>1, <2>3
<1>5. CASE ~(Len(list) > p * Limit)
    <2>1. next = None
        BY <1>1, <1>5
    <2>2. ASSUME NEW k \in 1 .. Len(list), p * Limit < k
          PROVE  FALSE
        BY <1>2, <1>3, <1>5, <2>2
    <2>3. Page(list, p + 1) = {}
        BY <1>2, <2>2 DEF Page
    <2> QED BY <2>1, <2>3
<1> QED BY <1>4, <1>5

\* The count of a pagination is the number of places on the page: the test whether the
\* page is out of range, which divides, and the difference, which multiplies, agree.
THEOREM CountIsPageSize ==
    ASSUME NEW total \in Nat, NEW p \in Nat \ {0}
    PROVE  paginateResult(total, p, Limit).count
             = Cardinality({k \in 1 .. total : (p - 1) * Limit < k /\ k <= p * Limit})
<1> DEFINE skip   == (p - 1) * Limit
           pages  == Ceiling(total, Limit)
           last   == IF total < skip + Limit THEN total ELSE skip + Limit
           places == {k \in 1 .. total : skip < k /\ k <= p * Limit}
<1>1. /\ skip \in Nat /\ p * Limit = skip + Limit /\ Limit \in Nat \ {0}
    BY LimitAssumption, PageBounds
<1>2. pages \in Int /\ pages * Limit < total + Limit /\ total <= pages * Limit
    <2>1. total + Limit - 1 \in Nat
        BY <1>1
    <2> QED BY <1>1, <2>1, SMT DEF Ceiling
<1>3. p > pages <=> total <= skip
    <2>1. p > pages => total <= skip
        <3>1. p > pages => p - 1 >= pages
            BY <1>2
        <3>2. \A q \in Int : q >= pages => q * Limit >= pages * Limit
            BY <1>1, <1>2, SMT
        <3> QED BY <1>1, <1>2, <3>1, <3>2
    <2>2. p <= pages => skip < total
        <3>1. p <= pages => p * Limit <= pages * Limit
            BY <1>1, <1>2, SMT
        <3> QED BY <1>1, <1>2, <3>1
    <2> QED BY <1>1, <1>2, <2>1, <2>2
<1>4. places = skip + 1 .. last
    BY <1>1
<1>5. Cardinality(places) = IF skip + 1 > last THEN 0 ELSE last - (skip + 1) + 1
    <2>1. skip + 1 \in Int /\ last \in Int
        BY <1>1
    <2>2. Cardinality(skip + 1 .. last) = IF skip + 1 > last THEN 0 ELSE last - (skip + 1) + 1
        <3> HIDE DEF skip, last
        <3> QED BY <2>1, FS_Interval, Zenon
    <2> QED BY <1>4, <2>2, Zenon
<1>6. paginateResult(total, p, Limit).count
        = IF p > pages THEN 0 ELSE IF total - skip < Limit THEN total - skip ELSE Limit
    BY DEF paginateResult
<1> HIDE DEF skip, pages
<1> QED BY <1>1, <1>3, <1>5, <1>6

\* The type invariant: what was there at the beginning is still there.
LEMMA InitTyped == Init => TypeOK /\ StillToCome
BY DEF Init, TypeOK, StillToCome

LEMMA StepTyped == TypeOK /\ [Next]_vars => TypeOK'
<1> SUFFICES ASSUME TypeOK, [Next]_vars
             PROVE  TypeOK'
    OBVIOUS
<1> USE DEF TypeOK
<1>1. ASSUME NEW r \in Rows, NEW k \in 1 .. Len(rows) + 1, Insert(r, k)
      PROVE  TypeOK'
    <2>1. rows' = With(rows, k, r) /\ r \notin Elements(rows) /\ UNCHANGED client
        BY <1>1 DEF Insert, Present
    <2>2. rows' \in Seq(Rows) /\ Distinct(rows') /\ Elements(rows) \subseteq Elements(rows')
        BY <2>1, Insertion
    <2> QED BY <2>1, <2>2 DEF client, Present
<1>2. ASSUME NEW k \in 1 .. Len(rows) - 1, Reorder(k)
      PROVE  TypeOK'
    <2>1. rows' \in Seq(Rows) /\ Distinct(rows') /\ Elements(rows') = Elements(rows)
        BY <1>2, Exchange DEF Reorder
    <2> QED BY <1>2, <2>1 DEF Reorder, client, Present
<1>3. CASE Ask
    BY <1>3 DEF Ask, Present
<1>4. CASE ReadRows
    <2>1. Page(rows, page) \subseteq Rows
        BY DEF Page
    <2> QED BY <1>4, <2>1 DEF ReadRows, Present
<1>5. CASE CountRows
    <2>1. page' \in Nat \ {0} /\ pc' \in {"done", "rows"}
        BY <1>5, NextPageHasRows DEF CountRows
    <2> QED BY <1>5, <2>1 DEF CountRows, Present
<1>6. CASE UNCHANGED vars
    BY <1>6 DEF vars, client, Present
<1> QED BY <1>1, <1>2, <1>3, <1>4, <1>5, <1>6 DEF Next

-----------------------------------------------------------------------------

\* Where the rows of a page have been read, those still to come are behind them.
LEMMA StepStillToCome == TypeOK /\ StillToCome /\ [Next]_vars => StillToCome'
<1> SUFFICES ASSUME TypeOK, StillToCome, [Next]_vars
             PROVE  StillToCome'
    OBVIOUS
<1> DEFINE read == CASE pc = "rows" -> (page - 1) * Limit
                     [] pc = "count" -> page * Limit
                     [] OTHER -> 0
<1>0. /\ (page - 1) * Limit \in Nat /\ page * Limit \in Nat
      /\ page * Limit = (page - 1) * Limit + Limit
      /\ read \in Nat /\ Len(rows) \in Nat
    <2>1. (page - 1) * Limit \in Nat /\ page * Limit \in Nat
          /\ page * Limit = (page - 1) * Limit + Limit
        BY PageBounds DEF TypeOK
    <2> QED BY <2>1 DEF TypeOK
<1>1. \A k \in 1 .. Len(rows) :
         rows[k] \in (first \ Tied) \ seen => pc # "done" /\ k > read
    BY DEF StillToCome
<1>2. ASSUME NEW r \in Rows, NEW k \in 1 .. Len(rows) + 1, Insert(r, k)
      PROVE  StillToCome'
    <2>1. rows' = With(rows, k, r) /\ r \notin Elements(rows) /\ UNCHANGED client
        BY <1>2 DEF Insert, Present
    <2>2. r \notin first
        BY <2>1 DEF TypeOK, Present
    <2>3. /\ Len(rows') = Len(rows) + 1
          /\ \A j \in 1 .. Len(rows) + 1 :
                rows'[j] = r \/ \E i \in 1 .. Len(rows) : i <= j /\ rows'[j] = rows[i]
        BY <2>1, Insertion DEF TypeOK
    <2>4. ASSUME NEW j \in 1 .. Len(rows'), rows'[j] \in (first \ Tied) \ seen
          PROVE  pc # "done" /\ j > read
        <3>1. PICK i \in 1 .. Len(rows) : i <= j /\ rows'[j] = rows[i]
            BY <2>2, <2>3, <2>4
        <3>2. pc # "done" /\ i > read
            BY <1>1, <2>4, <3>1
        <3> QED BY <1>0, <2>3, <3>1, <3>2
    <2>5. pc' = pc /\ page' = page /\ seen' = seen /\ first' = first
        BY <2>1 DEF client
    <2> QED BY <2>4, <2>5 DEF StillToCome
<1>3. ASSUME NEW k \in 1 .. Len(rows) - 1, Reorder(k)
      PROVE  StillToCome'
    <2>1. /\ Len(rows') = Len(rows)
          /\ \A j \in 1 .. Len(rows) : j \in {k, k + 1} \/ rows'[j] = rows[j]
          /\ rows'[k] = rows[k + 1] /\ rows'[k + 1] = rows[k]
        BY <1>3, Exchange DEF Reorder, TypeOK
    <2>2. rows[k] \in Tied /\ rows[k + 1] \in Tied /\ UNCHANGED client
        BY <1>3 DEF Reorder
    <2>3. ASSUME NEW j \in 1 .. Len(rows'), rows'[j] \in (first \ Tied) \ seen
          PROVE  pc # "done" /\ j > read
        <3>1. rows'[j] = rows[j]
            BY <2>1, <2>2, <2>3
        <3> QED BY <1>1, <2>1, <2>3, <3>1
    <2>4. pc' = pc /\ page' = page /\ seen' = seen /\ first' = first
        BY <2>2 DEF client
    <2> QED BY <2>3, <2>4 DEF StillToCome
<1>4. CASE Ask
    <2>1. pc' = "rows" /\ page' = 1 /\ rows' = rows
        BY <1>4 DEF Ask, TypeOK
    <2>2. (page' - 1) * Limit = 0
        <3>1. page' - 1 = 0 /\ Limit \in Nat
            BY <2>1, LimitAssumption
        <3> QED BY <3>1
    <2> QED BY <2>1, <2>2 DEF StillToCome
<1>5. CASE ReadRows
    <2>1. /\ pc = "rows" /\ pc' = "count" /\ page' = page /\ rows' = rows /\ first' = first
          /\ seen' = seen \cup Page(rows, page)
        BY <1>5 DEF ReadRows
    <2>2. ASSUME NEW k \in 1 .. Len(rows), rows[k] \in (first \ Tied) \ seen'
          PROVE  k > page * Limit
        <3>1. k > (page - 1) * Limit
            BY <1>1, <2>1, <2>2
        <3>2. ~(k <= page * Limit)
            BY <2>1, <2>2, <3>1 DEF Page
        <3> QED BY <1>0, <3>2
    <2> QED BY <2>1, <2>2 DEF StillToCome
<1>6. CASE CountRows
    <2> DEFINE next == paginateResult(Len(rows), page, Limit).next_page
    <2>1. /\ pc = "count" /\ rows' = rows /\ first' = first /\ seen' = seen
          /\ IF next = None THEN pc' = "done" /\ page' = page ELSE pc' = "rows" /\ page' = next
        BY <1>6 DEF CountRows
    <2>2. \A k \in 1 .. Len(rows) : rows[k] \in (first \ Tied) \ seen => k > page * Limit
        BY <1>1, <2>1
    <2>3. CASE Len(rows) > page * Limit
        <3>1. next = page + 1 /\ next # None /\ (page + 1) - 1 = page
            BY <2>3, NoneAssumption DEF paginateResult, TypeOK
        <3>2. pc' = "rows" /\ page' = page + 1 /\ page' - 1 = page
            BY <2>1, <3>1
        <3> QED BY <2>1, <2>2, <3>2 DEF StillToCome
    <2>4. CASE ~(Len(rows) > page * Limit)
        <3>1. \A k \in 1 .. Len(rows) : rows[k] \notin (first \ Tied) \ seen
            BY <1>0, <2>2, <2>4
        <3>2. pc' \in {"done", "rows"}
            BY <2>1
        <3> QED BY <2>1, <3>1 DEF StillToCome
    <2> QED BY <2>3, <2>4
<1>7. CASE UNCHANGED vars
    BY <1>7 DEF vars, client, StillToCome
<1> QED BY <1>2, <1>3, <1>4, <1>5, <1>6, <1>7 DEF Next

LEMMA Invariant == Spec => [](TypeOK /\ StillToCome)
<1>1. TypeOK /\ StillToCome /\ [Next]_vars => (TypeOK /\ StillToCome)'
    BY StepTyped, StepStillToCome
<1> QED BY InitTyped, <1>1, PTL DEF Spec

\* The list stays one without repetitions, and nothing that was there at the first page
\* leaves it.
THEOREM ListingTyped == Spec => []TypeOK
BY Invariant, PTL

\* paginateResult and the two queries of a page: whoever follows next_page to the end has
\* got every row there was at the beginning, for any limit and whatever is inserted.
THEOREM ListingComplete == Spec => []EveryRowSeen
<1>1. TypeOK /\ StillToCome => EveryRowSeen
    BY DEF TypeOK, StillToCome, EveryRowSeen, Present, Elements
<1> QED BY Invariant, <1>1, PTL

=============================================================================
