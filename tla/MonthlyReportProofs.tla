------------------------- MODULE MonthlyReportProofs -------------------------
(***************************************************************************)
(* Reports, for every first month and every length.  The months of one     *)
(* follow each other, and a date that it loads lies in exactly one of      *)
(* them; its totals are those of the rows of each month; and two reports   *)
(* that overlap tell the same of the months they share.                    *)
(***************************************************************************)
EXTENDS MonthlyReport, FiniteSetTheorems, TLAPS

Dates == {d \in Int \X Int \X Int : IsDate(d)}

\* Months of any year, so that a window may reach beyond the last.
Pairs == Int \X (1..12)

LEMMA MonthsArePairs ==
  ASSUME NEW m \in Months
  PROVE  m \in Pairs /\ Absolute(m) \in Int
<1>1. m[1] \in 1..LastYear /\ m[2] \in 1..12 /\ m = <<m[1], m[2]>>
  BY DEF Months
<1>2. m[1] \in Int /\ m[2] \in Int
  BY <1>1
<1> QED
  BY <1>1, <1>2 DEF Pairs, Absolute

\* A date lies in its month, within the month's days.
LEMMA DateHasMonth ==
  ASSUME NEW d \in Dates
  PROVE  /\ MonthOf(d) \in Months
         /\ d[1] \in 1..LastYear /\ d[2] \in 1..12
         /\ d[3] \in 1..LastDay(MonthOf(d))
BY DEF Dates, IsDate, MonthOf, Months

\* _add_months counts: k months on, the number of months is k higher.
LEMMA AddMonthsCounts ==
  ASSUME NEW m \in Pairs, NEW k \in Nat
  PROVE  /\ AddMonths(m, k) \in Pairs
         /\ Absolute(AddMonths(m, k)) = Absolute(m) + k
<1> DEFINE a == Absolute(m) + k
<1>1. a \in Int
  BY DEF Absolute, Pairs
<1>2. /\ a = 12 * (a \div 12) + (a % 12)
       /\ a % 12 \in 0..11 /\ a \div 12 \in Int
  BY <1>1
<1>3. AddMonths(m, k) = <<a \div 12, (a % 12) + 1>>
  BY DEF AddMonths
<1> HIDE DEF a
<1>4. Absolute(AddMonths(m, k)) = a
  BY <1>1, <1>2, <1>3 DEF Absolute
<1> QED
  BY <1>1, <1>2, <1>3, <1>4 DEF a, Pairs

\* The number of a month tells it from every other.
LEMMA AbsoluteTellsMonths ==
  ASSUME NEW m \in Pairs, NEW o \in Pairs, Absolute(m) = Absolute(o)
  PROVE  m = o
<1>1. m[1] \in Int /\ m[2] \in 1..12 /\ o[1] \in Int /\ o[2] \in 1..12
  BY DEF Pairs
<1>2. 12 * (m[1] - o[1]) = o[2] - m[2]
  BY <1>1 DEF Absolute
<1>3. m[1] = o[1] /\ m[2] = o[2]
  BY <1>1, <1>2
<1> QED
  BY <1>3 DEF Pairs

\* A date comes after the first of a month if its own month does, and before
\* the last of a month if its own month does.
LEMMA DatesGoByMonths ==
  ASSUME NEW d \in Dates, NEW m \in Pairs
  PROVE  /\ OnOrBefore(FirstOf(m), d) <=> Absolute(m) <= Absolute(MonthOf(d))
         /\ OnOrBefore(d, LastOf(m)) <=> Absolute(MonthOf(d)) <= Absolute(m)
<1>1. /\ d[1] \in Int /\ d[2] \in 1..12 /\ d[3] \in Int /\ 1 <= d[3]
      /\ m[1] \in Int /\ m[2] \in 1..12
      /\ LastDay(m) \in Int
  <2>1. LastDay(m) \in {28, 29, 30, 31} /\ LastDay(MonthOf(d)) \in {28, 29, 30, 31}
    BY DEF LastDay
  <2>2. d[3] \in Int /\ 1 <= d[3]
    BY <2>1, DateHasMonth
  <2>3. d[1] \in Int /\ d[2] \in 1..12
    BY DateHasMonth
  <2>4. m[1] \in Int /\ m[2] \in 1..12
    BY DEF Pairs
  <2> QED
    BY <2>1, <2>2, <2>3, <2>4
<1>2. /\ Absolute(m) = 12 * m[1] + m[2] - 1
      /\ Absolute(MonthOf(d)) = 12 * d[1] + d[2] - 1
  BY DEF Absolute, MonthOf
<1>3. d[1] = m[1] /\ d[2] = m[2] => d[3] <= LastDay(m)
  <2>1. d[1] = m[1] /\ d[2] = m[2] => MonthOf(d) = m
    BY DEF MonthOf, Pairs
  <2> QED
    BY <1>1, <2>1, DateHasMonth
<1>4. /\ OnOrBefore(FirstOf(m), d)
           <=> m[1] < d[1] \/ (m[1] = d[1] /\ m[2] <= d[2])
      /\ OnOrBefore(d, LastOf(m))
           <=> d[1] < m[1] \/ (d[1] = m[1] /\ d[2] <= m[2])
  BY <1>1, <1>3 DEF OnOrBefore, FirstOf, LastOf
<1> QED
  BY <1>1, <1>2, <1>4

\* _load_report_transactions and the months of build_report agree: a date
\* is loaded if, and only if, it lies in one of the months, so that no row
\* is added to a month the report does not have, and none is missed.
THEOREM LoadedDatesHaveAMonth ==
  ASSUME NEW anchor \in Months, NEW n \in Nat \ {0}, NEW d \in Dates
  PROVE  InWindow(d, anchor, n)
           <=> \E k \in 1..n : Window(anchor, n)[k] = MonthOf(d)
<1> DEFINE first == Absolute(anchor)
           this  == Absolute(MonthOf(d))
<1>1. anchor \in Pairs /\ MonthOf(d) \in Pairs
  BY DateHasMonth, MonthsArePairs
<1>2. first \in Int /\ this \in Int
  BY <1>1 DEF Absolute, Pairs
<1>3. \A k \in 1..n : /\ Window(anchor, n)[k] \in Pairs
                      /\ Absolute(Window(anchor, n)[k]) = first + k - 1
  BY <1>1, <1>2, AddMonthsCounts DEF Window
<1>4. InWindow(d, anchor, n) <=> first <= this /\ this <= first + n - 1
  BY <1>1, <1>2, AddMonthsCounts, DatesGoByMonths DEF InWindow, Within
<1> HIDE DEF first, this
<1>5. ASSUME NEW k \in 1..n, Window(anchor, n)[k] = MonthOf(d)
      PROVE  first <= this /\ this <= first + n - 1
  BY <1>2, <1>3, <1>5 DEF this
<1>6. ASSUME first <= this, this <= first + n - 1
      PROVE  \E k \in 1..n : Window(anchor, n)[k] = MonthOf(d)
  <2>1. this - first + 1 \in 1..n
    BY <1>2, <1>6
  <2>2. Absolute(Window(anchor, n)[this - first + 1]) = Absolute(MonthOf(d))
    BY <1>2, <1>3, <2>1 DEF this
  <2> QED
    BY <1>1, <1>3, <2>1, <2>2, AbsoluteTellsMonths
<1> QED
  BY <1>4, <1>5, <1>6

\* No month comes twice, so no row is counted twice.
THEOREM WindowHasNoMonthTwice ==
  ASSUME NEW anchor \in Months, NEW n \in Nat, NEW j \in 1..n, NEW k \in 1..n,
         Window(anchor, n)[j] = Window(anchor, n)[k]
  PROVE  j = k
<1>1. anchor \in Pairs /\ Absolute(anchor) \in Int
  BY MonthsArePairs
<1>2. /\ Absolute(AddMonths(anchor, j - 1)) = Absolute(anchor) + (j - 1)
      /\ Absolute(AddMonths(anchor, k - 1)) = Absolute(anchor) + (k - 1)
  BY <1>1, AddMonthsCounts
<1> QED
  BY <1>1, <1>2 DEF Window

\* A window that begins a month later shows the same months from there on.
THEOREM WindowsShareTheirMonths ==
  ASSUME NEW anchor \in Months, NEW n \in Nat, NEW k \in 1..n
  PROVE  Window(AddMonths(anchor, 1), n)[k] = Window(anchor, n + 1)[k + 1]
<1> DEFINE next == AddMonths(anchor, 1)
<1>1. anchor \in Pairs /\ Absolute(anchor) \in Int
  BY MonthsArePairs
<1>2. next \in Pairs /\ Absolute(next) = Absolute(anchor) + 1
  BY <1>1, AddMonthsCounts
<1>3. /\ Window(next, n)[k] = AddMonths(next, k - 1)
      /\ Window(anchor, n + 1)[k + 1] = AddMonths(anchor, k)
  BY DEF Window
<1> HIDE DEF next
<1>4. Absolute(next) + (k - 1) = Absolute(anchor) + k
  BY <1>1, <1>2
<1> QED
  BY <1>3, <1>4 DEF AddMonths, next
(***************************************************************************)
(* The projection.                                                         *)
(***************************************************************************)

\* Of a set of numbers one is the least, which stands for induction here.
LEMMA LeastExists ==
  ASSUME NEW T \in SUBSET Nat, T # {}
  PROVE  \E m \in T : \A k \in T : m <= k
<1> DEFINE R == {ss \in Nat \X Nat : ss[1] < ss[2]}
<1>1. IsWellFoundedOn(R, Nat)
  BY NatLessThanWellFounded, Zenon DEF OpToRel
<1>2. \A k, m \in Nat : k < m => <<k, m>> \in R
  OBVIOUS
<1> HIDE DEF R
<1>3. PICK m \in T : \A k \in T : ~ (<<k, m>> \in R)
  BY <1>1, WFMin
<1>4. ASSUME NEW k \in T PROVE m <= k
  <2>1. ~ (k < m)
    BY <1>2, <1>3
  <2> QED
    BY <2>1
<1> QED
  BY <1>4

\* The wealth of month k, given that of the month before.
Grown(totals, known, rate, wealth, k) ==
  IF known[k] # NoValue THEN known[k]
  ELSE IF k = 1 THEN NoValue
  ELSE IF wealth[k - 1] = NoValue THEN NoValue
  ELSE RoundHalfUp(wealth[k - 1] * rate + 100 * Capacity(totals[k]), 100)

\* A projection of n months.
IsProjection(totals, known, rate, n, wealth) ==
  wealth = [k \in 1..n |-> Grown(totals, known, rate, wealth, k)]

\* However many months there are, a projection of them exists.
LEMMA ProjectionExists ==
  ASSUME NEW totals, NEW known, NEW rate, NEW n \in Nat
  PROVE  \E wealth : IsProjection(totals, known, rate, n, wealth)
<1> DEFINE Exists(m) == \E w : IsProjection(totals, known, rate, m, w)
           T == {m \in Nat : ~ Exists(m)}
<1>1. ASSUME T # {} PROVE FALSE
  <2>1. PICK m \in T : \A k \in T : m <= k
    <3> HIDE DEF T
    <3>1. T \subseteq Nat
      BY DEF T
    <3> QED
      BY <1>1, <3>1, LeastExists
  <2>2. Exists(0)
    <3>1. IsProjection(totals, known, rate, 0,
                       [k \in 1..0 |-> Grown(totals, known, rate, <<>>, k)])
      BY DEF IsProjection
    <3> QED
      BY <3>1
  <2>3. m \in Nat /\ m # 0 /\ ~ Exists(m)
    BY <2>1, <2>2
  <2>4. m - 1 \in Nat /\ ~ (m <= m - 1)
    BY <2>3
  <2>5. Exists(m - 1)
    BY <2>1, <2>4
  <2>6. PICK w : IsProjection(totals, known, rate, m - 1, w)
    BY <2>5
  <2> DEFINE v == [k \in 1..m |-> Grown(totals, known, rate, w, k)]
  <2>7. \A k \in 1..(m - 1) : v[k] = w[k]
    BY <2>3, <2>6 DEF IsProjection
  <2>8. \A k \in 1..m : Grown(totals, known, rate, v, k)
                          = Grown(totals, known, rate, w, k)
    <3> HIDE DEF v
    <3>1. \A k \in 1..m : k # 1 => k - 1 \in 1..(m - 1)
      BY <2>3
    <3> QED
      BY <2>7, <3>1 DEF Grown
  <2>9. IsProjection(totals, known, rate, m, v)
    BY <2>8 DEF IsProjection
  <2> QED
    BY <2>3, <2>9
<1> QED
  BY <1>1

\* projected_wealth is that projection.
LEMMA ProjectionGrows ==
  ASSUME NEW totals, NEW known, NEW rate, NEW n \in Nat, DOMAIN totals = 1..n
  PROVE  IsProjection(totals, known, rate, n, Projected(totals, known, rate))
<1> DEFINE IsIt(w) == w = [k \in DOMAIN totals |->
                             Grown(totals, known, rate, w, k)]
<1>1. Projected(totals, known, rate) = CHOOSE w : IsIt(w)
  BY Zenon DEF Projected, Grown
<1>2. \A w : IsIt(w) <=> IsProjection(totals, known, rate, n, w)
  BY DEF IsProjection
<1> HIDE DEF IsIt
<1>3. \E w : IsIt(w)
  BY <1>2, ProjectionExists
<1>4. IsIt(CHOOSE w : IsIt(w))
  BY <1>3
<1> QED
  BY <1>1, <1>2, <1>4

(***************************************************************************)
(* The report.                                                             *)
(***************************************************************************)

LEMMA ComputedIsSame ==
  ASSUME NEW n \in Nat, NEW s, s = [k \in 1..n |-> s[k]]
  PROVE  Computed(s) = s
<1>1. s \in Seq({s[k] : k \in 1..n})
  OBVIOUS
<1> QED
  BY <1>1 DEF Computed

\* Rows and checkpoints that a report may read.
AreReadRows(txs) ==
  \A t \in txs : t.posted_at \in Dates /\ t.is_draft \in BOOLEAN
AreDated(checkpoints) == \A c \in checkpoints : c.date \in Dates

Loaded(txs, anchor, n, currency, drafts) ==
  {t \in txs : IsLoaded(t, anchor, n, currency, drafts)}

InCurrency(checkpoints, currency) ==
  {c \in checkpoints : c.currency = currency}

Owned(checkpoints, anchor, n, currency) ==
  {c \in checkpoints : c.currency = currency /\ InWindow(c.date, anchor, n)}

TotalsOf(txs, anchor, n, currency, drafts) ==
  [k \in 1..n |-> Totals(Loaded(txs, anchor, n, currency, drafts),
                         Window(anchor, n)[k])]

KnownOf(checkpoints, anchor, n, currency) ==
  [k \in 1..n |-> LatestIn(Owned(checkpoints, anchor, n, currency),
                           Window(anchor, n)[k])]

\* The k-th month of a report.
LEMMA ReportShows ==
  ASSUME NEW txs, NEW checkpoints, NEW annual, NEW anchor \in Months,
         NEW n \in Nat, NEW currency, NEW drafts, NEW k \in 1..n
  PROVE  LET month  == Report(txs, checkpoints, annual, anchor, n, currency,
                              drafts)[k]
             totals == TotalsOf(txs, anchor, n, currency, drafts)
         IN /\ month.month    = Window(anchor, n)[k]
            /\ month.totals   = totals[k]
            /\ month.debtDrop = DebtDrops(totals, k)
            /\ month.wealth   =
                 Projected(totals, KnownOf(checkpoints, anchor, n, currency),
                           MonthlyRate[annual])[k]
<1> DEFINE window == Computed(Window(anchor, n))
           loaded == {t \in txs : IsLoaded(t, anchor, n, currency, drafts)}
           totals == Computed([j \in 1..n |-> Totals(loaded, window[j])])
           owned  == {c \in checkpoints : c.currency = currency
                                          /\ InWindow(c.date, anchor, n)}
           known  == Computed([j \in 1..n |-> LatestIn(owned, window[j])])
           grown  == Projected(totals, known, MonthlyRate[annual])
           wealth == Computed(grown)
           fallback == FallbackCeiling(totals)
           shown  == [j \in 1..n |->
                        [totals   |-> totals[j],
                         month    |-> window[j],
                         capacity |-> Capacity(totals[j]),
                         ceiling  |-> IF totals[j].income > 0
                                      THEN totals[j].income ELSE fallback,
                         wealth   |-> wealth[j],
                         debtDrop |-> DebtDrops(totals, j)]]
<1>1. AnchorMonth(anchor) = anchor
  BY NoValueAssumption, MonthsArePairs DEF AnchorMonth, Months
<1>2. window = Window(anchor, n)
  BY ComputedIsSame DEF Window
<1>3. totals = TotalsOf(txs, anchor, n, currency, drafts)
  <2> DEFINE s == [j \in 1..n |-> Totals(loaded, window[j])]
  <2>1. s = [j \in 1..n |-> s[j]]
    OBVIOUS
  <2>2. Computed(s) = s
    <3> HIDE DEF s
    <3> QED
      BY <2>1, ComputedIsSame
  <2> QED
    BY <2>2, <1>2 DEF TotalsOf, Loaded
<1>4. known = KnownOf(checkpoints, anchor, n, currency)
  <2> DEFINE s == [j \in 1..n |-> LatestIn(owned, window[j])]
  <2>1. s = [j \in 1..n |-> s[j]]
    OBVIOUS
  <2>2. Computed(s) = s
    <3> HIDE DEF s
    <3> QED
      BY <2>1, ComputedIsSame
  <2> QED
    BY <2>2, <1>2 DEF KnownOf, Owned
<1>5. DOMAIN totals = 1..n
  BY <1>3 DEF TotalsOf
<1>6. wealth = grown
  <2>1. grown = [j \in 1..n |-> grown[j]]
    <3> HIDE DEF totals, known
    <3>1. IsProjection(totals, known, MonthlyRate[annual], n, grown)
      BY <1>5, ProjectionGrows
    <3> HIDE DEF grown
    <3> QED
      BY <3>1 DEF IsProjection
  <2> HIDE DEF grown
  <2> QED
    BY <2>1, ComputedIsSame
<1>7. Report(txs, checkpoints, annual, anchor, n, currency, drafts)
        = Computed(shown)
  BY <1>1, Zenon DEF Report
<1>8. Computed(shown) = shown
  <2>1. shown = [j \in 1..n |-> shown[j]]
    OBVIOUS
  <2> HIDE DEF shown
  <2> QED
    BY <2>1, ComputedIsSame
<1> HIDE DEF window, totals, known, wealth, grown, fallback
<1>9. grown = Projected(totals, known, MonthlyRate[annual])
  BY DEF grown
<1> QED
  BY <1>2, <1>3, <1>4, <1>6, <1>7, <1>8, <1>9

(***************************************************************************)
(* What a report tells of a month does not depend on where it begins.      *)
(***************************************************************************)

\* The rows of a month and a bucket, whatever report shows it.
Due(txs, month, bucket, currency, drafts) ==
  {t \in txs : /\ MonthOf(t.posted_at) = month
               /\ t.report_bucket = bucket
               /\ t.currency = currency
               /\ t.reverted_at = NoValue
               /\ drafts \/ ~ t.is_draft}

Sum(txs, bucket) ==
  MapThenSumSet(LAMBDA t : IF bucket = "income" THEN t.amount
                                                ELSE AbsValue(t.amount), txs)

\* No row of a month of the report fails to be loaded.
LEMMA TotalIsDue ==
  ASSUME NEW txs, AreReadRows(txs),
         NEW anchor \in Months, NEW n \in Nat, NEW k \in 1..n,
         NEW currency, NEW drafts, NEW bucket \in Reported
  PROVE  Total(Loaded(txs, anchor, n, currency, drafts), Window(anchor, n)[k],
               bucket)
           = Sum(Due(txs, Window(anchor, n)[k], bucket, currency, drafts),
                 bucket)
<1> DEFINE month  == Window(anchor, n)[k]
           loaded == Loaded(txs, anchor, n, currency, drafts)
           mine   == {t \in loaded : /\ MonthOf(t.posted_at) = month
                                     /\ t.report_bucket = bucket}
<1>1. n \in Nat \ {0}
  OBVIOUS
<1>2. ASSUME NEW t \in txs, MonthOf(t.posted_at) = month
      PROVE  InWindow(t.posted_at, anchor, n)
  <2>1. t.posted_at \in Dates
    BY DEF AreReadRows
  <2>2. InWindow(t.posted_at, anchor, n)
          <=> \E j \in 1..n : Window(anchor, n)[j] = MonthOf(t.posted_at)
    BY <1>1, <2>1, LoadedDatesHaveAMonth
  <2> QED
    BY <1>2, <2>2
<1> HIDE DEF month
<1>3. mine = Due(txs, month, bucket, currency, drafts)
  BY <1>2 DEF Due, Loaded, IsLoaded
<1>4. Total(loaded, month, bucket) = Sum(mine, bucket)
  BY Zenon DEF Total, Sum
<1> QED
  BY <1>3, <1>4 DEF month

\* The latest of the checkpoints of one month.
LatestOf(inMonth) ==
  IF inMonth = {} THEN NoValue
  ELSE (CHOOSE c \in inMonth :
          \A o \in inMonth : OnOrBefore(o.date, c.date)).amount

\* The checkpoint that stands for a month.
LEMMA LatestIsOfMonth ==
  ASSUME NEW checkpoints, AreDated(checkpoints),
         NEW anchor \in Months, NEW n \in Nat, NEW k \in 1..n, NEW currency
  PROVE  LatestIn(Owned(checkpoints, anchor, n, currency), Window(anchor, n)[k])
           = LatestIn(InCurrency(checkpoints, currency),
                      Window(anchor, n)[k])
<1> DEFINE month == Window(anchor, n)[k]
           owned == Owned(checkpoints, anchor, n, currency)
           all   == InCurrency(checkpoints, currency)
<1>1. n \in Nat \ {0}
  OBVIOUS
<1>2. ASSUME NEW c \in checkpoints, MonthOf(c.date) = month
      PROVE  InWindow(c.date, anchor, n)
  <2>1. InWindow(c.date, anchor, n)
          <=> \E j \in 1..n : Window(anchor, n)[j] = MonthOf(c.date)
    BY <1>1, LoadedDatesHaveAMonth DEF AreDated
  <2> QED
    BY <1>2, <2>1
<1> HIDE DEF month
<1>3. {c \in owned : MonthOf(c.date) = month}
        = {c \in all : MonthOf(c.date) = month}
  BY <1>2 DEF Owned, InCurrency
<1> HIDE DEF owned, all, month
<1>4. \A s : LatestIn(s, month) = LatestOf({c \in s : MonthOf(c.date) = month})
  BY Zenon DEF LatestIn, LatestOf
<1> QED
  BY <1>3, <1>4 DEF owned, all, month

\* A projection that begins a month later knows no more, and where it knows
\* something it knows the same.
LEMMA ProjectionsAgree ==
  ASSUME NEW n \in Nat, NEW rate, NEW known, NEW later, NEW totals, NEW totals2,
         DOMAIN totals = 1..n, DOMAIN totals2 = 1..n,
         \A k \in 1..(n - 1) : /\ known[k + 1] = later[k]
                               /\ totals[k + 1] = totals2[k],
         NEW k \in 1..(n - 1),
         Projected(totals2, later, rate)[k] # NoValue
  PROVE  Projected(totals, known, rate)[k + 1] = Projected(totals2, later, rate)[k]
<1> DEFINE w == Projected(totals, known, rate)
           v == Projected(totals2, later, rate)
           T == {j \in 1..(n - 1) : v[j] # NoValue /\ w[j + 1] # v[j]}
<1>1. /\ \A j \in 1..n : w[j] = Grown(totals, known, rate, w, j)
      /\ \A j \in 1..n : v[j] = Grown(totals2, later, rate, v, j)
  <2>1. /\ IsProjection(totals, known, rate, n, w)
        /\ IsProjection(totals2, later, rate, n, v)
    BY ProjectionGrows
  <2> HIDE DEF w, v
  <2>2. /\ w = [j \in 1..n |-> Grown(totals, known, rate, w, j)]
        /\ v = [j \in 1..n |-> Grown(totals2, later, rate, v, j)]
    BY <2>1, Zenon DEF IsProjection
  <2> QED
    BY <2>2
<1> HIDE DEF w, v
<1>2. ASSUME T # {} PROVE FALSE
  <2>1. PICK m \in T : \A j \in T : m <= j
    <3>1. T \subseteq Nat
      OBVIOUS
    <3> HIDE DEF T
    <3> QED
      BY <1>2, <3>1, LeastExists
  <2>2. /\ m \in 1..(n - 1) /\ m + 1 \in 1..n /\ m \in 1..n /\ m + 1 # 1
        /\ v[m] # NoValue /\ w[m + 1] # v[m]
        /\ known[m + 1] = later[m] /\ totals[m + 1] = totals2[m]
    BY <2>1
  <2>3. v[m] = Grown(totals2, later, rate, v, m)
    BY <1>1, <2>2
  <2>4. w[m + 1] = Grown(totals, known, rate, w, m + 1)
    BY <1>1, <2>2
  <2>5. later[m] = NoValue /\ m # 1
    BY <2>2, <2>3, <2>4 DEF Grown
  <2>6. /\ v[m - 1] # NoValue
        /\ v[m] = RoundHalfUp(v[m - 1] * rate + 100 * Capacity(totals2[m]), 100)
    BY <2>2, <2>3, <2>5 DEF Grown
  <2>7. m - 1 \in 1..(n - 1) /\ ~ (m <= m - 1) /\ (m - 1) + 1 = m
    BY <2>2, <2>5
  <2>8. w[m] = v[m - 1]
    BY <2>1, <2>6, <2>7
  <2>9. (m + 1) - 1 = m
    BY <2>2
  <2>10. w[m + 1] = RoundHalfUp(w[m] * rate + 100 * Capacity(totals[m + 1]), 100)
    BY <2>2, <2>4, <2>5, <2>6, <2>8, <2>9 DEF Grown
  <2> QED
    BY <2>2, <2>6, <2>8, <2>10
<1>3. v[k] # NoValue
  BY DEF v
<1>4. w[k + 1] = v[k]
  BY <1>2, <1>3
<1> QED
  BY <1>4 DEF w, v

\* Two reports of n months, the second from a month later: the months they
\* share have the same totals, the same debt drop once both know the month
\* before, and the same wealth once the second knows a checkpoint
\* (monthly_capacity_report.py:40-131).
THEOREM OverlappingReportsAgree ==
  ASSUME NEW txs, AreReadRows(txs),
         NEW checkpoints, AreDated(checkpoints),
         NEW annual, NEW currency, NEW drafts, NEW n \in Nat,
         NEW anchor \in Months, AddMonths(anchor, 1) \in Months,
         NEW k \in 1..(n - 1)
  PROVE  LET early == Report(txs, checkpoints, annual, anchor, n, currency,
                             drafts)
             late  == Report(txs, checkpoints, annual, AddMonths(anchor, 1), n,
                             currency, drafts)
         IN /\ early[k + 1].month = late[k].month
            /\ early[k + 1].totals = late[k].totals
            /\ k > 1 => early[k + 1].debtDrop = late[k].debtDrop
            /\ late[k].wealth # NoValue => early[k + 1].wealth = late[k].wealth
<1> DEFINE next  == AddMonths(anchor, 1)
           early == Report(txs, checkpoints, annual, anchor, n, currency, drafts)
           late  == Report(txs, checkpoints, annual, next, n, currency, drafts)
           te == TotalsOf(txs, anchor, n, currency, drafts)
           tl == TotalsOf(txs, next, n, currency, drafts)
           ke == KnownOf(checkpoints, anchor, n, currency)
           kl == KnownOf(checkpoints, next, n, currency)
<1>1. /\ k \in 1..n /\ k + 1 \in 1..n
      /\ \A j \in 1..(n - 1) : j \in 1..n /\ j + 1 \in 1..n
  OBVIOUS
<1>2. \A j \in 1..(n - 1) : Window(anchor, n)[j + 1] = Window(next, n)[j]
  <2> TAKE j \in 1..(n - 1)
  <2>1. Window(next, n)[j] = Window(anchor, n + 1)[j + 1]
    BY <1>1, WindowsShareTheirMonths
  <2> QED
    BY <1>1, <2>1 DEF Window
<1>3. \A j \in 1..(n - 1) : te[j + 1] = tl[j]
  <2> TAKE j \in 1..(n - 1)
  <2> DEFINE month == Window(next, n)[j]
  <2>0. next \in Months /\ j \in 1..n /\ j + 1 \in 1..n
    BY <1>1
  <2>1. ASSUME NEW bucket \in Reported
        PROVE  Total(Loaded(txs, anchor, n, currency, drafts), month, bucket)
                 = Total(Loaded(txs, next, n, currency, drafts), month, bucket)
    <3> HIDE DEF next
    <3>1. Total(Loaded(txs, next, n, currency, drafts), Window(next, n)[j],
                bucket)
            = Sum(Due(txs, Window(next, n)[j], bucket, currency, drafts), bucket)
      BY <2>0, TotalIsDue
    <3>2. Total(Loaded(txs, anchor, n, currency, drafts),
                Window(anchor, n)[j + 1], bucket)
            = Sum(Due(txs, Window(anchor, n)[j + 1], bucket, currency, drafts),
                  bucket)
      BY <2>0, TotalIsDue
    <3> QED
      BY <1>2, <3>1, <3>2
  <2>2. Totals(Loaded(txs, anchor, n, currency, drafts), month)
          = Totals(Loaded(txs, next, n, currency, drafts), month)
    <3> HIDE DEF month
    <3> QED
      BY <2>1 DEF Totals, Reported, CostBuckets
  <2> QED
    BY <1>1, <1>2, <2>2 DEF TotalsOf
<1>4. \A j \in 1..(n - 1) : ke[j + 1] = kl[j]
  <2> TAKE j \in 1..(n - 1)
  <2>1. /\ ke[j + 1] = LatestIn(Owned(checkpoints, anchor, n, currency),
                                Window(anchor, n)[j + 1])
        /\ kl[j] = LatestIn(Owned(checkpoints, next, n, currency),
                            Window(next, n)[j])
    BY <1>1 DEF KnownOf
  <2>2. next \in Months /\ j \in 1..n /\ j + 1 \in 1..n
    BY <1>1
  <2> HIDE DEF next, ke, kl
  <2>3. LatestIn(Owned(checkpoints, anchor, n, currency),
                 Window(anchor, n)[j + 1])
          = LatestIn(InCurrency(checkpoints, currency),
                     Window(anchor, n)[j + 1])
    BY <2>2, LatestIsOfMonth
  <2>4. LatestIn(Owned(checkpoints, next, n, currency), Window(next, n)[j])
          = LatestIn(InCurrency(checkpoints, currency),
                     Window(next, n)[j])
    BY <2>2, LatestIsOfMonth
  <2> QED
    BY <1>2, <2>1, <2>3, <2>4
<1>5. /\ DOMAIN te = 1..n /\ DOMAIN tl = 1..n
  BY DEF TotalsOf
<1>6. /\ early[k + 1].month = Window(anchor, n)[k + 1]
      /\ early[k + 1].totals = te[k + 1]
      /\ early[k + 1].debtDrop = DebtDrops(te, k + 1)
      /\ early[k + 1].wealth = Projected(te, ke, MonthlyRate[annual])[k + 1]
  BY <1>1, ReportShows
<1>7. /\ late[k].month = Window(next, n)[k]
      /\ late[k].totals = tl[k]
      /\ late[k].debtDrop = DebtDrops(tl, k)
      /\ late[k].wealth = Projected(tl, kl, MonthlyRate[annual])[k]
  BY <1>1, ReportShows
<1> HIDE DEF early, late, te, tl, ke, kl
<1>8. early[k + 1].month = late[k].month /\ early[k + 1].totals = late[k].totals
  BY <1>2, <1>3, <1>6, <1>7
<1>9. k > 1 => early[k + 1].debtDrop = late[k].debtDrop
  <2>1. k > 1 => k - 1 \in 1..(n - 1) /\ (k - 1) + 1 = k /\ (k + 1) - 1 = k
    OBVIOUS
  <2>2. k > 1 => te[k] = tl[k - 1]
    BY <1>3, <2>1
  <2> QED
    BY <1>3, <1>6, <1>7, <2>1, <2>2 DEF DebtDrops
<1>10. late[k].wealth # NoValue => early[k + 1].wealth = late[k].wealth
  BY <1>3, <1>4, <1>5, <1>6, <1>7, ProjectionsAgree
<1> QED
  BY <1>8, <1>9, <1>10 DEF early, late
===============================================================================
