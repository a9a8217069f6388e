---------------------------- MODULE MonthlyReport ----------------------------
(***************************************************************************)
(* MonthlyCapacityReportService.build_report                               *)
(* (app/services/monthly_capacity_report.py) as a function of what it      *)
(* reads: transactions, wealth checkpoints and the projection settings.    *)
(* Money is counted in cents.                                              *)
(***************************************************************************)
EXTENDS TransactionReview

CONSTANT MonthlyRate   \* per yearly multiplier, the monthly one in percent

MaxMonths   == 120
CostBuckets == {"living_cost", "fixed_cost", "debt_installment"}
Reported    == {"income"} \cup CostBuckets

\* The same sequence; TLC computes its elements once.
Computed(seq) == seq \o <<>>

AbsValue(n) == IF n < 0 THEN -n ELSE n

\* Decimal.quantize with ROUND_HALF_UP of n / q: ties go away from zero.
RoundHalfUp(n, q) ==
  IF n >= 0 THEN (2 * n + q) \div (2 * q) ELSE -((-2 * n + q) \div (2 * q))

\* _parse_anchor_month, given the digits of the parameter.  The months that
\* date() does not accept end in a 422, like those after the last year.
AnchorMonth(anchor) == IF anchor = NoValue THEN MonthOf(Today) ELSE anchor
IsAnswerable(anchor, n) ==
  /\ n \in 1..MaxMonths
  /\ AnchorMonth(anchor) \in Months
  /\ AddMonths(AnchorMonth(anchor), n - 1) \in Months

\* _load_report_transactions
IsLoaded(t, anchor, n, currency, drafts) ==
  /\ InWindow(t.posted_at, anchor, n)
  /\ t.currency = currency
  /\ t.reverted_at = NoValue
  /\ t.report_bucket \in Reported
  /\ drafts \/ ~t.is_draft

\* The totals of a month: an income counts with its sign, a cost without.
Total(txs, month, bucket) ==
  MapThenSumSet(LAMBDA t : IF bucket = "income" THEN t.amount
                                               ELSE AbsValue(t.amount),
                {t \in txs : MonthOf(t.posted_at) = month
                             /\ t.report_bucket = bucket})

Totals(txs, month) ==
  [income |-> Total(txs, month, "income"),
   living |-> Total(txs, month, "living_cost"),
   fixed  |-> Total(txs, month, "fixed_cost"),
   debt   |-> Total(txs, month, "debt_installment")]

Costs(total)    == total.living + total.fixed + total.debt
Capacity(total) == total.income - Costs(total)

\* _fallback_capacity_ceiling
FallbackCeiling(totals) ==
  Max({0} \cup UNION {{totals[k].income, Costs(totals[k])} : k \in DOMAIN totals})

\* latest_checkpoint_by_month
LatestIn(checkpoints, month) ==
  LET inMonth == {c \in checkpoints : MonthOf(c.date) = month}
  IN IF inMonth = {} THEN NoValue
     ELSE (CHOOSE c \in inMonth :
             \A o \in inMonth : OnOrBefore(o.date, c.date)).amount

\* A slip: a month after a checkpoint grows from the projection before it.
ProjectedIgnoring(totals, known, rate) ==
  LET grown[k \in DOMAIN totals] ==
        IF k = 1 THEN known[1]
        ELSE LET previous == grown[k - 1]
             IN IF previous = NoValue THEN known[k]
                ELSE RoundHalfUp(previous * rate + 100 * Capacity(totals[k]), 100)
  IN [k \in DOMAIN totals |-> IF known[k] # NoValue THEN known[k] ELSE grown[k]]

\* projected_wealth: a checkpoint stands for itself, later months grow from
\* the month before, and nothing is known before the first checkpoint.
Projected(totals, known, rate) ==
  LET projected[k \in DOMAIN totals] ==
        IF known[k] # NoValue THEN known[k]
        ELSE IF k = 1 THEN NoValue
        ELSE LET previous == projected[k - 1]
             IN IF previous = NoValue THEN NoValue
                ELSE RoundHalfUp(previous * rate + 100 * Capacity(totals[k]), 100)
  IN projected

\* has_debt_drop: never in the first month, which has no previous one.
DebtDrops(totals, k) ==
  k > 1 /\ totals[k - 1].debt > 0 /\ 2 * totals[k].debt <= totals[k - 1].debt

\* build_report; rows are the stored transactions, told apart by their ids.
Report(rows, checkpoints, annual, anchorMonth, n, currency, drafts) ==
  LET anchor   == AnchorMonth(anchorMonth)
      window   == Computed(Window(anchor, n))
      txs      == {t \in rows : IsLoaded(t, anchor, n, currency, drafts)}
      totals   == Computed([k \in 1..n |-> Totals(txs, window[k])])
      owned    == {c \in checkpoints : c.currency = currency
                                       /\ InWindow(c.date, anchor, n)}
      known    == Computed([k \in 1..n |-> LatestIn(owned, window[k])])
      wealth   == Computed(Projected(totals, known, MonthlyRate[annual]))
      fallback == FallbackCeiling(totals)
  IN Computed([k \in 1..n |->
        [totals   |-> totals[k],
         month    |-> window[k],
         capacity |-> Capacity(totals[k]),
         ceiling  |-> IF totals[k].income > 0 THEN totals[k].income ELSE fallback,
         wealth   |-> wealth[k],
         debtDrop |-> DebtDrops(totals, k)]])
===============================================================================
