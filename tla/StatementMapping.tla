--------------------------- MODULE StatementMapping ---------------------------
(***************************************************************************)
(* parse_agent_result_for_persistence                                      *)
(* (app/workers/import_worker/data_mapping.py, helpers.py): which answers  *)
(* of the agent become draft transactions.  An answer has a statement and  *)
(* a list of transactions.  A field is what the checks tell apart: a date  *)
(* is <<y, m, d>>, or <<m, d>> when the year is not printed, or <<>> when  *)
(* it cannot be read; a text is "text", "blank" or "long"; an amount is in *)
(* cents, a confidence in percent.  NoValue is null, and a number that is  *)
(* required and cannot be read.  NotANumber is the text "NaN" or, of an    *)
(* amount or a balance, "Infinity"; where a number is optional, also one   *)
(* that cannot be read.  Texts hold characters that the database takes.    *)
(***************************************************************************)
EXTENDS Calendar, Sequences, FiniteSetsExt

CONSTANTS Texts,        \* what a text may be
          NoValue,      \* None, NULL, a field that is not given
          NotANumber,   \* Decimal("NaN")
          Today         \* date.today()

ASSUME TodayAssumption == IsDate(Today)

StatementKinds     == {"checking_account", "credit_card", "unknown"}
TransactionNatures == {"income", "expense", "transfer", "refund",
                       "card_payment", "unknown"}
ReportBuckets      == {"income", "debt_installment", "fixed_cost",
                       "living_cost", "excluded", "unknown"}

\* The texts that the code itself writes or tells apart.
ASSUME TextsAssumption ==
  StatementKinds \cup TransactionNatures \cup ReportBuckets
    \cup {"text", "blank", "long", "odd", "BRL", "agent", "user", "system",
          "agent's", "user's"} \subseteq Texts

\* None is no date, no number, no text and no truth value.
ASSUME NoValueAssumption ==
  /\ NoValue \notin Int /\ NoValue \notin Texts /\ NoValue \notin BOOLEAN
  /\ NoValue \notin Int \X Int /\ NoValue \notin Int \X Int \X Int

\* row.get(field)
Get(row, field) == IF field \in DOMAIN row THEN row[field] ELSE NoValue

\* A transaction of an answer, as far as its shape matters.
IsLine(row) ==
  row # NoValue =>
    /\ "date" \in DOMAIN row => row.date = NoValue \/ row.date \in Seq(Int)
    /\ \A f \in {"amount", "running_balance", "installments",
                 "installments_current"} \cap DOMAIN row :
         row[f] \in Int \cup {NoValue, NotANumber}
    /\ "currency" \in DOMAIN row => row.currency = NoValue \/ row.currency \in Texts

(***************************************************************************)
(* Checks.  One that raises ValueError rejects the file for good; the      *)
(* comparison of a confidence that is not a number raises                  *)
(* InvalidOperation, which is no ValueError and is retried.                *)
(***************************************************************************)
Require(condition) == IF condition THEN "fine" ELSE "rejected"

\* The checks run one after the other; the first that fails decides.
FirstFailure(verdicts) ==
  LET failed == {k \in DOMAIN verdicts : verdicts[k] # "fine"}
  IN IF failed = {} THEN "fine" ELSE verdicts[Min(failed)]

RequiredText(text) == Require(text = "text")
OptionalText(text) == Require(text # "long")

\* Decimal reads a number that is none; the model refuses it, which is built
\* when everything else has been checked.
RequiredNumber(n) == Require(n # NoValue)
OptionalNumber(n) == Require(n # NotANumber)

RequiredConfidence(c) ==
  IF c = NotANumber THEN "broken" ELSE Require(c # NoValue /\ c \in 0..100)

\* strptime reads a date without a year as one of 1900.
IsReadable(date) ==
  \/ Len(date) = 3 /\ IsDate(date)
  \/ Len(date) = 2 /\ IsDate(<<1900>> \o date)

ParseDate(date) == IF Len(date) = 2 THEN <<Today[1]>> \o date ELSE date

RequiredDate(date) == IF date = NoValue THEN "rejected"
                      ELSE Require(IsReadable(date))
OptionalDate(date) == IF date = NoValue THEN "fine"
                      ELSE Require(IsReadable(date))

CurrencyVerdict(currency) == Require(currency # "odd")
NormalizeCurrency(currency) == IF currency = NoValue THEN "BRL" ELSE currency

NormalizeAmount(amount, paymentMethod) ==
  IF paymentMethod = "credit_card" THEN -amount ELSE amount

StatementVerdict(s) ==
  IF s = NoValue THEN "rejected"
  ELSE FirstFailure(
    <<Require(s.kind \in StatementKinds), RequiredConfidence(s.kind_confidence),
      RequiredText(s.kind_reason), OptionalDate(s.period_start),
      OptionalDate(s.period_end), OptionalText(Get(s, "institution_name")),
      OptionalText(Get(s, "account_hint")),
      Require(\/ NoValue \in {s.period_start, s.period_end}
              \/ /\ IsReadable(s.period_start) /\ IsReadable(s.period_end)
                 /\ OnOrBefore(ParseDate(s.period_start),
                               ParseDate(s.period_end)))>>)

RequiredFields ==
  {"date", "description", "amount", "transaction_nature", "report_bucket",
   "classification_confidence", "classification_reason"}

\* A slip: the confidence of a transaction is taken as it comes.
RowVerdictUnchecked(row) ==
  IF row = NoValue \/ ~ RequiredFields \subseteq DOMAIN row THEN "rejected"
  ELSE FirstFailure(
    <<RequiredDate(row.date), RequiredNumber(row.amount),
      RequiredText(row.description), CurrencyVerdict(Get(row, "currency")),
      Require(row.transaction_nature \in TransactionNatures),
      Require(row.report_bucket \in ReportBuckets),
      RequiredText(row.classification_reason), OptionalNumber(row.amount)>>)

RowVerdict(row) ==
  IF row = NoValue \/ ~ RequiredFields \subseteq DOMAIN row THEN "rejected"
  ELSE FirstFailure(
    <<RequiredDate(row.date), OptionalText(Get(row, "payment_method")),
      RequiredNumber(row.amount), RequiredText(row.description),
      OptionalText(Get(row, "merchant_name")),
      CurrencyVerdict(Get(row, "currency")),
      OptionalNumber(Get(row, "installments")),
      OptionalNumber(Get(row, "installments_current")),
      Require(row.transaction_nature \in TransactionNatures),
      Require(row.report_bucket \in ReportBuckets),
      RequiredConfidence(row.classification_confidence),
      RequiredText(row.classification_reason),
      OptionalNumber(Get(row, "running_balance")),
      OptionalNumber(row.amount)>>)

\* "fine", "rejected" or "broken"
ParseVerdict(answer) ==
  LET statement == StatementVerdict(answer.statement)
      rows == answer.transactions
  IN IF statement # "fine" THEN statement
     ELSE IF rows = NoValue THEN "rejected"
     ELSE FirstFailure([k \in DOMAIN rows |-> RowVerdict(rows[k])])

\* map_agent_result_to_transactions of an answer whose verdict is "fine".
MapRow(row, kind) ==
  [posted_at                 |-> ParseDate(row.date),
   description               |-> row.description,
   amount                    |-> NormalizeAmount(row.amount,
                                                 Get(row, "payment_method")),
   currency                  |-> NormalizeCurrency(Get(row, "currency")),
   installments              |-> Get(row, "installments"),
   installments_current      |-> Get(row, "installments_current"),
   running_balance           |-> Get(row, "running_balance"),
   category_id               |-> NoValue,
   imported                  |-> TRUE,
   reverted_at               |-> NoValue,
   is_draft                  |-> TRUE,
   statement_kind            |-> kind,
   transaction_nature        |-> row.transaction_nature,
   report_bucket             |-> row.report_bucket,
   classification_source     |-> "agent",
   classification_confidence |-> row.classification_confidence,
   classification_reason     |-> "agent's"]

MapAnswer(answer) ==
  [k \in DOMAIN answer.transactions |->
     MapRow(answer.transactions[k], answer.statement.kind)]
===============================================================================
