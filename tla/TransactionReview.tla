-------------------------- MODULE TransactionReview --------------------------
(***************************************************************************)
(* What a user may do to a transaction, as functions of the stored row and *)
(* the request: app/db/repositories/transactions.py and the handlers of    *)
(* app/api/transactions_routes.py.  A payload is a record of the fields    *)
(* the client has set (model_fields_set).  The texts that are stored as    *)
(* they come and that nothing reads (merchant, payment method) are left    *)
(* out.                                                                    *)
(***************************************************************************)
EXTENDS StatementMapping, FiniteSets

CONSTANTS AvailableCategories, \* categories the user may refer to, by id
          MaxAmount,           \* the widest Numeric(14, 2), in cents
          MaxInteger           \* the greatest INTEGER

ASSUME WidthsAssumption ==
  /\ MaxAmount \in Nat
  /\ MaxInteger \in Nat

\* f, and g where f says nothing.
Completed(f, g) ==
  [x \in DOMAIN f \cup DOMAIN g |-> IF x \in DOMAIN f THEN f[x] ELSE g[x]]

ProtectedCreateFields ==
  {"account_id", "import_job_id", "source_import_id", "user_id"}
ProtectedPatchFields ==
  ProtectedCreateFields \cup
  {"classification_source", "running_balance", "statement_kind"}

\* The columns of a row, and the constraints the database puts on them.
Fields ==
  {"posted_at", "description", "amount", "currency", "category_id",
   "imported", "reverted_at", "is_draft", "statement_kind",
   "transaction_nature", "report_bucket", "classification_source",
   "classification_confidence", "classification_reason",
   "installments", "installments_current", "running_balance"}

Amounts == {"amount", "running_balance"}
Counts  == {"installments", "installments_current"}

\* A number fits into its column.  Nothing but the database looks at that.
HasWidth(f, n) ==
  /\ f \in Amounts /\ n # NoValue => n \in (-MaxAmount) .. MaxAmount
  /\ f \in Counts  /\ n # NoValue => n \in (-MaxInteger - 1) .. MaxInteger

HasWidths(row) == \A f \in Amounts \cup Counts : HasWidth(f, row[f])

Storable(row) ==
  /\ HasWidths(row)
  /\ NoValue \notin {row.posted_at, row.description, row.amount}
  /\ "long" \notin {row.description, row.classification_reason}
  /\ row.statement_kind \in StatementKinds
  /\ row.transaction_nature \in TransactionNatures
  /\ row.report_bucket \in ReportBuckets
  /\ row.classification_source \in {"agent", "user", "system"}
  /\ \/ row.classification_confidence = NoValue
     \/ row.classification_confidence \in 0..100

\* _validate_category_id
IsAvailable(category) == category \in {NoValue} \cup AvailableCategories

\* What a field may be, and what the model of a request lets through
\* (app/db/models/transaction.py); "imported" is no field of a request.
FieldType(f) ==
  CASE f \in {"date", "posted_at"} -> {d \in Int \X Int \X Int : IsDate(d)}
    [] f \in Amounts \cup Counts \cup {"classification_confidence"} -> Int
    [] f \in {"imported", "is_draft"} -> BOOLEAN
    [] OTHER -> Texts

IsPayload(payload) ==
  /\ "imported" \notin DOMAIN payload
  /\ \A f \in DOMAIN payload :
       payload[f] = NoValue \/ payload[f] \in FieldType(f)

(***************************************************************************)
(* POST /transactions and POST /transactions/bulk.                         *)
(***************************************************************************)
Defaults ==
  [posted_at |-> NoValue, description |-> NoValue, amount |-> NoValue,
   currency |-> NoValue, category_id |-> NoValue, imported |-> FALSE,
   reverted_at |-> NoValue, is_draft |-> FALSE,
   statement_kind |-> "unknown", transaction_nature |-> "unknown",
   report_bucket |-> "unknown", classification_source |-> "system",
   classification_confidence |-> NoValue, classification_reason |-> NoValue,
   installments |-> NoValue, installments_current |-> NoValue,
   running_balance |-> NoValue]

\* payload.posted_at or payload.date
PostedAt(payload) == IF Get(payload, "posted_at") # NoValue
                     THEN payload.posted_at ELSE Get(payload, "date")

NewRow(payload) ==
  [f \in Fields |->
     CASE f = "posted_at" -> PostedAt(payload)
       [] f = "currency"  -> NormalizeCurrency(Get(payload, "currency"))
       [] f \in DOMAIN payload /\ f \notin {"posted_at", "currency"} ->
            payload[f]
       [] OTHER -> Defaults[f]]

\* The answer to one item: the labels are not validated here, so a wrong
\* one meets the constraints of the database.
CreateVerdict(payload) ==
  IF \/ PostedAt(payload) = NoValue
     \/ Get(payload, "description") \in {NoValue, "blank"}
     \/ Get(payload, "amount") = NoValue
     \/ ~IsAvailable(Get(payload, "category_id"))
  THEN "422"
  ELSE IF Storable(NewRow(payload)) THEN "fine" ELSE "500"

\* A list is created as a whole or not at all.
CreateManyAnswer(payloads) ==
  IF \E k \in DOMAIN payloads :
       DOMAIN payloads[k] \cap ProtectedCreateFields # {}
  THEN "422"
  ELSE LET failure == FirstFailure([k \in DOMAIN payloads |->
                                      CreateVerdict(payloads[k])])
       IN IF failure = "fine" THEN "201" ELSE failure

(***************************************************************************)
(* PATCH /transactions/{id}.                                               *)
(***************************************************************************)

\* The field "date" is another name of posted_at, which comes first.
Renamed(payload) ==
  [f \in (DOMAIN payload \ {"date"})
           \cup (IF "date" \in DOMAIN payload THEN {"posted_at"} ELSE {}) |->
     IF f \in DOMAIN payload THEN payload[f] ELSE payload["date"]]

IsPatchable(patch) ==
  /\ DOMAIN patch \cap ProtectedPatchFields = {}
  /\ "report_bucket" \in DOMAIN patch => patch.report_bucket \in ReportBuckets
  /\ "transaction_nature" \in DOMAIN patch =>
       patch.transaction_nature \in TransactionNatures
  /\ Get(patch, "classification_confidence") \in {NoValue} \cup 0..100
  /\ Get(patch, "classification_reason") \notin {"blank", "long"}
  /\ "is_draft" \in DOMAIN patch => patch.is_draft \in BOOLEAN
  /\ IsAvailable(Get(patch, "category_id"))

\* A slip: a new nature is not taken for a correction.
IsCorrectionOfBucket(patch) == "report_bucket" \in DOMAIN patch

IsCorrection(patch) ==
  DOMAIN patch \cap {"report_bucket", "transaction_nature"} # {}

Prepared(patch) ==
  IF IsCorrection(patch)
  THEN Completed([classification_source |-> "user"],
         Completed(patch, [classification_confidence |-> 100,
                           classification_reason |-> "user's"]))
  ELSE patch

\* The fields update() assigns; a null amount or currency is passed over.
Assigned(patch) ==
  {f \in DOMAIN patch \cap Fields :
     f \in {"amount", "currency"} => patch[f] # NoValue}

\* A slip: the fields that were not set are assigned their defaults.
ChangesToAll(row, payload) ==
  LET patch == [f \in {"report_bucket", "transaction_nature", "reverted_at"}
                  |-> Defaults[f]]
      given == Completed(Prepared(Renamed(payload)), patch)
  IN [f \in {f \in Assigned(given) : given[f] # row[f]} |-> given[f]]

\* What the flush writes: the assigned fields that differ from the row as
\* the handler has read it.
Changes(row, payload) ==
  LET patch == Prepared(Renamed(payload))
  IN [f \in {f \in Assigned(patch) : patch[f] # row[f]} |-> patch[f]]

Rewrite(row, changes) == [f \in Fields |-> IF f \in DOMAIN changes
                                           THEN changes[f] ELSE row[f]]

PatchAnswer(row, payload) ==
  IF ~IsPatchable(Renamed(payload)) THEN "422"
  ELSE IF Storable(Rewrite(row, Changes(row, payload))) THEN "200" ELSE "500"

(***************************************************************************)
(* GET /transactions: what list_filtered asks of a row.  A category or an  *)
(* import job of the filter, which only narrow the listing, are left out.  *)
(***************************************************************************)
DraftsAsked(filter, row) ==
  row.is_draft = (IF filter.is_draft = NoValue THEN FALSE ELSE filter.is_draft)

DatesAsked(filter, row) ==
  /\ filter.date_from # NoValue => OnOrBefore(filter.date_from, row.posted_at)
  /\ filter.date_to # NoValue => OnOrBefore(row.posted_at, filter.date_to)

Listed(filter, row) == DraftsAsked(filter, row) /\ DatesAsked(filter, row)
===============================================================================
