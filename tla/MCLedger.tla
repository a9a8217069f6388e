------------------------------- MODULE MCLedger -------------------------------
(***************************************************************************)
(* An instance of Ledger for TLC: a statement of two lines around a turn   *)
(* of the year and a leap day, answers of every verdict, and requests of   *)
(* every kind.                                                             *)
(***************************************************************************)
EXTENDS Ledger, TLC

MCToday       == <<2024, 3, 10>>
MCMonthlyRate == (100 :> 100 @@ 120 :> 102)

MCTexts ==
  StatementKinds \cup TransactionNatures \cup ReportBuckets
    \cup {"text", "blank", "long", "odd", "BRL", "agent", "user", "system",
          "agent's", "user's", "food", "given", "now", "a"}

\* The agent's answers.
Line1 == [date |-> <<2023, 12, 31>>, description |-> "text", amount |-> 1001,
          transaction_nature |-> "income", report_bucket |-> "income",
          classification_confidence |-> 90, classification_reason |-> "text"]
LineOf(date, confidence) ==
  [date |-> date, description |-> "text", amount |-> 300,
   transaction_nature |-> "expense", report_bucket |-> "debt_installment",
   classification_confidence |-> confidence,
   classification_reason |-> "text", payment_method |-> "credit_card",
   installments |-> 6]

Statement == [kind |-> "credit_card", kind_confidence |-> 80,
              kind_reason |-> "text", period_start |-> <<2023, 12, 1>>,
              period_end |-> <<2, 28>>]

MCAnswers ==
  (1 :> [statement |-> Statement,
         transactions |-> <<Line1, LineOf(<<2, 28>>, 95)>>]) @@
  (2 :> [statement |-> Statement,
         transactions |-> <<Line1, LineOf(<<2, 28>>, 150)>>]) @@
  (3 :> [statement |-> Statement,
         transactions |-> <<LineOf(<<2, 28>>, NotANumber)>>]) @@
  (4 :> [statement |-> Statement,
         transactions |-> <<[running_balance |-> 20001] @@ Line1>>]) @@
  (Fragment :> [statement |-> NoValue, transactions |-> NoValue])

Text(piece, author) == [kind |-> "text", text |-> piece, author |-> author]

MCEvents ==
  {<<[kind |-> "call", name |-> "transfer_to_agent", agent |-> "other"],
     Text(<<"prose">>, "statement_converter")>>,
   <<Text(<<"whole", 1>>, "statement_normalizer")>>,
   <<Text(<<"cut", 1>>, "statement_normalizer")>>,
   <<Text(<<"rest", 1>>, "statement_normalizer")>>,
   <<[kind |-> "other"], Text(<<"whole", 2>>, "statement_normalizer")>>,
   <<[kind |-> "response", name |-> "get_markdown_chunk",
      status |-> "success", numbered |-> TRUE],
     Text(<<"whole", 3>>, "statement_normalizer")>>,
   <<Text(<<"whole", 4>>, "statement_normalizer")>>}

\* The requests.
Purchase == [date |-> <<2024, 2, 29>>, description |-> "text",
             amount |-> -50, report_bucket |-> "living_cost",
             category_id |-> "food"]

MCCreations ==
  {<<Purchase>>, <<Purchase, [description |-> "blank"] @@ Purchase>>,
   <<[report_bucket |-> "odd"] @@ Purchase>>,
   <<[installments |-> 100] @@ Purchase>>}

MCPatches ==
  {[report_bucket |-> "fixed_cost"],
   [transaction_nature |-> "refund", classification_reason |-> "given"],
   [is_draft |-> FALSE, date |-> <<2024, 1, 31>>],
   [is_draft |-> FALSE, category_id |-> "food"],
   [reverted_at |-> "now"],
   [report_bucket |-> "odd"], [posted_at |-> NoValue], [account_id |-> "a"]}

Point(date, amount) == [date |-> date, amount |-> amount, currency |-> "BRL"]
MCCheckpoints == {Point(<<2023, 12, 15>>, 10050), Point(<<2023, 12, 15>>, 7),
                  Point(<<2024, 1, 20>>, 333)}

MCReports ==
  {[anchor |-> <<2023, 11>>, months |-> 4, currency |-> "BRL",
    include_drafts |-> TRUE],
   [anchor |-> <<2023, 12>>, months |-> 3, currency |-> "BRL",
    include_drafts |-> FALSE]}
===============================================================================
