----------------------------- MODULE LedgerProofs -----------------------------
(***************************************************************************)
(* The ledger, for every set of clients, processes and ids, every answer   *)
(* of the agent and every request that has the shape of one.  LedgerInv is *)
(* inductive: what is known of the call, of the rows and of what is being  *)
(* written to them, of the locks, and of what the answers have promised.   *)
(***************************************************************************)
EXTENDS Ledger, MonthlyReportProofs

(***************************************************************************)
(* What is known of a call of the agent.                                   *)
(***************************************************************************)
CallPhases == {"creating", "streaming", "closing", "unwinding", "parsing",
               "returned", "raised", "over"}

CallInv ==
  /\ phase \in CallPhases
  /\ text \in Seq(Pieces)
  /\ phase = "creating" => session = "none"
  /\ phase = "parsing"  => session # "open"
  /\ SessionsAreCleanedUp
  /\ phase \notin {"returned", "over"} => result = [status |-> "none"]
  /\ phase = "returned" => result.status \in {"error", "success"}
  /\ result.status = "success" => result.data \in Objects \cup {Fragment}
  /\ AnswerIsTheLastWhole
  /\ import # "calling" => phase = "over"
  /\ OnlyWidthsAreUnchecked

(***************************************************************************)
(* Rows, and what is written to them.                                      *)
(***************************************************************************)
RowValues == (UNION {FieldType(f) : f \in Fields}) \cup {NoValue}

\* A value that the column takes.
Fits(f, v) ==
  /\ v \in FieldType(f) \cup {NoValue}
  /\ f \in {"posted_at", "description", "amount", "imported", "is_draft"} =>
       v # NoValue
  /\ f \in {"description", "classification_reason"} => v # "long"
  /\ f = "statement_kind"        => v \in StatementKinds
  /\ f = "transaction_nature"    => v \in TransactionNatures
  /\ f = "report_bucket"         => v \in ReportBuckets
  /\ f = "classification_source" => v \in {"agent", "user", "system"}
  /\ f = "classification_confidence" => v \in 0..100 \cup {NoValue}
  /\ HasWidth(f, v)

IsRow(row) ==
  /\ row = [f \in Fields |-> row[f]]
  /\ \A f \in Fields : Fits(f, row[f])

Labels == {"report_bucket", "transaction_nature"}

\* The changes of a PATCH: only "user" may come as a source.
IsChange(changes) ==
  /\ DOMAIN changes \subseteq Fields \ {"imported"}
  /\ \A f \in DOMAIN changes : Fits(f, changes[f])
  /\ "classification_source" \in DOMAIN changes =>
       changes["classification_source"] = "user"

\* The ids that have a row in a table.
Present(table) == {i \in Ids : table[i] \notin {NoValue, Gone}}

\* A change of a label makes the user its source, or leaves the user so.
SourceIsTold(table, write) ==
  DOMAIN write.changes \cap Labels # {} =>
    \/ "classification_source" \in DOMAIN write.changes
    \/ write.id \notin Present(table)
    \/ table[write.id].classification_source = "user"

\* A write that some handler flushes.
InsertKnown(table, write) ==
  /\ write.kind = "insert_rows"
  /\ \A i \in DOMAIN write.rows :
       /\ i \in Ids /\ table[i] = NoValue
       /\ IsRow(write.rows[i]) /\ ~ write.rows[i].imported
SetKnown(table, write) ==
  /\ write.kind = "set_fields"
  /\ write.id \in Ids /\ table[write.id] # NoValue
  /\ IsChange(write.changes) /\ SourceIsTold(table, write)
DropKnown(table, write) ==
  /\ write.kind = "drop_row"
  /\ write.id \in Ids /\ table[write.id] # NoValue
PointKnown(write) ==
  /\ write.kind \in {"insert_checkpoint", "drop_checkpoint"}
  /\ write.checkpoint \in Checkpoints
MultiplierKnown(write) ==
  /\ write.kind \in {"insert_settings", "set_settings"}
  /\ write.multiplier \in Multipliers

WriteKnown(table, write) ==
  \/ InsertKnown(table, write) \/ SetKnown(table, write)
  \/ DropKnown(table, write)
  \/ PointKnown(write) \/ MultiplierKnown(write)

RequestKnown(table, r) ==
  /\ r = [phase |-> r.phase, write |-> r.write, process |-> r.process]
  /\ r.phase \in Phases
  /\ IF r.phase = "idle" THEN r.write = Nothing ELSE WriteKnown(table, r.write)

IdsApart(v, w) ==
  v.kind = "insert_rows" /\ w.kind = "insert_rows" =>
    DOMAIN v.rows \cap DOMAIN w.rows = {}

ImportKnown ==
  /\ import \in {"calling", "saved", "rejected", "retry"}
  /\ import # "saved" => /\ \A i \in Ids : rows[i] = NoValue
                         /\ \A c \in Clients : request[c] = Idle

RowsKnown ==
  /\ rows = [i \in Ids |-> rows[i]]
  /\ \A i \in Present(rows) : IsRow(rows[i])

RequestsKnown ==
  /\ request = [c \in Clients |-> request[c]]
  /\ \A c \in Clients : RequestKnown(rows, request[c])
  /\ \A c, d \in Clients : c # d => IdsApart(request[c].write, request[d].write)

SettingsKnown == settings \in {NoValue} \cup Multipliers

BoundsKnown == requests \in 0..MaxRequests /\ faults \in 0..MaxFaults

TableInv == /\ ImportKnown /\ RowsKnown /\ RequestsKnown /\ SettingsKnown
            /\ BoundsKnown /\ AgentLabelsAreTheAgents

(***************************************************************************)
(* What a lock is good for.                                                *)
(***************************************************************************)
SameKey(a, b) == a.date = b.date /\ a.currency = b.currency

LocksExclude ==
  \A c, d \in Clients :
    c # d /\ HasFlushed(c) /\ HasFlushed(d) =>
      Locked(request[c].write) \cap Locked(request[d].write) = {}

\* A flushed change has its row, a flushed insert its key.
FlushedHolds(table, points, write) ==
  /\ write.kind = "set_fields" => write.id \in Present(table)
  /\ write.kind = "insert_checkpoint" =>
       \A old \in points : ~ SameKey(old, write.checkpoint)

LockInv ==
  /\ LocksExclude
  /\ \A c \in Clients :
       HasFlushed(c) => FlushedHolds(rows, checkpoints, request[c].write)
  /\ checkpoints \subseteq Checkpoints
  /\ \A a, b \in checkpoints : SameKey(a, b) => a = b

(***************************************************************************)
(* What the answers have promised.                                         *)
(***************************************************************************)
IsOfSettings(write) == write.kind \in {"insert_settings", "set_settings"}

SettingsInv ==
  /\ \A c \in Clients :
       HasFlushed(c) /\ IsOfSettings(request[c].write) =>
         toldSettings \in {NoValue, request[c].write.multiplier}
  /\ (\A c \in Clients : HasFlushed(c) => ~ IsOfSettings(request[c].write)) =>
       toldSettings \in {NoValue, settings}

Sets(write, i) == write.kind = "set_fields" /\ write.id = i

\* Where something is promised of a row, at most one change of it is under
\* way, and makes it what was promised.
ToldInv ==
  /\ told = [i \in Ids |-> told[i]]
  /\ \A i \in Present(rows) : told[i] # NoValue =>
       /\ \A c \in Clients : Sets(request[c].write, i) =>
            told[i] = Rewrite(rows[i], request[c].write.changes)
       /\ (\A c \in Clients : ~ Sets(request[c].write, i)) => told[i] = rows[i]

LedgerInv == CallInv /\ TableInv /\ LockInv /\ SettingsInv /\ ToldInv

(***************************************************************************)
(* The agent's answer.                                                     *)
(***************************************************************************)

\* What AnswerIsTheLastWhole says of an answer.
IsTheLastWhole(pieces, data) ==
  LET ended == {k \in DOMAIN pieces :
                  \/ pieces[k][1] = "whole"
                  \/ /\ pieces[k][1] = "rest" /\ k > 1
                     /\ pieces[k - 1] = <<"cut", pieces[k][2]>>}
  IN IF data # Fragment
     THEN \E k \in ended : /\ pieces[k][2] = data
                           /\ \A i \in DOMAIN pieces : i > k => pieces[i][1] \in
                                                         {"prose", "rest"}
     ELSE \E k \in DOMAIN pieces : /\ pieces[k][1] = "cut"
                                   /\ \A i \in ended : i < k

\* c is found where the k-th piece begins.
IsAWhole(pieces, k, c) ==
  pieces[k][1] = "whole" /\ c.end = 4 * k + 3 /\ c.object = pieces[k][2]
IsMended(pieces, k, c) ==
  /\ pieces[k][1] = "cut" /\ k + 1 \in DOMAIN pieces
  /\ pieces[k + 1] = <<"rest", pieces[k][2]>>
  /\ c.end = 4 * k + 7 /\ c.object = pieces[k][2]
IsAFragment(pieces, k, c) ==
  /\ pieces[k][1] \in {"whole", "cut"}
  /\ c.end = 4 * k + 2 /\ c.object = Fragment

LEMMA CandidatesAre ==
  ASSUME NEW pieces \in Seq(Pieces), NEW c \in Candidates(pieces)
  PROVE  \E k \in DOMAIN pieces : \/ IsAWhole(pieces, k, c)
                                  \/ IsMended(pieces, k, c)
                                  \/ IsAFragment(pieces, k, c)
BY DEF Candidates, IsAWhole, IsMended, IsAFragment

LEMMA CandidatesEnd ==
  ASSUME NEW pieces \in Seq(Pieces), NEW k \in DOMAIN pieces
  PROVE  /\ pieces[k][1] = "whole" =>
              \E c \in Candidates(pieces) : c.end = 4 * k + 3
         /\ /\ pieces[k][1] = "cut" /\ k + 1 \in DOMAIN pieces
            /\ pieces[k + 1] = <<"rest", pieces[k][2]>>
            => \E c \in Candidates(pieces) : c.end = 4 * k + 7
         /\ pieces[k][1] = "cut" =>
              \E c \in Candidates(pieces) : c.end = 4 * k + 2
<1>1. ASSUME pieces[k][1] = "whole"
      PROVE  \E c \in Candidates(pieces) : c.end = 4 * k + 3
  <2> DEFINE c == [start |-> 4 * k, end |-> 4 * k + 3, object |-> pieces[k][2]]
  <2>1. c \in Candidates(pieces)
    BY <1>1 DEF Candidates
  <2> QED
    BY <2>1
<1>2. ASSUME pieces[k][1] = "cut", k + 1 \in DOMAIN pieces,
             pieces[k + 1] = <<"rest", pieces[k][2]>>
      PROVE  \E c \in Candidates(pieces) : c.end = 4 * k + 7
  <2> DEFINE c == [start |-> 4 * k, end |-> 4 * k + 7, object |-> pieces[k][2]]
  <2>1. c \in Candidates(pieces)
    BY <1>2 DEF Candidates
  <2> QED
    BY <2>1
<1>3. ASSUME pieces[k][1] = "cut"
      PROVE  \E c \in Candidates(pieces) : c.end = 4 * k + 2
  <2> DEFINE c == [start |-> 4 * k + 1, end |-> 4 * k + 2, object |-> Fragment]
  <2>1. c \in Candidates(pieces)
    BY <1>3 DEF Candidates
  <2> QED
    BY <2>1
<1> QED
  BY <1>1, <1>2, <1>3

\* One candidate ends last.
LEMMA LastCandidateExists ==
  ASSUME NEW pieces \in Seq(Pieces), Candidates(pieces) # {}
  PROVE  \E c \in Candidates(pieces) :
           \A o \in Candidates(pieces) : o.end <= c.end
<1> DEFINE left == {4 * Len(pieces) + 7 - c.end : c \in Candidates(pieces)}
<1>1. \A c \in Candidates(pieces) : c.end \in Nat /\ c.end <= 4 * Len(pieces) + 7
  <2> TAKE c \in Candidates(pieces)
  <2>1. PICK k \in DOMAIN pieces : c.end \in {4 * k + 3, 4 * k + 7, 4 * k + 2}
    BY CandidatesAre DEF IsAWhole, IsMended, IsAFragment
  <2>2. k \in 1..Len(pieces) /\ Len(pieces) \in Nat
    OBVIOUS
  <2> QED
    BY <2>1, <2>2
<1>2. left \in SUBSET Nat /\ left # {}
  BY <1>1
<1>3. PICK m \in left : \A o \in left : m <= o
  BY <1>2, LeastExists
<1>4. PICK c \in Candidates(pieces) : m = 4 * Len(pieces) + 7 - c.end
  OBVIOUS
<1>5. ASSUME NEW o \in Candidates(pieces) PROVE o.end <= c.end
  <2>1. m <= 4 * Len(pieces) + 7 - o.end
    BY <1>3
  <2> QED
    BY <1>1, <1>4, <2>1
<1> QED
  BY <1>5

\* parse_last_json_object returns the last whole object, or a fragment of
\* one that was cut after it.
LEMMA LastObjectIsTheLastWhole ==
  ASSUME NEW pieces \in Seq(Pieces), Candidates(pieces) # {}
  PROVE  /\ IsTheLastWhole(pieces, ParseLastObject(pieces))
         /\ ParseLastObject(pieces) \in Objects \cup {Fragment}
<1> DEFINE Last(c) == \A o \in Candidates(pieces) : o.end <= c.end
           c == CHOOSE d \in Candidates(pieces) : Last(d)
           data == ParseLastObject(pieces)
<1>1. c \in Candidates(pieces) /\ Last(c) /\ data = c.object
  BY LastCandidateExists DEF ParseLastObject
<1> HIDE DEF c, data
<1>2. PICK k \in DOMAIN pieces : \/ IsAWhole(pieces, k, c)
                                 \/ IsMended(pieces, k, c)
                                 \/ IsAFragment(pieces, k, c)
  BY <1>1, CandidatesAre
<1>3. /\ Len(pieces) \in Nat /\ DOMAIN pieces = 1..Len(pieces)
      /\ k \in Nat /\ k >= 1
  OBVIOUS
<1>4. \A i \in DOMAIN pieces :
        /\ pieces[i] \in Pieces
        /\ pieces[i] = <<"prose">> \/ pieces[i] = <<pieces[i][1], pieces[i][2]>>
        /\ pieces[i][1] \in {"prose", "whole", "cut", "rest"}
        /\ pieces[i][1] # "prose" => pieces[i][2] \in Objects
  BY DEF Pieces
<1>5. \A i \in DOMAIN pieces :
        /\ pieces[i][1] = "whole" => 4 * i + 3 <= c.end
        /\ pieces[i][1] = "cut" => 4 * i + 2 <= c.end
        /\ pieces[i][1] = "cut" /\ i + 1 \in DOMAIN pieces
           /\ pieces[i + 1] = <<"rest", pieces[i][2]>> => 4 * i + 7 <= c.end
  BY <1>1, CandidatesEnd
<1>6. CASE IsAWhole(pieces, k, c)
  <2>1. \A i \in DOMAIN pieces : i > k => pieces[i][1] \in {"prose", "rest"}
    BY <1>3, <1>4, <1>5, <1>6 DEF IsAWhole
  <2>2. data = pieces[k][2] /\ data \in Objects /\ pieces[k][1] = "whole"
    BY <1>1, <1>4, <1>6 DEF IsAWhole
  <2> QED
    BY <2>1, <2>2, PiecesAssumption DEF IsTheLastWhole, data
<1>7. CASE IsMended(pieces, k, c)
  <2>1. /\ pieces[k + 1][1] = "rest" /\ pieces[k + 1][2] = data
        /\ pieces[k] = <<"cut", data>> /\ data \in Objects
    BY <1>1, <1>4, <1>7 DEF IsMended
  <2>2. \A i \in DOMAIN pieces : i > k + 1 => pieces[i][1] \in {"prose", "rest"}
    BY <1>3, <1>4, <1>5, <1>7 DEF IsMended
  <2>3. k + 1 \in DOMAIN pieces /\ k + 1 > 1 /\ (k + 1) - 1 = k
    BY <1>3, <1>7 DEF IsMended
  <2> QED
    BY <2>1, <2>2, <2>3, PiecesAssumption DEF IsTheLastWhole, data
<1>8. CASE IsAFragment(pieces, k, c)
  <2>1. data = Fragment /\ pieces[k][1] = "cut"
    BY <1>1, <1>3, <1>5, <1>8 DEF IsAFragment
  <2>2. ASSUME NEW i \in DOMAIN pieces,
               \/ pieces[i][1] = "whole"
               \/ /\ pieces[i][1] = "rest" /\ i > 1
                  /\ pieces[i - 1] = <<"cut", pieces[i][2]>>
        PROVE  i < k
    <3>1. i \in Nat /\ i >= 1 /\ c.end = 4 * k + 2
      BY <1>3, <1>8 DEF IsAFragment
    <3>2. CASE pieces[i][1] = "whole"
      BY <1>3, <1>5, <3>1, <3>2
    <3>3. CASE /\ pieces[i][1] = "rest" /\ i > 1
               /\ pieces[i - 1] = <<"cut", pieces[i][2]>>
      <4>1. i - 1 \in DOMAIN pieces /\ (i - 1) + 1 = i
        BY <1>3, <3>1, <3>3
      <4>2. pieces[i] = <<"rest", pieces[i - 1][2]>> /\ pieces[i - 1][1] = "cut"
        BY <1>4, <3>3
      <4>3. 4 * (i - 1) + 7 <= c.end
        BY <1>5, <4>1, <4>2
      <4> QED
        BY <1>3, <3>1, <4>3
    <3> QED
      BY <2>2, <3>2, <3>3
  <2> QED
    BY <2>1, <2>2 DEF IsTheLastWhole, data
<1> QED
  BY <1>2, <1>6, <1>7, <1>8

(***************************************************************************)
(* What the mapping and the requests make is a row.                        *)
(***************************************************************************)

\* A check that is fine means that every one of its parts is.
LEMMA FirstFailureDecides ==
  ASSUME NEW verdicts, DOMAIN verdicts \subseteq Nat
  PROVE  \/ /\ FirstFailure(verdicts) = "fine"
            /\ \A k \in DOMAIN verdicts : verdicts[k] = "fine"
         \/ /\ FirstFailure(verdicts) # "fine"
            /\ \E k \in DOMAIN verdicts : FirstFailure(verdicts) = verdicts[k]
<1> DEFINE failed == {k \in DOMAIN verdicts : verdicts[k] # "fine"}
<1>1. CASE failed = {}
  BY <1>1 DEF FirstFailure
<1>2. CASE failed # {}
  <2>1. \E m \in failed : \A k \in failed : m <= k
    BY <1>2, LeastExists
  <2>2. Min(failed) \in failed
    BY <2>1 DEF Min
  <2>3. FirstFailure(verdicts) = verdicts[Min(failed)]
    BY <1>2 DEF FirstFailure
  <2> QED
    BY <2>2, <2>3
<1> QED
  BY <1>1, <1>2

LEMMA RequireSays ==
  ASSUME NEW condition \in BOOLEAN
  PROVE  /\ Require(condition) \in {"fine", "rejected"}
         /\ Require(condition) = "fine" => condition
BY DEF Require

LEMMA ThreeAreATriple ==
  ASSUME NEW S, NEW seq \in Seq(S), Len(seq) = 3
  PROVE  seq = <<seq[1], seq[2], seq[3]>> /\ seq \in S \X S \X S
<1>1. seq = [k \in 1..3 |-> seq[k]]
  OBVIOUS
<1>2. \A k \in 1..3 : seq[k] \in S
  OBVIOUS
<1>3. seq \in [1..3 -> S]
  BY <1>1, <1>2
<1> QED
  BY <1>3

LEMMA TwoAreAPair ==
  ASSUME NEW S, NEW seq \in Seq(S), Len(seq) = 2
  PROVE  seq = <<seq[1], seq[2]>> /\ seq[1] \in S /\ seq[2] \in S
<1>1. seq = [k \in 1..2 |-> seq[k]]
  OBVIOUS
<1>2. \A k \in 1..2 : seq[k] \in S
  OBVIOUS
<1>3. seq \in [1..2 -> S]
  BY <1>1, <1>2
<1> QED
  BY <1>3

LEMMA PairIsAppended ==
  ASSUME NEW x, NEW a, NEW b
  PROVE  <<x>> \o <<a, b>> = <<x, a, b>>
<1> DEFINE S == {x, a, b}
           seq == <<x>> \o <<a, b>>
<1>1. /\ <<x>> \in Seq(S) /\ <<a, b>> \in Seq(S)
      /\ Len(<<x>>) = 1 /\ Len(<<a, b>>) = 2
  OBVIOUS
<1>2. seq \in Seq(S) /\ Len(seq) = 3
  BY <1>1
<1>3. seq[1] = x /\ seq[2] = a /\ seq[3] = b
  BY <1>1
<1> HIDE DEF seq, S
<1>4. seq = <<x, a, b>>
  BY <1>2, <1>3, ThreeAreATriple
<1> QED
  BY <1>4 DEF seq

\* A date that is read is a date of the calendar, also when it takes the
\* year of today: 1900 had no 29th of February.
LEMMA ReadableDateIsParsed ==
  ASSUME NEW date \in Seq(Int), IsReadable(date)
  PROVE  ParseDate(date) \in FieldType("posted_at")
<1>1. CASE Len(date) = 3
  <2>1. date \in Int \X Int \X Int
    BY <1>1, ThreeAreATriple
  <2>2. IsDate(date)
    BY <1>1 DEF IsReadable
  <2> QED
    BY <1>1, <2>1, <2>2 DEF ParseDate, FieldType, Amounts, Counts
<1>2. CASE Len(date) = 2
  <2> DEFINE m == date[1]
             d == date[2]
  <2>1. m \in Int /\ d \in Int /\ date = <<m, d>>
    BY <1>2, TwoAreAPair
  <2>2. IsDate(<<1900>> \o date) /\ ParseDate(date) = <<Today[1]>> \o date
    BY <1>2 DEF IsReadable, ParseDate
  <2> HIDE DEF m, d
  <2>3. \A y : <<y>> \o <<m, d>> = <<y, m, d>>
    BY PairIsAppended
  <2>4. IsDate(<<1900, m, d>>) /\ ParseDate(date) = <<Today[1], m, d>>
    <3>1. \A y : <<y>> \o date = <<y, m, d>>
      BY <2>1, <2>3
    <3>2. \A y : IsDate(<<y>> \o date) => IsDate(<<y, m, d>>)
      BY <3>1
    <3> QED
      BY <2>2, <3>1, <3>2
  <2>5. m \in 1..12 /\ d \in 1..LastDay(<<1900, m>>)
    BY <2>4 DEF IsDate, Months
  <2>6. Today[1] \in 1..LastYear
    BY TodayAssumption DEF IsDate, Months
  <2>7. /\ LastDay(<<1900, m>>) \in 28..31
        /\ LastDay(<<Today[1], m>>) \in 28..31
        /\ LastDay(<<1900, m>>) <= LastDay(<<Today[1], m>>)
    BY <2>1 DEF LastDay, IsLeap
  <2>8. d \in 1..LastDay(<<Today[1], m>>)
    BY <2>1, <2>5, <2>7
  <2>9. IsDate(<<Today[1], m, d>>)
    BY <2>5, <2>6, <2>8 DEF IsDate, Months
  <2>10. <<Today[1], m, d>> \in Int \X Int \X Int
    <3>1. Today[1] \in Int
      BY <2>6
    <3> QED
      BY <2>1, <3>1
  <2> QED
    BY <2>4, <2>9, <2>10 DEF FieldType, Amounts, Counts
<1> QED
  BY <1>1, <1>2 DEF IsReadable

\* What the checks of a line let through.
LEMMA RowVerdictSays ==
  ASSUME NEW row, IsLine(row), RowVerdict(row) = "fine"
  PROVE  /\ row # NoValue /\ RequiredFields \subseteq DOMAIN row
         /\ row.date \in Seq(Int) /\ IsReadable(row.date)
         /\ row.amount \in Int
         /\ row.description = "text" /\ row.classification_reason = "text"
         /\ row.transaction_nature \in TransactionNatures
         /\ row.report_bucket \in ReportBuckets
         /\ row.classification_confidence \in 0..100
         /\ NormalizeCurrency(Get(row, "currency")) \in Texts
         /\ \A f \in Counts \cup {"running_balance"} :
              Get(row, f) \in Int \cup {NoValue}
<1> DEFINE verdicts ==
      <<RequiredDate(row.date), OptionalText(Get(row, "payment_method")),
        RequiredNumber(row.amount), RequiredText(row.description),
        OptionalText(Get(row, "merchant_name")),
        CurrencyVerdict(Get(row, "currency")),
        OptionalNumber(Get(row, "installments")),
        OptionalNumber(Get(row, "installments_current")),
        Require(row.transaction_nature \in TransactionNatures),
        Require(row.report_bucket \in ReportBuckets),
        RequiredConfidence(row.classification_confidence),
        RequiredText(row.classification_reason),
        OptionalNumber(Get(row, "running_balance")),
        OptionalNumber(row.amount)>>
<1>1. row # NoValue /\ RequiredFields \subseteq DOMAIN row
  BY DEF RowVerdict
<1>2. FirstFailure(verdicts) = "fine"
  BY <1>1 DEF RowVerdict
<1>3. DOMAIN verdicts = 1..14
  OBVIOUS
<1>4. \A k \in 1..14 : verdicts[k] = "fine"
  <2> HIDE DEF verdicts
  <2> QED
    BY <1>2, <1>3, FirstFailureDecides
<1>5. /\ verdicts[1] = "fine" /\ verdicts[3] = "fine" /\ verdicts[4] = "fine"
      /\ verdicts[9] = "fine" /\ verdicts[10] = "fine"
      /\ verdicts[11] = "fine" /\ verdicts[12] = "fine"
      /\ verdicts[7] = "fine" /\ verdicts[8] = "fine"
      /\ verdicts[13] = "fine" /\ verdicts[14] = "fine"
  <2> HIDE DEF verdicts
  <2> QED
    BY <1>4
<1>6. row.date # NoValue /\ IsReadable(row.date)
  BY <1>5 DEF RequiredDate, Require
<1>7. row.amount \notin {NoValue, NotANumber}
  BY <1>5 DEF RequiredNumber, OptionalNumber, Require
<1>8. row.description = "text" /\ row.classification_reason = "text"
  BY <1>5 DEF RequiredText, Require
<1>9. /\ row.transaction_nature \in TransactionNatures
      /\ row.report_bucket \in ReportBuckets
  BY <1>5 DEF Require
<1>10. row.classification_confidence \in 0..100
  BY <1>5 DEF RequiredConfidence, Require
<1>11. row.date \in Seq(Int) /\ row.amount \in Int
  BY <1>1, <1>6, <1>7 DEF IsLine, RequiredFields
<1>12. NormalizeCurrency(Get(row, "currency")) \in Texts
  BY <1>1, TextsAssumption DEF IsLine, NormalizeCurrency, Get
<1>13. ASSUME NEW f \in Counts \cup {"running_balance"}
       PROVE  Get(row, f) \in Int \cup {NoValue}
  <2>1. Get(row, f) # NotANumber
    BY <1>5 DEF OptionalNumber, Require, Counts
  <2>2. CASE f \in DOMAIN row
    BY <1>1, <2>1, <2>2 DEF IsLine, Get, Counts
  <2> QED
    BY <2>2 DEF Get
<1> QED
  BY <1>1, <1>6, <1>8, <1>9, <1>10, <1>11, <1>12, <1>13

LEMMA FieldTypes ==
  /\ FieldType("posted_at") = Dates
  /\ \A f \in {"amount", "classification_confidence", "running_balance",
               "installments", "installments_current"} : FieldType(f) = Int
  /\ \A f \in {"imported", "is_draft"} : FieldType(f) = BOOLEAN
  /\ \A f \in {"description", "currency", "category_id", "reverted_at",
               "statement_kind", "transaction_nature", "report_bucket",
               "classification_source", "classification_reason"} :
       FieldType(f) = Texts
BY DEF FieldType, Dates, Amounts, Counts

\* A line that is accepted becomes a row, if its numbers are not too wide.
LEMMA MappedRowIsRow ==
  ASSUME NEW row, IsLine(row), RowVerdict(row) = "fine",
         NEW kind \in StatementKinds, HasWidths(MapRow(row, kind))
  PROVE  /\ IsRow(MapRow(row, kind))
         /\ MapRow(row, kind).imported
<1> DEFINE new == MapRow(row, kind)
<1>1. new = [f \in Fields |-> new[f]]
  BY DEF MapRow, Fields
<1>2. /\ new.posted_at \in FieldType("posted_at")
      /\ new.amount \in Int
      /\ new.currency \in Texts
      /\ new.category_id = NoValue /\ new.reverted_at = NoValue
      /\ new.imported = TRUE /\ new.is_draft = TRUE
      /\ new.statement_kind = kind
      /\ new.transaction_nature \in TransactionNatures
      /\ new.report_bucket \in ReportBuckets
      /\ new.classification_source = "agent"
      /\ new.classification_confidence \in 0..100
      /\ new.classification_reason = "agent's"
      /\ new.description = "text"
      /\ \A f \in Counts \cup {"running_balance"} :
           new[f] \in Int \cup {NoValue}
  BY RowVerdictSays, ReadableDateIsParsed DEF MapRow, NormalizeAmount, Counts
<1> HIDE DEF new
<1>3. ASSUME NEW f \in Fields PROVE Fits(f, new[f])
  <2>1. new.posted_at # NoValue
    BY <1>2, NoValueAssumption DEF FieldType
  <2>2. new.amount # NoValue
    BY <1>2, NoValueAssumption
  <2>8. HasWidth(f, new[f])
    BY DEF HasWidths, HasWidth, new
  <2>3. CASE f = "posted_at"
    BY <1>2, <2>1, <2>3, <2>8 DEF Fits
  <2>4. CASE f \in {"amount", "classification_confidence"}
    BY <1>2, <2>2, <2>4, <2>8, FieldTypes, NoValueAssumption DEF Fits
  <2>9. CASE f \in {"installments", "installments_current", "running_balance"}
    <3>1. new[f] \in Int \cup {NoValue}
      BY <1>2, <2>9 DEF Counts
    <3> QED
      BY <2>8, <2>9, <3>1, FieldTypes DEF Fits
  <2>7. CASE f \in {"imported", "is_draft"}
    <3>1. new[f] = TRUE
      BY <1>2, <2>7
    <3>2. new[f] \in BOOLEAN /\ new[f] # NoValue
      BY <3>1, NoValueAssumption
    <3> QED
      BY <2>7, <2>8, <3>2, FieldTypes DEF Fits
  <2>5. CASE f \in {"description", "currency", "category_id", "reverted_at"}
    BY <1>2, <2>5, <2>8, FieldTypes, TextsAssumption, NoValueAssumption DEF Fits
  <2>6. CASE f \in {"statement_kind", "transaction_nature", "report_bucket",
                    "classification_source", "classification_reason"}
    BY <1>2, <2>6, <2>8, FieldTypes, TextsAssumption, NoValueAssumption DEF Fits
  <2> QED
    BY <2>3, <2>4, <2>5, <2>6, <2>7, <2>9 DEF Fields
<1> QED
  BY <1>1, <1>2, <1>3 DEF IsRow, new

Verdicts == {"fine", "rejected", "broken"}

LEMMA FirstFailureIsVerdict ==
  ASSUME NEW verdicts, DOMAIN verdicts \subseteq Nat,
         \A k \in DOMAIN verdicts : verdicts[k] \in Verdicts
  PROVE  FirstFailure(verdicts) \in Verdicts
BY FirstFailureDecides DEF Verdicts

LEMMA StatementVerdictSays ==
  ASSUME NEW s
  PROVE  /\ StatementVerdict(s) \in Verdicts
         /\ StatementVerdict(s) = "fine" => s.kind \in StatementKinds
<1> DEFINE verdicts ==
      <<Require(s.kind \in StatementKinds), RequiredConfidence(s.kind_confidence),
        RequiredText(s.kind_reason), OptionalDate(s.period_start),
        OptionalDate(s.period_end), OptionalText(Get(s, "institution_name")),
        OptionalText(Get(s, "account_hint")),
        Require(\/ NoValue \in {s.period_start, s.period_end}
                \/ /\ IsReadable(s.period_start) /\ IsReadable(s.period_end)
                   /\ OnOrBefore(ParseDate(s.period_start),
                                 ParseDate(s.period_end)))>>
<1>1. CASE s = NoValue
  BY <1>1 DEF StatementVerdict, Verdicts
<1>2. CASE s # NoValue
  <2>1. StatementVerdict(s) = FirstFailure(verdicts)
    BY <1>2 DEF StatementVerdict
  <2>2. DOMAIN verdicts = 1..8
    OBVIOUS
  <2>3. \A k \in 1..8 : verdicts[k] \in Verdicts
    <3> TAKE k \in 1..8
    <3>1. /\ verdicts[1] \in Verdicts /\ verdicts[8] \in Verdicts
      BY DEF Require, Verdicts
    <3>2. verdicts[2] \in Verdicts
      BY DEF RequiredConfidence, Require, Verdicts
    <3>3. /\ verdicts[3] \in Verdicts /\ verdicts[6] \in Verdicts
          /\ verdicts[7] \in Verdicts
      BY DEF RequiredText, OptionalText, Require, Verdicts
    <3>4. verdicts[4] \in Verdicts /\ verdicts[5] \in Verdicts
      BY DEF OptionalDate, Require, Verdicts
    <3> HIDE DEF verdicts
    <3>5. k \in {1, 2, 3, 4, 5, 6, 7, 8}
      OBVIOUS
    <3> QED
      BY <3>1, <3>2, <3>3, <3>4, <3>5
  <2>4. verdicts[1] = "fine" => s.kind \in StatementKinds
    BY DEF Require
  <2> HIDE DEF verdicts
  <2>5. FirstFailure(verdicts) \in Verdicts
    BY <2>2, <2>3, FirstFailureIsVerdict
  <2>6. FirstFailure(verdicts) = "fine" => verdicts[1] = "fine"
    BY <2>2, FirstFailureDecides
  <2> QED
    BY <2>1, <2>4, <2>5, <2>6
<1> QED
  BY <1>1, <1>2

LEMMA RowVerdictIsVerdict ==
  ASSUME NEW row
  PROVE  RowVerdict(row) \in Verdicts
<1> DEFINE verdicts ==
      <<RequiredDate(row.date), OptionalText(Get(row, "payment_method")),
        RequiredNumber(row.amount), RequiredText(row.description),
        OptionalText(Get(row, "merchant_name")),
        CurrencyVerdict(Get(row, "currency")),
        OptionalNumber(Get(row, "installments")),
        OptionalNumber(Get(row, "installments_current")),
        Require(row.transaction_nature \in TransactionNatures),
        Require(row.report_bucket \in ReportBuckets),
        RequiredConfidence(row.classification_confidence),
        RequiredText(row.classification_reason),
        OptionalNumber(Get(row, "running_balance")),
        OptionalNumber(row.amount)>>
<1>1. DOMAIN verdicts = 1..14
  OBVIOUS
<1>2. \A k \in 1..14 : verdicts[k] \in Verdicts
  <2> TAKE k \in 1..14
  <2>1. /\ verdicts[1] \in Verdicts
    BY DEF RequiredDate, Require, Verdicts
  <2>2. /\ verdicts[2] \in Verdicts /\ verdicts[5] \in Verdicts
        /\ verdicts[4] \in Verdicts /\ verdicts[12] \in Verdicts
    BY DEF RequiredText, OptionalText, Require, Verdicts
  <2>3. /\ verdicts[3] \in Verdicts /\ verdicts[7] \in Verdicts
        /\ verdicts[8] \in Verdicts /\ verdicts[13] \in Verdicts
    BY DEF RequiredNumber, OptionalNumber, Require, Verdicts
  <2>4. /\ verdicts[6] \in Verdicts /\ verdicts[9] \in Verdicts
        /\ verdicts[10] \in Verdicts
    BY DEF CurrencyVerdict, Require, Verdicts
  <2>5. verdicts[11] \in Verdicts
    BY DEF RequiredConfidence, Require, Verdicts
  <2>7. verdicts[14] \in Verdicts
    BY DEF OptionalNumber, Require, Verdicts
  <2> HIDE DEF verdicts
  <2>6. k \in {1, 2, 3, 4, 5, 6, 7, 8, 9, 10, 11, 12, 13, 14}
    OBVIOUS
  <2> QED
    <3>1. CASE k \in {1, 2, 3, 4, 5, 6, 7}
      BY <2>1, <2>2, <2>3, <2>4, <3>1
    <3>2. CASE k \in {8, 9, 10}
      BY <2>3, <2>4, <3>2
    <3>3. CASE k \in {11, 12, 13}
      BY <2>2, <2>3, <2>5, <3>3
    <3>4. CASE k = 14
      BY <2>7, <3>4
    <3> QED
      BY <2>6, <3>1, <3>2, <3>3, <3>4
<1>3. RowVerdict(row) \in {"rejected", FirstFailure(verdicts)}
  BY DEF RowVerdict
<1> HIDE DEF verdicts
<1>4. FirstFailure(verdicts) \in Verdicts
  BY <1>1, <1>2, FirstFailureIsVerdict
<1> QED
  BY <1>3, <1>4 DEF Verdicts

\* An answer that is accepted is made of rows of the table, as far as its
\* numbers have the width of their columns.
LEMMA AcceptedAnswerIsRows ==
  ASSUME NEW o \in Objects \cup {Fragment}
  PROVE  /\ ParseVerdict(Answers[o]) \in Verdicts
         /\ ParseVerdict(Answers[o]) = "fine" =>
              \A k \in DOMAIN MapAnswer(Answers[o]) :
                HasWidths(MapAnswer(Answers[o])[k]) =>
                  /\ IsRow(MapAnswer(Answers[o])[k])
                  /\ MapAnswer(Answers[o])[k].imported
<1> DEFINE answer    == Answers[o]
           statement == StatementVerdict(answer.statement)
           lines     == answer.transactions
           verdicts  == [k \in DOMAIN lines |-> RowVerdict(lines[k])]
<1>1. CASE statement # "fine" \/ lines = NoValue
  BY <1>1, StatementVerdictSays DEF ParseVerdict, Verdicts
<1>2. CASE statement = "fine" /\ lines # NoValue
  <2>1. ParseVerdict(answer) = FirstFailure(verdicts)
    BY <1>2 DEF ParseVerdict
  <2>2. /\ DOMAIN lines \subseteq Nat
        /\ \A k \in DOMAIN lines : IsLine(lines[k])
    BY <1>2, AnswersAssumption
  <2>3. /\ DOMAIN verdicts = DOMAIN lines
        /\ \A k \in DOMAIN lines : verdicts[k] = RowVerdict(lines[k])
    OBVIOUS
  <2>4. answer.statement.kind \in StatementKinds
    BY <1>2, StatementVerdictSays
  <2>5. /\ DOMAIN MapAnswer(answer) = DOMAIN lines
        /\ \A k \in DOMAIN lines :
             MapAnswer(answer)[k] = MapRow(lines[k], answer.statement.kind)
    BY DEF MapAnswer
  <2> HIDE DEF verdicts, lines
  <2>6. FirstFailure(verdicts) \in Verdicts
    BY <2>2, <2>3, RowVerdictIsVerdict, FirstFailureIsVerdict
  <2>7. ASSUME FirstFailure(verdicts) = "fine", NEW k \in DOMAIN lines,
               HasWidths(MapAnswer(answer)[k])
        PROVE  IsRow(MapAnswer(answer)[k]) /\ MapAnswer(answer)[k].imported
    <3>1. RowVerdict(lines[k]) = "fine"
      BY <2>2, <2>3, <2>7, FirstFailureDecides
    <3> QED
      BY <2>2, <2>4, <2>5, <2>7, <3>1, MappedRowIsRow
  <2> QED
    BY <2>1, <2>5, <2>6, <2>7
<1> QED
  BY <1>1, <1>2

\* A row of the table is stored, and none of the marks of an empty place.
LEMMA RowsAreStorable ==
  ASSUME NEW row, IsRow(row)
  PROVE  /\ DOMAIN row = Fields /\ Storable(row)
         /\ row \notin {NoValue, Gone}
         /\ row.posted_at \in Dates /\ row.is_draft \in BOOLEAN
         /\ row.imported \in BOOLEAN
<1>1. /\ DOMAIN row = Fields
      /\ \A f \in Fields : Fits(f, row[f])
  BY DEF IsRow
<1>2. Storable(row)
  <2>1. HasWidths(row)
    BY <1>1 DEF HasWidths, Fits, Fields, Amounts, Counts
  <2> QED
    BY <1>1, <2>1 DEF Storable, Fits, Fields
<1>3. row.posted_at \in Dates
  BY <1>1, FieldTypes DEF Fits, Fields
<1>4. row.is_draft \in BOOLEAN
  BY <1>1, FieldTypes DEF Fits, Fields
<1>5. row.imported \in BOOLEAN
  BY <1>1, FieldTypes DEF Fits, Fields
<1>6. \A f \in Fields : row[f] \in RowValues
  <2> TAKE g \in Fields
  <2>1. row[g] \in FieldType(g) \/ row[g] \in {NoValue}
    BY <1>1 DEF Fits
  <2> QED
    BY <2>1, Zenon DEF RowValues
<1>7. row \in [Fields -> RowValues]
  BY <1>6 DEF IsRow
<1>8. row \notin {NoValue, Gone}
  BY <1>7, RowsAssumption DEF RowValues
<1> QED
  BY <1>1, <1>2, <1>3, <1>4, <1>5, <1>8

LEMMA StorableIsRow ==
  ASSUME NEW row, row = [f \in Fields |-> row[f]], Storable(row),
         \A f \in Fields : row[f] \in FieldType(f) \cup {NoValue},
         row.imported # NoValue, row.is_draft # NoValue
  PROVE  IsRow(row)
<1> SUFFICES ASSUME NEW f \in Fields PROVE Fits(f, row[f])
  BY DEF IsRow
<1>1. HasWidth(f, row[f])
  BY DEF Storable, HasWidths, HasWidth
<1> QED
  BY <1>1 DEF Fits, Storable

LEMMA GetIsTyped ==
  ASSUME NEW payload, IsPayload(payload), NEW f
  PROVE  /\ Get(payload, f) \in FieldType(f) \cup {NoValue}
         /\ f \in DOMAIN payload => Get(payload, f) = payload[f]
BY DEF IsPayload, Get

LEMMA DatesAreOneType ==
  FieldType("date") = FieldType("posted_at")
BY DEF FieldType, Amounts, Counts

\* What a POST is answered 201 for is a row, and not one of an import.
LEMMA NewRowIsRow ==
  ASSUME NEW payload, IsPayload(payload), CreateVerdict(payload) = "fine",
         "is_draft" \in DOMAIN payload => payload.is_draft \in BOOLEAN
  PROVE  IsRow(NewRow(payload)) /\ ~ NewRow(payload).imported
<1> DEFINE row == NewRow(payload)
<1>1. /\ PostedAt(payload) # NoValue /\ Storable(row)
  BY DEF CreateVerdict
<1>2. row = [f \in Fields |-> row[f]]
  BY DEF NewRow
<1>3. row.posted_at = PostedAt(payload)
  BY DEF NewRow, Fields
<1>4. row.currency = NormalizeCurrency(Get(payload, "currency"))
  BY DEF NewRow, Fields
<1>5. \A f \in Fields \ {"posted_at", "currency"} :
        row[f] = IF f \in DOMAIN payload THEN payload[f] ELSE Defaults[f]
  BY DEF NewRow
<1>6. PostedAt(payload) \in FieldType("posted_at")
  BY <1>1, GetIsTyped, DatesAreOneType DEF PostedAt, Get
<1>7. NormalizeCurrency(Get(payload, "currency")) \in Texts
  <2>1. Get(payload, "currency") \in Texts \cup {NoValue}
    BY GetIsTyped, FieldTypes
  <2> QED
    BY <2>1, TextsAssumption DEF NormalizeCurrency
<1>8. /\ row.imported = FALSE
      /\ row.is_draft \in BOOLEAN
  <2>1. "imported" \notin DOMAIN payload
    BY DEF IsPayload
  <2>2. row.imported = FALSE
    BY <1>5, <2>1 DEF Fields, Defaults
  <2>3. row.is_draft \in BOOLEAN
    BY <1>5 DEF Fields, Defaults
  <2> QED
    BY <2>2, <2>3
<1> HIDE DEF row
<1>9. row.imported # NoValue /\ row.is_draft # NoValue
  BY <1>8, NoValueAssumption
<1>10. ASSUME NEW f \in Fields PROVE row[f] \in FieldType(f) \cup {NoValue}
  <2>1. CASE f = "posted_at"
    BY <1>3, <1>6, <2>1
  <2>2. CASE f = "currency"
    BY <1>4, <1>7, <2>2, FieldTypes
  <2>3. CASE f \notin {"posted_at", "currency"}
    <3>1. CASE f \in DOMAIN payload
      BY <1>5, <2>3, <3>1, GetIsTyped
    <3>2. CASE f \notin DOMAIN payload /\ f \in {"imported", "is_draft"}
      <4>1. row[f] \in BOOLEAN
        BY <1>8, <3>2
      <4> QED
        BY <3>2, <4>1, FieldTypes
    <3>3. CASE f \notin DOMAIN payload /\ f \notin {"imported", "is_draft"}
      <4>1. row[f] = Defaults[f]
        BY <1>5, <2>3, <3>3
      <4>2. CASE f \in {"description", "amount", "category_id", "reverted_at",
                        "classification_confidence", "classification_reason",
                        "installments", "installments_current",
                        "running_balance"}
        BY <4>1, <4>2 DEF Defaults
      <4>3. CASE f \in {"statement_kind", "transaction_nature", "report_bucket",
                        "classification_source"}
        <5>1. row[f] \in {"unknown", "system"}
          BY <4>1, <4>3 DEF Defaults
        <5>2. row[f] \in Texts
          BY <5>1, TextsAssumption DEF StatementKinds
        <5> QED
          BY <4>3, <5>2, FieldTypes
      <4> QED
        BY <2>3, <3>3, <4>2, <4>3 DEF Fields
    <3> QED
      BY <3>1, <3>2, <3>3
  <2> QED
    BY <2>1, <2>2, <2>3
<1>11. IsRow(row)
  BY <1>1, <1>2, <1>9, <1>10, StorableIsRow
<1> QED
  BY <1>8, <1>11 DEF row

\* A change keeps a row a row, and an import's row the import's.
LEMMA RewriteIsRow ==
  ASSUME NEW row, IsRow(row), NEW changes, IsChange(changes)
  PROVE  /\ IsRow(Rewrite(row, changes))
         /\ Rewrite(row, changes).imported = row.imported
         /\ \A f \in Fields : Rewrite(row, changes)[f] =
              IF f \in DOMAIN changes THEN changes[f] ELSE row[f]
<1>1. \A f \in Fields : Rewrite(row, changes)[f] =
              IF f \in DOMAIN changes THEN changes[f] ELSE row[f]
  BY DEF Rewrite
<1>2. Rewrite(row, changes) = [f \in Fields |-> Rewrite(row, changes)[f]]
  BY DEF Rewrite
<1>3. \A f \in Fields : Fits(f, Rewrite(row, changes)[f])
  BY <1>1 DEF IsRow, IsChange
<1>4. Rewrite(row, changes).imported = row.imported
  BY <1>1 DEF IsChange, Fields
<1> QED
  BY <1>1, <1>2, <1>3, <1>4 DEF IsRow

\* The fields that a PATCH comes down to.
LEMMA PreparedPatch ==
  ASSUME NEW payload, IsPayload(payload), IsPatchable(Renamed(payload))
  PROVE  LET patch == Prepared(Renamed(payload))
         IN /\ "imported" \notin DOMAIN patch
            /\ \A f \in DOMAIN patch \cap Fields :
                 patch[f] \in FieldType(f) \cup {NoValue}
            /\ "is_draft" \in DOMAIN patch => patch.is_draft \in BOOLEAN
            /\ "classification_source" \in DOMAIN patch =>
                 patch["classification_source"] = "user"
            /\ DOMAIN patch \cap Labels # {} =>
                 "classification_source" \in DOMAIN patch
<1> DEFINE renamed == Renamed(payload)
           patch   == Prepared(renamed)
<1>1. /\ "imported" \notin DOMAIN renamed
      /\ \A f \in DOMAIN renamed \cap Fields :
           renamed[f] \in FieldType(f) \cup {NoValue}
  BY DatesAreOneType DEF Renamed, IsPayload, Fields
<1>2. /\ "classification_source" \notin DOMAIN renamed
      /\ "is_draft" \in DOMAIN renamed => renamed.is_draft \in BOOLEAN
  BY DEF IsPatchable, ProtectedPatchFields
<1> HIDE DEF renamed
<1>3. CASE IsCorrection(renamed)
  <2> DEFINE asked == [classification_confidence |-> 100,
                       classification_reason |-> "user's"]
             given == Completed(renamed, asked)
             marks == [classification_source |-> "user"]
  <2>1. patch = Completed(marks, given)
    BY <1>3 DEF Prepared
  <2>2. /\ DOMAIN given = DOMAIN renamed \cup {"classification_confidence",
                                               "classification_reason"}
        /\ \A f \in DOMAIN given :
             given[f] = IF f \in DOMAIN renamed THEN renamed[f] ELSE asked[f]
    BY DEF Completed
  <2>3. /\ asked["classification_confidence"] = 100
        /\ asked["classification_reason"] = "user's"
    OBVIOUS
  <2> HIDE DEF given, asked
  <2>4. /\ DOMAIN patch = DOMAIN given \cup {"classification_source"}
        /\ patch["classification_source"] = "user"
        /\ \A f \in DOMAIN given \ {"classification_source"} : patch[f] = given[f]
    BY <2>1 DEF Completed
  <2> HIDE DEF patch
  <2>5. ASSUME NEW f \in DOMAIN patch \cap Fields
        PROVE  patch[f] \in FieldType(f) \cup {NoValue}
    <3>1. CASE f = "classification_source"
      BY <2>4, <3>1, FieldTypes, TextsAssumption
    <3>2. CASE f # "classification_source" /\ f \in DOMAIN renamed
      BY <1>1, <2>2, <2>4, <3>2
    <3>3. CASE f = "classification_confidence" /\ f \notin DOMAIN renamed
      BY <2>2, <2>3, <2>4, <3>3, FieldTypes
    <3>4. CASE f = "classification_reason" /\ f \notin DOMAIN renamed
      BY <2>2, <2>3, <2>4, <3>4, FieldTypes, TextsAssumption
    <3> QED
      BY <2>2, <2>4, <3>1, <3>2, <3>3, <3>4
  <2>6. "is_draft" \in DOMAIN patch => patch["is_draft"] \in BOOLEAN
    BY <1>2, <2>2, <2>4
  <2>7. "imported" \notin DOMAIN patch /\ "classification_source" \in DOMAIN patch
    BY <1>1, <2>2, <2>4
  <2> QED
    BY <2>4, <2>5, <2>6, <2>7 DEF patch, renamed
<1>4. CASE ~ IsCorrection(renamed)
  <2>1. patch = renamed /\ DOMAIN patch \cap Labels = {}
    BY <1>4 DEF Prepared, IsCorrection, Labels
  <2> QED
    BY <1>1, <1>2, <2>1 DEF renamed
<1> QED
  BY <1>3, <1>4

\* What a PATCH is answered 200 for is a change, and one of a label tells
\* who has made it.
LEMMA PatchIsChange ==
  ASSUME NEW row, IsRow(row), NEW payload, IsPayload(payload),
         PatchAnswer(row, payload) = "200"
  PROVE  LET changes == Changes(row, payload)
             patch   == Prepared(Renamed(payload))
         IN /\ IsChange(changes)
            /\ DOMAIN changes \cap Labels # {} =>
                 \/ "classification_source" \in DOMAIN changes
                 \/ row.classification_source = "user"
            /\ Rewrite(row, changes)
                 = Rewrite(row, [f \in Assigned(patch) |-> patch[f]])
<1> DEFINE changes == Changes(row, payload)
           patch   == Prepared(Renamed(payload))
           new     == Rewrite(row, changes)
<1>1. IsPatchable(Renamed(payload)) /\ Storable(new)
  BY DEF PatchAnswer
<1>2. /\ "imported" \notin DOMAIN patch
      /\ \A f \in DOMAIN patch \cap Fields :
           patch[f] \in FieldType(f) \cup {NoValue}
      /\ "is_draft" \in DOMAIN patch => patch.is_draft \in BOOLEAN
      /\ "classification_source" \in DOMAIN patch =>
           patch["classification_source"] = "user"
      /\ DOMAIN patch \cap Labels # {} =>
           "classification_source" \in DOMAIN patch
  BY <1>1, PreparedPatch
<1>3. /\ DOMAIN changes = {f \in Assigned(patch) : patch[f] # row[f]}
      /\ \A f \in DOMAIN changes : changes[f] = patch[f]
  BY DEF Changes
<1>4. /\ Assigned(patch) \subseteq DOMAIN patch \cap Fields
      /\ "classification_source" \in DOMAIN patch =>
           "classification_source" \in Assigned(patch)
  BY DEF Assigned, Fields
<1> HIDE DEF changes, patch
<1>5. /\ new = [f \in Fields |-> new[f]]
      /\ \A f \in Fields : new[f] = IF f \in DOMAIN changes THEN changes[f]
                                                           ELSE row[f]
  BY DEF Rewrite
<1>6. \A f \in Fields : Fits(f, row[f])
  BY DEF IsRow
<1> HIDE DEF new
<1>7. \A f \in Fields : new[f] \in FieldType(f) \cup {NoValue}
  BY <1>2, <1>3, <1>4, <1>5, <1>6 DEF Fits
<1>8. new.imported # NoValue /\ new.is_draft # NoValue
  <2>1. new.imported = row.imported
    BY <1>2, <1>3, <1>4, <1>5 DEF Fields
  <2>2. new.is_draft = row.is_draft \/ new.is_draft \in BOOLEAN
    BY <1>2, <1>3, <1>4, <1>5 DEF Fields
  <2> QED
    BY <1>6, <2>1, <2>2, NoValueAssumption DEF Fits, Fields
<1>9. IsRow(new)
  BY <1>1, <1>5, <1>7, <1>8, StorableIsRow
<1>10. \A f \in DOMAIN changes : f \in Fields /\ Fits(f, changes[f])
  BY <1>3, <1>4, <1>5, <1>9 DEF IsRow
<1>11. IsChange(changes)
  BY <1>2, <1>3, <1>4, <1>10 DEF IsChange
<1>12. DOMAIN changes \cap Labels # {} =>
         \/ "classification_source" \in DOMAIN changes
         \/ row["classification_source"] = "user"
  BY <1>2, <1>3, <1>4
<1>13. new = Rewrite(row, [f \in Assigned(patch) |-> patch[f]])
  <2> DEFINE all == [f \in Assigned(patch) |-> patch[f]]
  <2>1. \A f \in Fields : new[f] = IF f \in DOMAIN all THEN all[f] ELSE row[f]
    BY <1>3, <1>4, <1>5
  <2> HIDE DEF all
  <2>2. Rewrite(row, all) = [f \in Fields |-> IF f \in DOMAIN all THEN all[f]
                                                                 ELSE row[f]]
    BY DEF Rewrite
  <2>3. new = Rewrite(row, all)
    BY <1>5, <2>1, <2>2
  <2> QED
    BY <2>3 DEF all
<1> QED
  BY <1>11, <1>12, <1>13 DEF changes, patch, new

(***************************************************************************)
(* What the steps do to the requests.                                      *)
(***************************************************************************)
LEMMA IdleIsKnown ==
  ASSUME NEW table
  PROVE  /\ RequestKnown(table, Idle)
         /\ \A w : IdsApart(Idle.write, w) /\ IdsApart(w, Idle.write)
         /\ Idle.phase = "idle" /\ Idle.write = Nothing
         /\ Nothing.kind = "nothing"
BY DEF RequestKnown, Idle, Nothing, Phases, IdsApart

LEMMA KnownWriteIsSomething ==
  ASSUME NEW table, NEW write, WriteKnown(table, write)
  PROVE  /\ write # Nothing
         /\ write.kind \in {"insert_rows", "set_fields", "drop_row",
                            "insert_checkpoint", "drop_checkpoint",
                            "insert_settings", "set_settings"}
BY DEF WriteKnown, InsertKnown, SetKnown, DropKnown, PointKnown,
       MultiplierKnown, Nothing

\* A request of client c becomes r, which locks nothing that is locked.
Puts(c, r) ==
  /\ request' = [request EXCEPT ![c] = r]
  /\ RequestKnown(rows, r)
  /\ \A d \in Clients \ {c} : IdsApart(r.write, request[d].write)
  /\ r.phase \notin {"idle", "waiting"} =>
       /\ FlushedHolds(rows, checkpoints, r.write)
       /\ Locked(r.write) \cap LockedByOthers(c) = {}

\* The requests of the clients of a set end.
Frees(ended) ==
  request' = [c \in Clients |-> IF c \in ended THEN Idle ELSE request[c]]

LEMMA LockedByOthersIs ==
  ASSUME NEW c, NEW d \in Clients \ {c}, HasFlushed(d)
  PROVE  Locked(request[d].write) \subseteq LockedByOthers(c)
BY DEF LockedByOthers

LEMMA IdsApartIsSymmetric ==
  ASSUME NEW v, NEW w, IdsApart(v, w)
  PROVE  IdsApart(w, v)
BY DEF IdsApart

LEMMA PutKeeps ==
  ASSUME RequestsKnown, LockInv, NEW c \in Clients, NEW r, Puts(c, r),
         UNCHANGED tables
  PROVE  RequestsKnown' /\ LockInv'
<1>1. /\ request' = [d \in Clients |-> request'[d]]
      /\ request'[c] = r
      /\ \A d \in Clients \ {c} : request'[d] = request[d]
  BY DEF RequestsKnown, Puts
<1>2. rows' = rows /\ checkpoints' = checkpoints
  BY DEF tables
<1>3. RequestsKnown'
  <2>1. ASSUME NEW d \in Clients PROVE RequestKnown(rows', request'[d])
    BY <1>1, <1>2 DEF RequestsKnown, Puts
  <2>2. ASSUME NEW d \in Clients, NEW e \in Clients, d # e
        PROVE  IdsApart(request'[d].write, request'[e].write)
    <3>1. CASE d = c
      BY <1>1, <2>2, <3>1 DEF Puts
    <3>2. CASE e = c
      BY <1>1, <2>2, <3>2, IdsApartIsSymmetric DEF Puts
    <3>3. CASE d # c /\ e # c
      BY <1>1, <2>2, <3>3 DEF RequestsKnown
    <3> QED
      BY <3>1, <3>2, <3>3
  <2> QED
    BY <1>1, <2>1, <2>2 DEF RequestsKnown
<1>4. \A d \in Clients \ {c} : HasFlushed(d)' <=> HasFlushed(d)
  BY <1>1 DEF HasFlushed
<1>5. LocksExclude'
  <2>1. ASSUME NEW d \in Clients \ {c}, HasFlushed(d), HasFlushed(c)'
        PROVE  Locked(r.write) \cap Locked(request[d].write) = {}
    BY <1>1, <2>1, LockedByOthersIs DEF Puts, HasFlushed
  <2>2. ASSUME NEW d \in Clients, NEW e \in Clients, d # e,
               HasFlushed(d)', HasFlushed(e)'
        PROVE  Locked(request'[d].write) \cap Locked(request'[e].write) = {}
    <3>1. CASE d = c
      BY <1>1, <1>4, <2>1, <2>2, <3>1
    <3>2. CASE e = c
      BY <1>1, <1>4, <2>1, <2>2, <3>2
    <3>3. CASE d # c /\ e # c
      BY <1>1, <1>4, <2>2, <3>3 DEF LockInv, LocksExclude
    <3> QED
      BY <3>1, <3>2, <3>3
  <2> QED
    BY <2>2 DEF LocksExclude
<1>6. ASSUME NEW d \in Clients, HasFlushed(d)'
      PROVE  FlushedHolds(rows', checkpoints', request'[d].write)
  <2>1. CASE d = c
    BY <1>1, <1>2, <1>6, <2>1 DEF Puts, HasFlushed
  <2>2. CASE d # c
    BY <1>1, <1>2, <1>4, <1>6, <2>2 DEF LockInv
  <2> QED
    BY <2>1, <2>2
<1> QED
  BY <1>2, <1>3, <1>5, <1>6 DEF LockInv

LEMMA FreeKeeps ==
  ASSUME RequestsKnown, LockInv, NEW ended, Frees(ended), UNCHANGED tables
  PROVE  RequestsKnown' /\ LockInv'
<1>1. /\ request' = [d \in Clients |-> request'[d]]
      /\ \A d \in Clients : request'[d] = Idle \/ request'[d] = request[d]
  BY DEF Frees
<1>2. rows' = rows /\ checkpoints' = checkpoints
  BY DEF tables
<1>3. RequestsKnown'
  <2>1. ASSUME NEW d \in Clients PROVE RequestKnown(rows', request'[d])
    BY <1>1, <1>2, IdleIsKnown DEF RequestsKnown
  <2>2. ASSUME NEW d \in Clients, NEW e \in Clients, d # e
        PROVE  IdsApart(request'[d].write, request'[e].write)
    BY <1>1, <2>2, IdleIsKnown DEF RequestsKnown
  <2> QED
    BY <1>1, <2>1, <2>2 DEF RequestsKnown
<1>4. \A d \in Clients : HasFlushed(d)' => /\ HasFlushed(d)
                                           /\ request'[d] = request[d]
  BY <1>1, IdleIsKnown DEF HasFlushed
<1>5. LocksExclude'
  BY <1>4 DEF LockInv, LocksExclude
<1>6. \A d \in Clients : HasFlushed(d)' =>
        FlushedHolds(rows', checkpoints', request'[d].write)
  BY <1>2, <1>4 DEF LockInv
<1> QED
  BY <1>2, <1>3, <1>5, <1>6 DEF LockInv

\* As long as the tables are as they were, so is what is known of them.
LEMMA TablesStay ==
  ASSUME TableInv, import = "saved", UNCHANGED <<import, result>>,
         UNCHANGED tables
  PROVE  /\ ImportKnown' /\ RowsKnown' /\ SettingsKnown'
         /\ AgentLabelsAreTheAgents'
<1>1. rows' = rows /\ settings' = settings
  BY DEF tables
<1> QED
  BY <1>1 DEF TableInv, ImportKnown, RowsKnown, SettingsKnown, AgentRows,
              AgentLabelsAreTheAgents, Present, Stored

\* Only when the import is through does anybody ask for anything.
LEMMA PendingIsSaved ==
  ASSUME TableInv, NEW c \in Clients, Pending(c)
  PROVE  import = "saved"
BY IdleIsKnown DEF TableInv, ImportKnown, Pending

(***************************************************************************)
(* What the handlers ask for.                                              *)
(***************************************************************************)
LEMMA CardinalityOfFew ==
  ASSUME NEW n \in Nat, NEW i \in NewIds(n)
  PROVE  Cardinality({j \in NewIds(n) : j <= i}) \in 1..n
<1> DEFINE taken == {j \in Ids : rows[j] # NoValue} \cup
                    UNION {DOMAIN request[c].write.rows :
                             c \in {c \in Clients :
                                      request[c].write.kind = "insert_rows"}}
           free  == Ids \ taken
           below == {j \in free : j < i}
           upto  == {j \in NewIds(n) : j <= i}
<1>1. NewIds(n) = {j \in free : Cardinality({k \in free : k < j}) < n}
  BY DEF NewIds
<1> HIDE DEF taken
<1>2. /\ i \in free /\ NewIds(n) \subseteq free
      /\ Cardinality(below) < n
  BY <1>1
<1>3. i \in Nat /\ free \subseteq Nat
  BY <1>2, IdsAssumption
<1>4. IsFiniteSet(below)
  <2>1. below \in SUBSET Nat /\ \A j \in below : j <= i
    BY <1>3
  <2> HIDE DEF below
  <2> QED
    BY <1>3, <2>1, FS_BoundedSetOfNaturals
<1>5. i \notin below
  BY <1>3
<1>6. upto \in SUBSET (below \cup {i}) /\ i \in upto
  BY <1>2, <1>3
<1> HIDE DEF below, upto, free
<1>7. /\ IsFiniteSet(below \cup {i})
      /\ Cardinality(below \cup {i}) = Cardinality(below) + 1
      /\ Cardinality(below) \in Nat
  BY <1>4, <1>5, FS_AddElement, FS_CardinalityType
<1>8. /\ IsFiniteSet(upto)
      /\ Cardinality(upto) <= Cardinality(below \cup {i})
      /\ Cardinality(upto) \in Nat
  BY <1>6, <1>7, FS_Subset, FS_CardinalityType
<1>9. Cardinality(upto) # 0
  BY <1>6, <1>8, FS_EmptySet
<1>10. Cardinality(upto) \in 1..n
  BY <1>2, <1>7, <1>8, <1>9
<1> QED
  BY <1>10 DEF upto

\* New rows take the place of none.
LEMMA NewIdsAreFree ==
  ASSUME NEW n, NEW i \in NewIds(n)
  PROVE  /\ i \in Ids /\ rows[i] = NoValue
         /\ \A c \in Clients : request[c].write.kind = "insert_rows" =>
              i \notin DOMAIN request[c].write.rows
BY DEF NewIds

\* A list that is created as a whole has only items that are fine.
LEMMA CreatedIsFine ==
  ASSUME NEW payloads, DOMAIN payloads \subseteq Nat,
         CreateManyAnswer(payloads) = "201"
  PROVE  \A k \in DOMAIN payloads : CreateVerdict(payloads[k]) = "fine"
<1> DEFINE verdicts == [k \in DOMAIN payloads |-> CreateVerdict(payloads[k])]
<1>1. CreateManyAnswer(payloads) \in
        {"422", IF FirstFailure(verdicts) = "fine" THEN "201"
                ELSE FirstFailure(verdicts)}
  BY DEF CreateManyAnswer
<1>2. /\ DOMAIN verdicts = DOMAIN payloads
      /\ \A k \in DOMAIN verdicts :
           /\ verdicts[k] = CreateVerdict(payloads[k])
           /\ verdicts[k] # "201"
  BY DEF CreateVerdict
<1> HIDE DEF verdicts
<1>3. FirstFailure(verdicts) = "fine"
  BY <1>1, <1>2, FirstFailureDecides
<1> QED
  BY <1>2, <1>3, FirstFailureDecides

\* Client c asks for a write that may be done.
Asks(c, p, write) ==
  /\ Flush(c, p, write)
  /\ WriteKnown(rows, write) /\ FlushedHolds(rows, checkpoints, write)
  /\ \A d \in Clients \ {c} : IdsApart(write, request[d].write)

LEMMA AskedIsPut ==
  ASSUME NEW c \in Clients, NEW p, NEW write, Asks(c, p, write)
  PROVE  \E r : /\ Puts(c, r) /\ r.write = write
                /\ r.phase \in {"answered", "waiting"}
                /\ r.phase = "waiting" <=>
                     Locked(write) \cap LockedByOthers(c) # {}
<1> DEFINE r == [phase |-> IF Locked(write) \cap LockedByOthers(c) = {}
                           THEN "answered" ELSE "waiting",
                 write |-> write, process |-> p]
<1>1. request' = [request EXCEPT ![c] = r]
  BY DEF Asks, Flush
<1>2. /\ r = [phase |-> r.phase, write |-> r.write, process |-> r.process]
      /\ r.write = write /\ r.phase \in {"answered", "waiting"}
      /\ r.phase = "waiting" <=> Locked(write) \cap LockedByOthers(c) # {}
  OBVIOUS
<1> HIDE DEF r
<1>3. RequestKnown(rows, r)
  BY <1>2 DEF RequestKnown, Asks, Phases
<1>4. Puts(c, r)
  BY <1>1, <1>2, <1>3 DEF Puts, Asks
<1> QED
  BY <1>2, <1>4

LEMMA CreateAsks ==
  ASSUME TableInv, NEW c \in Clients, NEW p, NEW payloads \in Creations,
         CreateTransactions(c, p, payloads)
  PROVE  \/ request' = request
         \/ \E write : write.kind = "insert_rows" /\ Asks(c, p, write)
<1> DEFINE new    == NewIds(Len(payloads))
           nth(i) == Cardinality({j \in new : j <= i})
           write  == [kind |-> "insert_rows",
                      rows |-> [i \in new |-> NewRow(payloads[nth(i)])]]
<1>1. CASE CreateManyAnswer(payloads) # "201"
  BY <1>1 DEF CreateTransactions, Refuse
<1>2. CASE CreateManyAnswer(payloads) = "201"
  <2>1. Flush(c, p, write)
    BY <1>2 DEF CreateTransactions
  <2>2. /\ Len(payloads) \in Nat /\ DOMAIN payloads = 1..Len(payloads)
        /\ DOMAIN payloads \subseteq Nat
    BY PayloadsAssumption
  <2>3. /\ write.kind = "insert_rows" /\ DOMAIN write.rows = new
        /\ \A i \in new : write.rows[i] = NewRow(payloads[nth(i)])
    OBVIOUS
  <2>4. \A i \in new : nth(i) \in DOMAIN payloads
    BY <2>2, CardinalityOfFew
  <2> HIDE DEF write, new, nth
  <2>5. ASSUME NEW i \in new
        PROVE  IsRow(write.rows[i]) /\ ~ write.rows[i].imported
    <3> DEFINE payload == payloads[nth(i)]
    <3>1. /\ IsPayload(payload)
          /\ "is_draft" \in DOMAIN payload => payload.is_draft \in BOOLEAN
      BY <2>4, PayloadsAssumption
    <3>2. CreateVerdict(payload) = "fine"
      BY <1>2, <2>2, <2>4, CreatedIsFine
    <3> HIDE DEF payload
    <3>3. IsRow(NewRow(payload)) /\ ~ NewRow(payload).imported
      BY <3>1, <3>2, NewRowIsRow
    <3> QED
      BY <2>3, <3>3 DEF payload
  <2>6. \A i \in new : /\ i \in Ids /\ rows[i] = NoValue
                       /\ \A d \in Clients :
                            request[d].write.kind = "insert_rows" =>
                              i \notin DOMAIN request[d].write.rows
    BY NewIdsAreFree DEF new
  <2>7. WriteKnown(rows, write)
    BY <2>3, <2>5, <2>6 DEF WriteKnown, InsertKnown
  <2>8. FlushedHolds(rows, checkpoints, write)
    BY <2>3 DEF FlushedHolds
  <2>9. \A d \in Clients : IdsApart(write, request[d].write)
    BY <2>3, <2>6 DEF IdsApart
  <2> QED
    BY <2>1, <2>3, <2>7, <2>8, <2>9 DEF Asks
<1> QED
  BY <1>1, <1>2

\* A PATCH of a row asks for its changes, if there are any.
LEMMA UpdateAsks ==
  ASSUME TableInv, NEW c \in Clients, NEW p, NEW i \in Ids,
         NEW payload \in Patches, UpdateTransaction(c, p, i, payload)
  PROVE  LET changes == Changes(rows[i], payload)
             patch   == Prepared(Renamed(payload))
             write   == [kind |-> "set_fields", id |-> i, changes |-> changes]
         IN \/ request' = request /\ told' = told
            \/ /\ i \in Present(rows)
               /\ \/ DOMAIN changes = {} /\ request' = request
                  \/ Asks(c, p, write)
               /\ told' = [told EXCEPT ![i] =
                    IF @ = NoValue \/ TouchedByOthers(c, write) THEN NoValue
                    ELSE Rewrite(@, [f \in Assigned(patch) |-> patch[f]])]
               /\ Rewrite(rows[i], changes)
                    = Rewrite(rows[i], [f \in Assigned(patch) |-> patch[f]])
<1> DEFINE changes == Changes(rows[i], payload)
           patch   == Prepared(Renamed(payload))
           all     == [f \in Assigned(patch) |-> patch[f]]
           write   == [kind |-> "set_fields", id |-> i, changes |-> changes]
<1>1. CASE i \notin Stored \/ PatchAnswer(rows[i], payload) # "200"
  <2>1. request' = request /\ told' = told
    BY <1>1 DEF UpdateTransaction, Refuse
  <2> QED
    BY <2>1
<1>2. CASE i \in Stored /\ PatchAnswer(rows[i], payload) = "200"
  <2>1. i \in Present(rows) /\ IsRow(rows[i]) /\ IsPayload(payload)
    BY <1>2, PayloadsAssumption DEF TableInv, RowsKnown, Stored, Present
  <2>2. /\ IsChange(changes)
        /\ DOMAIN changes \cap Labels # {} =>
             \/ "classification_source" \in DOMAIN changes
             \/ rows[i].classification_source = "user"
        /\ Rewrite(rows[i], changes) = Rewrite(rows[i], all)
    BY <1>2, <2>1, PatchIsChange
  <2>3. told' = [told EXCEPT ![i] =
                   IF @ = NoValue \/ TouchedByOthers(c, write) THEN NoValue
                   ELSE Rewrite(@, all)]
    BY <1>2 DEF UpdateTransaction
  <2>4. IF DOMAIN changes = {} THEN request' = request ELSE Flush(c, p, write)
    BY <1>2 DEF UpdateTransaction, Refuse
  <2>5. /\ write.kind = "set_fields" /\ write.id = i
        /\ write.changes = changes
    OBVIOUS
  <2> HIDE DEF write, changes, all, patch
  <2>6. WriteKnown(rows, write)
    BY <2>1, <2>2, <2>5 DEF WriteKnown, SetKnown, SourceIsTold, Present
  <2>7. FlushedHolds(rows, checkpoints, write)
    BY <2>1, <2>5 DEF FlushedHolds
  <2>8. \A d \in Clients : IdsApart(write, request[d].write)
    BY <2>5 DEF IdsApart
  <2>9. (DOMAIN changes = {} /\ request' = request) \/ Asks(c, p, write)
    BY <2>4, <2>6, <2>7, <2>8 DEF Asks
  <2> QED
    BY <2>1, <2>2, <2>3, <2>9 DEF write, changes, all, patch
<1> QED
  BY <1>1, <1>2

LEMMA DeleteAsks ==
  ASSUME TableInv, NEW c \in Clients, NEW p, NEW i \in Ids,
         DeleteTransaction(c, p, i)
  PROVE  \/ request' = request
         \/ \E write : write.kind = "drop_row" /\ Asks(c, p, write)
<1> DEFINE write == [kind |-> "drop_row", id |-> i]
<1>1. CASE i \notin Stored
  BY <1>1 DEF DeleteTransaction, Refuse
<1>2. CASE i \in Stored
  <2>1. Flush(c, p, write)
    BY <1>2 DEF DeleteTransaction
  <2>2. write.kind = "drop_row" /\ write.id = i
    OBVIOUS
  <2> HIDE DEF write
  <2>3. WriteKnown(rows, write)
    BY <1>2, <2>2 DEF WriteKnown, DropKnown, Stored
  <2>4. /\ FlushedHolds(rows, checkpoints, write)
        /\ \A d \in Clients : IdsApart(write, request[d].write)
    BY <2>2 DEF FlushedHolds, IdsApart
  <2> QED
    BY <2>1, <2>2, <2>3, <2>4 DEF Asks
<1> QED
  BY <1>1, <1>2

LEMMA CreateCheckpointAsks ==
  ASSUME NEW c \in Clients, NEW p, NEW point \in Checkpoints,
         CreateCheckpoint(c, p, point)
  PROVE  \/ request' = request
         \/ \E write : write.kind = "insert_checkpoint" /\ Asks(c, p, write)
<1> DEFINE write == [kind |-> "insert_checkpoint", checkpoint |-> point]
<1>1. CASE \E old \in checkpoints : SameKey(old, point)
  BY <1>1 DEF CreateCheckpoint, Refuse, SameKey
<1>2. CASE ~ \E old \in checkpoints : SameKey(old, point)
  <2>1. Flush(c, p, write)
    BY <1>2 DEF CreateCheckpoint, SameKey
  <2>2. write.kind = "insert_checkpoint" /\ write.checkpoint = point
    OBVIOUS
  <2> HIDE DEF write
  <2>3. WriteKnown(rows, write)
    BY <2>2 DEF WriteKnown, PointKnown
  <2>4. /\ FlushedHolds(rows, checkpoints, write)
        /\ \A d \in Clients : IdsApart(write, request[d].write)
    BY <1>2, <2>2 DEF FlushedHolds, IdsApart
  <2> QED
    BY <2>1, <2>2, <2>3, <2>4 DEF Asks
<1> QED
  BY <1>1, <1>2

LEMMA DeleteCheckpointAsks ==
  ASSUME NEW c \in Clients, NEW p, NEW point \in Checkpoints,
         DeleteCheckpoint(c, p, point)
  PROVE  \/ request' = request
         \/ \E write : write.kind = "drop_checkpoint" /\ Asks(c, p, write)
<1> DEFINE write == [kind |-> "drop_checkpoint", checkpoint |-> point]
<1>1. CASE point \notin checkpoints
  BY <1>1 DEF DeleteCheckpoint, Refuse
<1>2. CASE point \in checkpoints
  <2>1. Flush(c, p, write)
    BY <1>2 DEF DeleteCheckpoint
  <2>2. write.kind = "drop_checkpoint" /\ write.checkpoint = point
    OBVIOUS
  <2> HIDE DEF write
  <2>3. WriteKnown(rows, write)
    BY <2>2 DEF WriteKnown, PointKnown
  <2>4. /\ FlushedHolds(rows, checkpoints, write)
        /\ \A d \in Clients : IdsApart(write, request[d].write)
    BY <2>2 DEF FlushedHolds, IdsApart
  <2> QED
    BY <2>1, <2>2, <2>3, <2>4 DEF Asks
<1> QED
  BY <1>1, <1>2

LEMMA SettingsAsk ==
  ASSUME NEW c \in Clients, NEW p, NEW multiplier \in Multipliers,
         PutSettings(c, p, multiplier)
  PROVE  \/ /\ settings = multiplier /\ request' = request
            /\ toldSettings' \in {NoValue, multiplier}
         \/ /\ settings # multiplier
            /\ \E write :
                 /\ IsOfSettings(write) /\ write.multiplier = multiplier
                 /\ Asks(c, p, write)
                 /\ toldSettings' = IF Locked(write) \cap LockedByOthers(c) # {}
                                    THEN toldSettings ELSE multiplier
<1> DEFINE write == [kind |-> IF settings = NoValue THEN "insert_settings"
                                                    ELSE "set_settings",
                     multiplier |-> multiplier]
<1>1. CASE settings = multiplier
  BY <1>1 DEF PutSettings, Refuse
<1>2. CASE settings # multiplier
  <2>1. Flush(c, p, write)
    BY <1>2 DEF PutSettings
  <2>2. toldSettings' = IF Locked(write) \cap LockedByOthers(c) # {}
                        THEN toldSettings ELSE multiplier
    BY <1>2 DEF PutSettings
  <2>3. IsOfSettings(write) /\ write.multiplier = multiplier
    BY DEF IsOfSettings
  <2> HIDE DEF write
  <2>4. WriteKnown(rows, write)
    BY <2>3 DEF WriteKnown, MultiplierKnown, IsOfSettings
  <2>5. /\ FlushedHolds(rows, checkpoints, write)
        /\ \A d \in Clients : IdsApart(write, request[d].write)
    BY <2>3 DEF FlushedHolds, IdsApart, IsOfSettings
  <2> QED
    BY <1>2, <2>1, <2>2, <2>3, <2>4, <2>5 DEF Asks
<1> QED
  BY <1>1, <1>2

(***************************************************************************)
(* What the other steps do to the requests.                                *)
(***************************************************************************)
LEMMA EndFrees ==
  ASSUME RequestsKnown, NEW c \in Clients, End(c)
  PROVE  Frees({c})
BY DEF RequestsKnown, End, Frees

\* A request that goes on keeps its write.
LEMMA NextPhaseIsKnown ==
  ASSUME RequestsKnown, NEW c \in Clients, Pending(c),
         NEW next \in {"answered", "committing"}
  PROVE  LET r == [request[c] EXCEPT !.phase = next]
         IN /\ RequestKnown(rows, r)
            /\ r.write = request[c].write /\ r.phase = next
            /\ \A d \in Clients \ {c} : IdsApart(r.write, request[d].write)
<1> DEFINE r == [request[c] EXCEPT !.phase = next]
<1>1. /\ RequestKnown(rows, request[c])
      /\ \A d \in Clients \ {c} : IdsApart(request[c].write, request[d].write)
  BY DEF RequestsKnown
<1>2. r = [phase |-> next, write |-> request[c].write,
           process |-> request[c].process]
  BY <1>1 DEF RequestKnown
<1>3. RequestKnown(rows, r)
  BY <1>1, <1>2 DEF RequestKnown, Pending, Phases
<1> QED
  BY <1>1, <1>2, <1>3

\* A flush that has waited goes on, or finds that it is too late.
LEMMA ResumeGoesOn ==
  ASSUME TableInv, NEW c \in Clients, Resume(c)
  PROVE  LET write == request[c].write
         IN /\ request[c].phase = "waiting" /\ import = "saved"
            /\ \/ /\ Frees({c}) /\ toldSettings' = toldSettings
                  /\ write.kind = "set_fields" => write.id \notin Present(rows)
               \/ /\ \E r : Puts(c, r) /\ r.write = write /\ r.phase = "answered"
                  /\ Locked(write) \cap LockedByOthers(c) = {}
                  /\ toldSettings' = IF IsOfSettings(write)
                                     THEN write.multiplier ELSE toldSettings
<1> DEFINE write == request[c].write
           r     == [request[c] EXCEPT !.phase = "answered"]
<1>1. /\ request[c].phase = "waiting" /\ Pending(c)
      /\ Locked(write) \cap LockedByOthers(c) = {}
  BY DEF Resume, Pending
<1>2. RequestsKnown /\ import = "saved"
  BY <1>1, PendingIsSaved DEF TableInv
<1>3. /\ RequestKnown(rows, r)
      /\ r.write = write /\ r.phase = "answered"
      /\ \A d \in Clients \ {c} : IdsApart(r.write, request[d].write)
  BY <1>1, <1>2, NextPhaseIsKnown
<1>4. ASSUME Answer(c), FlushedHolds(rows, checkpoints, write) PROVE Puts(c, r)
  <2>1. request' = [request EXCEPT ![c] = r]
    BY <1>4 DEF Answer
  <2> HIDE DEF r
  <2> QED
    BY <1>1, <1>3, <1>4, <2>1 DEF Puts
<1> HIDE DEF r
<1>5. CASE write.kind = "set_fields"
  <2>1. /\ toldSettings' = toldSettings
        /\ IF write.id \in Stored THEN Answer(c) ELSE End(c)
    BY <1>5 DEF Resume
  <2>2. ~ IsOfSettings(write)
    BY <1>5 DEF IsOfSettings
  <2>3. CASE write.id \in Stored
    <3>1. FlushedHolds(rows, checkpoints, write)
      BY <1>5, <2>3 DEF FlushedHolds, Stored, Present
    <3> QED
      BY <1>1, <1>2, <1>3, <1>4, <2>1, <2>2, <2>3, <3>1
  <2>4. CASE write.id \notin Stored
    BY <1>1, <1>2, <2>1, <2>4, EndFrees DEF Stored, Present
  <2> QED
    BY <2>3, <2>4
<1>6. CASE write.kind = "insert_checkpoint"
  <2>1. toldSettings' = toldSettings /\ ResumeCheckpoint(c, write)
    BY <1>6 DEF Resume
  <2>2. ~ IsOfSettings(write)
    BY <1>6 DEF IsOfSettings
  <2>3. Record(write) = <<"checkpoint", write.checkpoint.date,
                          write.checkpoint.currency>>
    BY <1>6 DEF Record
  <2>4. CASE \E old \in checkpoints : SameKey(old, write.checkpoint)
    <3>1. End(c)
      BY <2>1, <2>3, <2>4 DEF ResumeCheckpoint, SameKey
    <3> QED
      BY <1>1, <1>2, <1>6, <2>1, <3>1, EndFrees
  <2>5. CASE ~ \E old \in checkpoints : SameKey(old, write.checkpoint)
    <3>1. Answer(c)
      BY <2>1, <2>3, <2>5 DEF ResumeCheckpoint, SameKey
    <3>2. FlushedHolds(rows, checkpoints, write)
      BY <1>6, <2>5 DEF FlushedHolds
    <3> QED
      BY <1>1, <1>2, <1>3, <1>4, <2>1, <2>2, <3>1, <3>2
  <2> QED
    BY <2>4, <2>5
<1>7. CASE IsOfSettings(write)
  <2>1. ResumeSettings(c, write)
    BY <1>7 DEF Resume, IsOfSettings
  <2>2. \/ End(c) /\ toldSettings' = toldSettings
        \/ Answer(c) /\ toldSettings' = write.multiplier
    BY <2>1 DEF ResumeSettings
  <2>3. /\ FlushedHolds(rows, checkpoints, write)
        /\ write.kind # "set_fields"
    BY <1>7 DEF FlushedHolds, IsOfSettings
  <2> QED
    BY <1>1, <1>2, <1>3, <1>4, <1>7, <2>2, <2>3, EndFrees
<1> QED
  BY <1>5, <1>6, <1>7 DEF Resume, IsOfSettings

LEMMA StartCommitPuts ==
  ASSUME TableInv, LockInv, NEW c \in Clients, StartCommit(c)
  PROVE  /\ HasFlushed(c) /\ import = "saved"
         /\ \E r : /\ Puts(c, r) /\ r.write = request[c].write
                   /\ r.phase = "committing"
<1> DEFINE write == request[c].write
           r     == [request[c] EXCEPT !.phase = "committing"]
<1>1. request[c].phase = "answered" /\ Pending(c) /\ HasFlushed(c)
  BY DEF StartCommit, Pending, HasFlushed
<1>2. RequestsKnown /\ import = "saved"
  BY <1>1, PendingIsSaved DEF TableInv
<1>3. /\ RequestKnown(rows, r)
      /\ r.write = write /\ r.phase = "committing"
      /\ \A d \in Clients \ {c} : IdsApart(r.write, request[d].write)
  BY <1>1, <1>2, NextPhaseIsKnown
<1>4. request' = [request EXCEPT ![c] = r]
  BY DEF StartCommit
<1> HIDE DEF r
<1>5. FlushedHolds(rows, checkpoints, write)
  BY <1>1 DEF LockInv
<1>6. Locked(write) \cap LockedByOthers(c) = {}
  <2>1. \A d \in Clients \ {c} : HasFlushed(d) =>
          Locked(write) \cap Locked(request[d].write) = {}
    BY <1>1 DEF LockInv, LocksExclude
  <2> QED
    BY <2>1 DEF LockedByOthers
<1>7. Puts(c, r)
  BY <1>3, <1>4, <1>5, <1>6 DEF Puts
<1> QED
  BY <1>1, <1>2, <1>3, <1>7

\* A commit that fails and a process that restarts lose requests.
Loses(ended) ==
  /\ Frees(ended) /\ Forget({request[c].write : c \in ended})
  /\ ended \subseteq Clients /\ import = "saved"
  /\ UNCHANGED <<call, import, tables, requests>>
  /\ faults' \in 0..MaxFaults

LEMMA FaultsLose ==
  ASSUME TableInv,
         \/ \E c \in Clients : CommitFails(c)
         \/ \E p \in Processes : Restart(p)
  PROVE  \E ended : Loses(ended)
<1>1. RequestsKnown /\ faults \in 0..MaxFaults
  BY DEF TableInv, BoundsKnown
<1>2. ASSUME NEW c \in Clients, CommitFails(c) PROVE Loses({c})
  <2>1. Pending(c) /\ End(c) /\ faults < MaxFaults /\ faults' = faults + 1
    BY <1>2 DEF CommitFails, Pending
  <2>2. import = "saved" /\ Frees({c})
    BY <1>1, <2>1, PendingIsSaved, EndFrees
  <2>3. Forget({request[d].write : d \in {c}})
    <3>1. {request[d].write : d \in {c}} = {request[c].write}
      OBVIOUS
    <3> QED
      BY <1>2, <3>1 DEF CommitFails
  <2>4. faults' \in 0..MaxFaults
    BY <1>1, <2>1, BoundsAssumption
  <2>5. UNCHANGED <<call, import, tables, requests>>
    BY <1>2 DEF CommitFails
  <2> QED
    BY <2>2, <2>3, <2>4, <2>5 DEF Loses
<1>3. ASSUME NEW p \in Processes, Restart(p)
      PROVE  \E ended : Loses(ended)
  <2> DEFINE ended == {c \in Clients : Pending(c) /\ request[c].process = p}
  <2>1. /\ ended # {} /\ faults < MaxFaults /\ faults' = faults + 1
        /\ Forget({request[c].write : c \in ended})
        /\ Frees(ended)
        /\ UNCHANGED <<call, import, tables, requests>>
    BY <1>3 DEF Restart, Frees
  <2>2. PICK c \in Clients : Pending(c)
    BY <2>1
  <2>3. import = "saved"
    BY <2>2, PendingIsSaved
  <2>4. faults' \in 0..MaxFaults
    BY <1>1, <2>1, BoundsAssumption
  <2>5. Loses(ended)
    BY <2>1, <2>3, <2>4 DEF Loses
  <2> QED
    BY <2>5
<1> QED
  BY <1>2, <1>3

\* What a commit may do.
LEMMA CommitIsKnown ==
  ASSUME TableInv, LockInv, NEW c \in Clients, Commit(c)
  PROVE  /\ Frees({c}) /\ Apply(request[c].write)
         /\ HasFlushed(c) /\ import = "saved"
         /\ WriteKnown(rows, request[c].write)
         /\ FlushedHolds(rows, checkpoints, request[c].write)
         /\ UNCHANGED <<call, import, toldSettings, bounds>>
         /\ told' = IF request[c].write.kind = "insert_rows"
                    THEN Completed(request[c].write.rows, told) ELSE told
<1>1. /\ request[c].phase = "committing" /\ Pending(c) /\ HasFlushed(c)
      /\ End(c) /\ Apply(request[c].write)
      /\ UNCHANGED <<call, import, toldSettings, bounds>>
      /\ told' = IF request[c].write.kind = "insert_rows"
                 THEN Completed(request[c].write.rows, told) ELSE told
  BY DEF Commit, Pending, HasFlushed
<1>2. RequestsKnown
  BY DEF TableInv
<1>3. WriteKnown(rows, request[c].write)
  BY <1>1, <1>2 DEF RequestsKnown, RequestKnown
<1>4. FlushedHolds(rows, checkpoints, request[c].write)
  BY <1>1 DEF LockInv
<1> QED
  BY <1>1, <1>2, <1>3, <1>4, EndFrees, PendingIsSaved

(***************************************************************************)
(* What a commit does to the rows.                                         *)
(***************************************************************************)

\* The row of an id stays, comes, is changed or goes.
Stays(i)        == rows'[i] = rows[i]
Comes(write, i) == /\ write.kind = "insert_rows" /\ i \in DOMAIN write.rows
                   /\ rows[i] = NoValue /\ rows'[i] = write.rows[i]
Changed(write, i) == /\ Sets(write, i) /\ i \in Present(rows)
                     /\ rows'[i] = Rewrite(rows[i], write.changes)
Goes(write, i)  == /\ write.kind = "drop_row" /\ write.id = i
                   /\ rows[i] # NoValue /\ rows'[i] = Gone

LEMMA AppliedRows ==
  ASSUME RowsKnown, NEW write, WriteKnown(rows, write),
         FlushedHolds(rows, checkpoints, write), Apply(write)
  PROVE  /\ rows' = [i \in Ids |-> rows'[i]]
         /\ \A i \in Ids : \/ Stays(i) \/ Comes(write, i)
                           \/ Changed(write, i) \/ Goes(write, i)
         /\ write.kind = "insert_rows" =>
              \A i \in Ids : rows'[i] = IF i \in DOMAIN write.rows
                                        THEN write.rows[i] ELSE rows[i]
         /\ write.kind = "set_fields" =>
              rows'[write.id] = Rewrite(rows[write.id], write.changes)
<1>1. CASE write.kind = "insert_rows"
  <2>1. \A i \in DOMAIN write.rows : i \in Ids /\ rows[i] = NoValue
    BY <1>1 DEF WriteKnown, InsertKnown, SetKnown, DropKnown, PointKnown,
                MultiplierKnown
  <2>2. rows' = Completed(write.rows, rows)
    BY <1>1 DEF Apply
  <2>3. rows' = [i \in Ids |-> IF i \in DOMAIN write.rows THEN write.rows[i]
                                                          ELSE rows[i]]
    BY <2>1, <2>2 DEF Completed, RowsKnown
  <2> QED
    BY <1>1, <2>1, <2>3 DEF Stays, Comes
<1>2. CASE write.kind = "set_fields"
  <2>1. write.id \in Present(rows)
    BY <1>2 DEF FlushedHolds
  <2>2. rows' = [rows EXCEPT ![write.id] = Rewrite(@, write.changes)]
    BY <1>2 DEF Apply
  <2>3. rows' = [i \in Ids |-> IF i = write.id
                               THEN Rewrite(rows[i], write.changes) ELSE rows[i]]
    BY <2>2 DEF RowsKnown
  <2> QED
    BY <1>2, <2>1, <2>3 DEF Stays, Changed, Sets, Present
<1>3. CASE write.kind = "drop_row"
  <2>1. write.id \in Ids /\ rows[write.id] # NoValue
    BY <1>3 DEF WriteKnown, InsertKnown, SetKnown, DropKnown, PointKnown,
                MultiplierKnown
  <2>2. rows' = [rows EXCEPT ![write.id] = Gone]
    BY <1>3 DEF Apply
  <2>3. rows' = [i \in Ids |-> IF i = write.id THEN Gone ELSE rows[i]]
    BY <2>2 DEF RowsKnown
  <2> QED
    BY <1>3, <2>1, <2>3 DEF Stays, Goes
<1>4. CASE write.kind \notin {"insert_rows", "set_fields", "drop_row"}
  <2>1. rows' = rows
    BY <1>4 DEF Apply
  <2> QED
    BY <1>4, <2>1 DEF Stays, RowsKnown
<1> QED
  BY <1>1, <1>2, <1>3, <1>4

\* An absent row is none of the rows, nor is a deleted one.
LEMMA RowsComeAsRows ==
  ASSUME RowsKnown, NEW write, WriteKnown(rows, write), NEW i \in Ids
  PROVE  /\ Comes(write, i) => /\ IsRow(rows'[i]) /\ ~ rows'[i].imported
                               /\ rows'[i] \notin {NoValue, Gone}
         /\ Changed(write, i) =>
              /\ IsRow(rows[i]) /\ IsRow(rows'[i])
              /\ rows'[i] \notin {NoValue, Gone}
              /\ IsChange(write.changes) /\ SourceIsTold(rows, write)
              /\ write.id = i /\ i \in Present(rows)
              /\ rows'[i].imported = rows[i].imported
              /\ \A f \in Fields : rows'[i][f] =
                   IF f \in DOMAIN write.changes THEN write.changes[f]
                   ELSE rows[i][f]
<1>1. ASSUME Comes(write, i)
      PROVE  /\ IsRow(rows'[i]) /\ ~ rows'[i].imported
             /\ rows'[i] \notin {NoValue, Gone}
  <2>1. InsertKnown(rows, write)
    BY <1>1 DEF Comes, WriteKnown, SetKnown, DropKnown, PointKnown,
                MultiplierKnown
  <2>2. IsRow(rows'[i]) /\ ~ rows'[i].imported
    BY <1>1, <2>1 DEF Comes, InsertKnown
  <2> QED
    BY <2>2, RowsAreStorable
<1>2. ASSUME Changed(write, i)
      PROVE  /\ IsRow(rows[i]) /\ IsRow(rows'[i])
             /\ rows'[i] \notin {NoValue, Gone}
             /\ IsChange(write.changes) /\ SourceIsTold(rows, write)
             /\ write.id = i /\ i \in Present(rows)
             /\ rows'[i].imported = rows[i].imported
             /\ \A f \in Fields : rows'[i][f] =
                  IF f \in DOMAIN write.changes THEN write.changes[f]
                  ELSE rows[i][f]
  <2>1. SetKnown(rows, write)
    BY <1>2 DEF Changed, Sets, WriteKnown, InsertKnown, DropKnown, PointKnown,
                MultiplierKnown
  <2>2. /\ IsRow(rows[i]) /\ IsChange(write.changes) /\ SourceIsTold(rows, write)
        /\ write.id = i /\ i \in Present(rows)
        /\ rows'[i] = Rewrite(rows[i], write.changes)
    BY <1>2, <2>1 DEF Changed, Sets, SetKnown, RowsKnown
  <2>3. /\ IsRow(rows'[i])
        /\ rows'[i].imported = rows[i].imported
        /\ \A f \in Fields : rows'[i][f] =
             IF f \in DOMAIN write.changes THEN write.changes[f]
             ELSE rows[i][f]
    BY <2>2, RewriteIsRow
  <2> QED
    BY <2>2, <2>3, RowsAreStorable
<1> QED
  BY <1>1, <1>2

LEMMA CommitKeepsRows ==
  ASSUME TableInv, NEW write, WriteKnown(rows, write),
         FlushedHolds(rows, checkpoints, write), Apply(write),
         UNCHANGED <<import, result>>, import = "saved"
  PROVE  /\ RowsKnown' /\ SettingsKnown' /\ AgentLabelsAreTheAgents'
         /\ \A i \in Ids : /\ rows[i] # NoValue => rows'[i] # NoValue
                           /\ rows[i] = Gone => rows'[i] = Gone
<1>1. RowsKnown /\ SettingsKnown
  BY DEF TableInv
<1>2. /\ rows' = [i \in Ids |-> rows'[i]]
      /\ \A i \in Ids : \/ Stays(i) \/ Comes(write, i)
                        \/ Changed(write, i) \/ Goes(write, i)
  BY <1>1, AppliedRows
<1>3. RowsKnown'
  <2>1. ASSUME NEW i \in Ids, rows'[i] \notin {NoValue, Gone}
        PROVE  IsRow(rows'[i])
    <3>1. CASE Stays(i)
      BY <1>1, <2>1, <3>1 DEF Stays, RowsKnown, Present
    <3>2. CASE Comes(write, i) \/ Changed(write, i)
      BY <1>1, <3>2, RowsComeAsRows
    <3>3. CASE Goes(write, i)
      BY <2>1, <3>3 DEF Goes
    <3> QED
      BY <1>2, <3>1, <3>2, <3>3
  <2> QED
    BY <1>2, <2>1 DEF RowsKnown, Present
<1>4. SettingsKnown'
  BY <1>1 DEF Apply, SettingsKnown, WriteKnown, InsertKnown, SetKnown, DropKnown,
              PointKnown, MultiplierKnown
<1>5. ASSUME NEW i \in Ids, rows'[i] \notin {NoValue, Gone},
             rows'[i].imported, rows'[i].classification_source = "agent"
      PROVE  /\ rows'[i].report_bucket = AgentRows[i].report_bucket
             /\ rows'[i].transaction_nature = AgentRows[i].transaction_nature
  <2>1. CASE Stays(i)
    BY <1>5, <2>1 DEF Stays, TableInv, AgentLabelsAreTheAgents, Stored
  <2>2. CASE Comes(write, i)
    BY <1>1, <1>5, <2>2, RowsComeAsRows
  <2>3. CASE Changed(write, i)
    <3>1. /\ IsRow(rows[i]) /\ IsRow(rows'[i])
          /\ IsChange(write.changes) /\ SourceIsTold(rows, write)
          /\ write.id = i /\ i \in Present(rows)
          /\ rows'[i].imported = rows[i].imported
          /\ \A f \in Fields : rows'[i][f] =
               IF f \in DOMAIN write.changes THEN write.changes[f] ELSE rows[i][f]
      BY <1>1, <2>3, RowsComeAsRows
    <3>2. /\ "classification_source" \notin DOMAIN write.changes
          /\ rows[i].classification_source = "agent"
      BY <1>5, <3>1 DEF IsChange, Fields
    <3>3. DOMAIN write.changes \cap Labels = {}
      BY <3>1, <3>2 DEF SourceIsTold
    <3>4. /\ rows'[i].report_bucket = rows[i].report_bucket
          /\ rows'[i].transaction_nature = rows[i].transaction_nature
      BY <3>1, <3>3 DEF Labels, Fields
    <3>5. i \in Stored /\ rows[i].imported
      BY <1>5, <3>1 DEF Present, Stored
    <3> QED
      BY <3>2, <3>4, <3>5 DEF TableInv, AgentLabelsAreTheAgents
  <2>4. CASE Goes(write, i)
    BY <1>5, <2>4 DEF Goes
  <2> QED
    BY <1>2, <2>1, <2>2, <2>3, <2>4
<1>6. AgentRows' = AgentRows
  BY DEF AgentRows
<1>7. AgentLabelsAreTheAgents'
  BY <1>5, <1>6 DEF AgentLabelsAreTheAgents, Stored
<1>8. ASSUME NEW i \in Ids
      PROVE  /\ rows[i] # NoValue => rows'[i] # NoValue
             /\ rows[i] = Gone => rows'[i] = Gone
  <2>1. CASE Stays(i)
    BY <2>1 DEF Stays
  <2>2. CASE Comes(write, i)
    BY <2>2, RowsAssumption DEF Comes
  <2>3. CASE Changed(write, i)
    BY <1>1, <2>3, RowsComeAsRows DEF Present
  <2>4. CASE Goes(write, i)
    BY <2>4, RowsAssumption DEF Goes
  <2> QED
    BY <1>2, <2>1, <2>2, <2>3, <2>4
<1> QED
  BY <1>3, <1>4, <1>7, <1>8

\* Whoever else has asked for something may still do it.
LEMMA CommitKeepsOthers ==
  ASSUME TableInv, NEW write, WriteKnown(rows, write),
         FlushedHolds(rows, checkpoints, write), Apply(write),
         UNCHANGED <<import, result>>, import = "saved",
         NEW other, WriteKnown(rows, other), IdsApart(write, other)
  PROVE  WriteKnown(rows', other)
<1>1. RowsKnown
  BY DEF TableInv
<1>2. /\ \A i \in Ids : \/ Stays(i) \/ Comes(write, i)
                        \/ Changed(write, i) \/ Goes(write, i)
  BY <1>1, AppliedRows
<1>3. \A i \in Ids : /\ rows[i] # NoValue => rows'[i] # NoValue
                     /\ rows[i] = Gone => rows'[i] = Gone
  BY CommitKeepsRows
<1>4. CASE InsertKnown(rows, other)
  <2>1. ASSUME NEW i \in DOMAIN other.rows PROVE rows'[i] = NoValue
    <3>1. i \in Ids /\ rows[i] = NoValue
      BY <1>4, <2>1 DEF InsertKnown
    <3>2. ~ Comes(write, i)
      BY <1>4, <2>1 DEF Comes, InsertKnown, IdsApart
    <3>3. ~ Changed(write, i) /\ ~ Goes(write, i)
      BY <3>1 DEF Changed, Goes, Present
    <3> QED
      BY <1>2, <3>1, <3>2, <3>3 DEF Stays
  <2> QED
    BY <1>4, <2>1 DEF WriteKnown, InsertKnown
<1>5. CASE SetKnown(rows, other)
  <2> DEFINE i == other.id
  <2>1. i \in Ids /\ rows'[i] # NoValue /\ rows[i] # NoValue
    BY <1>3, <1>5 DEF SetKnown
  <2>2. ASSUME DOMAIN other.changes \cap Labels # {},
               "classification_source" \notin DOMAIN other.changes,
               i \in Present(rows')
        PROVE  rows'[i]["classification_source"] = "user"
    <3>1. i \in Present(rows)
      BY <1>3, <2>1, <2>2 DEF Present
    <3>2. rows[i]["classification_source"] = "user"
      BY <1>5, <2>2, <3>1 DEF SetKnown, SourceIsTold
    <3>3. CASE Stays(i)
      BY <3>2, <3>3 DEF Stays
    <3>4. CASE Comes(write, i)
      BY <2>1, <3>4 DEF Comes
    <3>5. CASE Changed(write, i)
      <4>1. /\ IsChange(write.changes)
            /\ rows'[i]["classification_source"] =
                 IF "classification_source" \in DOMAIN write.changes
                 THEN write.changes["classification_source"]
                 ELSE rows[i]["classification_source"]
        BY <1>1, <2>1, <3>5, RowsComeAsRows DEF Fields
      <4> QED
        BY <3>2, <4>1 DEF IsChange
    <3>6. CASE Goes(write, i)
      BY <2>2, <3>6 DEF Goes, Present
    <3> QED
      BY <1>2, <2>1, <3>3, <3>4, <3>5, <3>6
  <2>3. SourceIsTold(rows', other)
    BY <2>2 DEF SourceIsTold
  <2> QED
    BY <1>5, <2>1, <2>3 DEF WriteKnown, SetKnown
<1>6. CASE DropKnown(rows, other)
  BY <1>3, <1>6 DEF WriteKnown, DropKnown
<1>7. CASE PointKnown(other) \/ MultiplierKnown(other)
  BY <1>7 DEF WriteKnown
<1> QED
  BY <1>4, <1>5, <1>6, <1>7 DEF WriteKnown

\* How an import ends: by a verdict on the call, or on its answer.
LEMMA ImportEnds ==
  ASSUME CallInv, EndImport
  PROVE  \/ /\ result.status = "none" /\ import' = "retry"
            /\ UNCHANGED <<rows, told>>
         \/ /\ import' = "rejected" /\ UNCHANGED <<rows, told>>
         \/ /\ result.status = "success"
            /\ ParseVerdict(Answers[result.data]) = "fine" /\ SaveImport
         \/ /\ result.status = "success"
            /\ ParseVerdict(Answers[result.data]) \notin {"fine", "rejected"}
            /\ import' = "retry" /\ UNCHANGED <<rows, told>>
<1> DEFINE verdict == CASE phase = "raised"            -> "broken"
                        [] result.status = "error"     -> "rejected"
                        [] result.status = "success"   ->
                             ParseVerdict(Answers[result.data])
<1>1. \/ verdict = "fine" /\ SaveImport
      \/ /\ verdict # "fine" /\ UNCHANGED <<rows, told>>
         /\ import' = IF verdict = "rejected" THEN "rejected" ELSE "retry"
  BY DEF EndImport
<1>2. CASE phase = "raised"
  <2>1. result.status = "none"
    BY <1>2 DEF CallInv
  <2>2. verdict = "broken"
    BY <1>2, <2>1
  <2> HIDE DEF verdict
  <2> QED
    BY <1>1, <2>1, <2>2
<1>3. CASE phase = "returned" /\ result.status = "error"
  <2>1. verdict = "rejected"
    BY <1>3
  <2> HIDE DEF verdict
  <2> QED
    BY <1>1, <2>1
<1>4. CASE phase = "returned" /\ result.status = "success"
  <2>1. verdict = ParseVerdict(Answers[result.data])
    BY <1>4
  <2> HIDE DEF verdict
  <2> QED
    BY <1>1, <1>4, <2>1
<1>5. phase \in {"raised", "returned"}
  BY DEF EndImport, Over
<1> QED
  BY <1>2, <1>3, <1>4, <1>5 DEF CallInv

(***************************************************************************)
(* The invariants of the tables and the locks are inductive.               *)
(***************************************************************************)
LEMMA CommitKeepsTable ==
  ASSUME TableInv, LockInv, NEW c \in Clients, Commit(c)
  PROVE  TableInv' /\ LockInv'
<1> DEFINE write == request[c].write
<1>1. /\ Frees({c}) /\ Apply(write) /\ HasFlushed(c) /\ import = "saved"
      /\ WriteKnown(rows, write) /\ FlushedHolds(rows, checkpoints, write)
      /\ UNCHANGED <<call, import, toldSettings, bounds>>
  BY CommitIsKnown
<1>2. UNCHANGED <<import, result>> /\ UNCHANGED bounds
  BY <1>1 DEF call
<1>3. /\ request' = [d \in Clients |-> request'[d]]
      /\ request'[c] = Idle
      /\ \A d \in Clients \ {c} : request'[d] = request[d]
  BY <1>1 DEF Frees
<1>4. RequestsKnown /\ RowsKnown
  BY DEF TableInv
<1>5. /\ RowsKnown' /\ SettingsKnown' /\ AgentLabelsAreTheAgents'
  BY <1>1, <1>2, CommitKeepsRows
<1>6. RequestsKnown'
  <2>1. ASSUME NEW d \in Clients PROVE RequestKnown(rows', request'[d])
    <3>1. CASE d = c
      BY <1>3, <3>1, IdleIsKnown
    <3>2. CASE d # c
      <4>1. RequestKnown(rows, request[d]) /\ request'[d] = request[d]
        BY <1>3, <1>4, <3>2 DEF RequestsKnown
      <4>2. IdsApart(write, request[d].write)
        BY <1>4, <3>2 DEF RequestsKnown
      <4>3. WriteKnown(rows, request[d].write) =>
              WriteKnown(rows', request[d].write)
        BY <1>1, <1>2, <4>2, CommitKeepsOthers
      <4> QED
        BY <4>1, <4>3 DEF RequestKnown
    <3> QED
      BY <3>1, <3>2
  <2>2. ASSUME NEW d \in Clients, NEW e \in Clients, d # e
        PROVE  IdsApart(request'[d].write, request'[e].write)
    <3>1. CASE d = c \/ e = c
      BY <1>3, <3>1, IdleIsKnown
    <3>2. CASE d # c /\ e # c
      BY <1>3, <1>4, <2>2, <3>2 DEF RequestsKnown
    <3> QED
      BY <3>1, <3>2
  <2> QED
    BY <1>3, <2>1, <2>2 DEF RequestsKnown
<1>7. \A d \in Clients : HasFlushed(d)' => /\ d # c /\ HasFlushed(d)
                                           /\ request'[d] = request[d]
  BY <1>3, IdleIsKnown DEF HasFlushed
<1>8. ASSUME NEW d \in Clients \ {c}, HasFlushed(d)
      PROVE  /\ Locked(write) \cap Locked(request[d].write) = {}
             /\ Record(write) \notin Locked(request[d].write)
  <2>1. Locked(write) \cap Locked(request[d].write) = {}
    BY <1>1, <1>8 DEF LockInv, LocksExclude
  <2>2. Record(write) \notin Locked(request[d].write)
    BY <1>8, LockedByOthersIs DEF Commit
  <2> QED
    BY <2>1, <2>2
<1>9. LocksExclude'
  BY <1>7 DEF LockInv, LocksExclude
<1>10. ASSUME NEW d \in Clients \ {c}, HasFlushed(d)
       PROVE  FlushedHolds(rows', checkpoints', request[d].write)
  <2> DEFINE other == request[d].write
  <2>1. FlushedHolds(rows, checkpoints, other)
    BY <1>10 DEF LockInv
  <2>2. ASSUME other.kind = "set_fields" PROVE other.id \in Present(rows')
    <3> DEFINE i == other.id
    <3>1. i \in Present(rows) /\ i \in Ids
      BY <2>1, <2>2 DEF FlushedHolds, Present
    <3>2. \/ Stays(i) \/ Comes(write, i) \/ Changed(write, i) \/ Goes(write, i)
      BY <1>1, <1>4, <3>1, AppliedRows
    <3>3. ~ Goes(write, i)
      BY <1>8, <1>10, <2>2 DEF Goes, Locked, Record
    <3> QED
      BY <1>1, <1>4, <3>1, <3>2, <3>3, RowsComeAsRows DEF Stays, Present
  <2>3. ASSUME other.kind = "insert_checkpoint",
               NEW old \in checkpoints', SameKey(old, other.checkpoint)
        PROVE  FALSE
    <3>1. old \notin checkpoints
      BY <2>1, <2>3 DEF FlushedHolds
    <3>2. write.kind = "insert_checkpoint" /\ old = write.checkpoint
      BY <1>1, <2>3, <3>1 DEF Apply
    <3> QED
      BY <1>8, <1>10, <2>3, <3>2 DEF Locked, Record, SameKey
  <2> QED
    BY <2>2, <2>3 DEF FlushedHolds
<1>11. checkpoints' \subseteq Checkpoints
  BY <1>1 DEF LockInv, Apply, WriteKnown, InsertKnown, SetKnown, DropKnown,
              PointKnown, MultiplierKnown
<1>12. \A a, b \in checkpoints' : SameKey(a, b) => a = b
  <2>1. \A a, b \in checkpoints : SameKey(a, b) => a = b
    BY DEF LockInv
  <2>2. CASE write.kind = "insert_checkpoint"
    <3>1. /\ checkpoints' = checkpoints \cup {write.checkpoint}
          /\ \A old \in checkpoints : ~ SameKey(old, write.checkpoint)
      BY <1>1, <2>2 DEF Apply, FlushedHolds
    <3>2. \A old \in checkpoints : ~ SameKey(write.checkpoint, old)
      BY <3>1 DEF SameKey
    <3> QED
      BY <2>1, <3>1, <3>2
  <2>3. CASE write.kind # "insert_checkpoint"
    <3>1. checkpoints' \subseteq checkpoints
      BY <1>1, <2>3 DEF Apply
    <3> QED
      BY <2>1, <3>1
  <2> QED
    BY <2>2, <2>3
<1>13. LockInv'
  BY <1>7, <1>9, <1>10, <1>11, <1>12 DEF LockInv
<1>14. ImportKnown' /\ BoundsKnown'
  BY <1>1, <1>2 DEF TableInv, ImportKnown, BoundsKnown, bounds
<1> QED
  BY <1>5, <1>6, <1>13, <1>14 DEF TableInv

\* A handler asks for at most one thing.
LEMMA HandleAsks ==
  ASSUME TableInv, NEW c \in Clients, NEW p \in Processes, Handle(c, p)
  PROVE  /\ Handles(c, p)
         /\ \/ request' = request
            \/ \E write : Asks(c, p, write)
<1>1. Handles(c, p)
  BY DEF Handle, CreateTransactions, UpdateTransaction, DeleteTransaction,
         PutSettings, CreateCheckpoint, DeleteCheckpoint
<1>2. ASSUME NEW payloads \in Creations, CreateTransactions(c, p, payloads)
      PROVE  request' = request \/ \E write : Asks(c, p, write)
  BY <1>2, CreateAsks
<1>3. ASSUME NEW i \in Ids, NEW payload \in Patches,
             UpdateTransaction(c, p, i, payload)
      PROVE  request' = request \/ \E write : Asks(c, p, write)
  BY <1>3, UpdateAsks
<1>4. ASSUME NEW i \in Ids, DeleteTransaction(c, p, i)
      PROVE  request' = request \/ \E write : Asks(c, p, write)
  BY <1>4, DeleteAsks
<1>5. ASSUME NEW multiplier \in Multipliers, PutSettings(c, p, multiplier)
      PROVE  request' = request \/ \E write : Asks(c, p, write)
  BY <1>5, SettingsAsk
<1>6. ASSUME NEW point \in Checkpoints, CreateCheckpoint(c, p, point)
      PROVE  request' = request \/ \E write : Asks(c, p, write)
  BY <1>6, CreateCheckpointAsks
<1>7. ASSUME NEW point \in Checkpoints, DeleteCheckpoint(c, p, point)
      PROVE  request' = request \/ \E write : Asks(c, p, write)
  BY <1>7, DeleteCheckpointAsks
<1> QED
  BY <1>1, <1>2, <1>3, <1>4, <1>5, <1>6, <1>7 DEF Handle

LEMMA RequestsUnchangedKeep ==
  ASSUME TableInv, LockInv, UNCHANGED <<request, import, result>>,
         UNCHANGED tables, import = "saved"
  PROVE  RequestsKnown' /\ LockInv'
BY DEF TableInv, RequestsKnown, LockInv, LocksExclude, HasFlushed, tables

LEMMA EndImportKeepsTable ==
  ASSUME CallInv, TableInv, LockInv, EndImport
  PROVE  TableInv' /\ LockInv'
<1>1. /\ import = "calling" /\ request' = request
      /\ checkpoints' = checkpoints /\ settings' = settings /\ result' = result
      /\ UNCHANGED bounds
  BY DEF EndImport
<1>2. /\ \A i \in Ids : rows[i] = NoValue
      /\ \A c \in Clients : request[c] = Idle
      /\ RequestsKnown /\ RowsKnown
  BY <1>1 DEF TableInv, ImportKnown
<1>3. \/ /\ import' = "saved" /\ result.status = "success"
         /\ ParseVerdict(Answers[result.data]) = "fine" /\ SaveImport
      \/ import' \in {"rejected", "retry"} /\ rows' = rows
  BY ImportEnds DEF SaveImport
<1>4. /\ rows' = [i \in Ids |-> rows'[i]]
      /\ \A i \in Ids : rows'[i] # NoValue =>
           /\ import' = "saved" /\ IsRow(rows'[i])
           /\ rows'[i] = MapAnswer(Answers[result.data])[i]
  <2>1. CASE rows' = rows
    BY <1>2, <2>1 DEF RowsKnown
  <2>2. CASE import' = "saved" /\ rows' # rows
    <3> DEFINE parsed == MapAnswer(Answers[result.data])
    <3>1. /\ ParseVerdict(Answers[result.data]) = "fine"
          /\ rows' = [i \in Ids |-> IF i \in DOMAIN parsed THEN parsed[i]
                                                           ELSE rows[i]]
      BY <1>3, <2>2 DEF SaveImport
    <3>2. result.data \in Objects \cup {Fragment}
      BY <1>3, <2>2 DEF CallInv
    <3>3. \A k \in DOMAIN parsed : IsRow(parsed[k])
      <4>1. \A k \in DOMAIN parsed : HasWidths(parsed[k])
        BY <1>3, <2>2 DEF SaveImport, Storable
      <4> QED
        BY <3>1, <3>2, <4>1, AcceptedAnswerIsRows
    <3> HIDE DEF parsed
    <3>4. \A i \in Ids : rows'[i] # NoValue => i \in DOMAIN parsed
                                               /\ rows'[i] = parsed[i]
      BY <1>2, <3>1
    <3> QED
      BY <2>2, <3>1, <3>3, <3>4 DEF parsed
  <2>3. CASE import' # "saved" /\ rows' # rows
    BY <1>3, <2>3
  <2> QED
    BY <2>1, <2>2, <2>3
<1>5. RowsKnown'
  BY <1>4 DEF RowsKnown, Present
<1>6. ImportKnown'
  <2>1. import' \in {"calling", "saved", "rejected", "retry"}
    BY <1>3
  <2>2. import' # "saved" => \A i \in Ids : rows'[i] = NoValue
    BY <1>4
  <2>3. \A c \in Clients : request'[c] = Idle
    BY <1>1, <1>2
  <2> QED
    BY <2>1, <2>2, <2>3 DEF ImportKnown
<1>7. RequestsKnown'
  <2>1. \A c \in Clients : request'[c] = Idle
    BY <1>1, <1>2
  <2>2. request' = [c \in Clients |-> request'[c]]
    BY <1>1, <1>2 DEF RequestsKnown
  <2>3. \A c \in Clients : RequestKnown(rows', request'[c])
    BY <2>1, IdleIsKnown
  <2>4. \A c, d \in Clients : IdsApart(request'[c].write, request'[d].write)
    BY <2>1, IdleIsKnown
  <2> QED
    BY <2>2, <2>3, <2>4 DEF RequestsKnown
<1>8. AgentLabelsAreTheAgents'
  <2>1. \A i \in Stored' : /\ import' = "saved"
                           /\ rows'[i] = MapAnswer(Answers[result.data])[i]
    BY <1>4 DEF Stored
  <2>2. \A i \in Stored' : AgentRows'[i] = rows'[i]
    BY <1>1, <2>1 DEF AgentRows
  <2> QED
    BY <2>2 DEF AgentLabelsAreTheAgents
<1>9. \A c \in Clients : ~ HasFlushed(c)'
  BY <1>1, <1>2, IdleIsKnown DEF HasFlushed
<1>10. LockInv'
  BY <1>1, <1>9 DEF LockInv, LocksExclude
<1> QED
  BY <1>1, <1>5, <1>6, <1>7, <1>8, <1>10
     DEF TableInv, SettingsKnown, BoundsKnown, bounds

LEMMA CallKeepsTable ==
  ASSUME CallInv, TableInv, LockInv, CallNext
  PROVE  TableInv' /\ LockInv'
<1>1. UNCHANGED <<import, tables, request, ghosts, bounds>>
  BY DEF CallNext
<1>2. import = "calling"
  BY DEF CallNext, CallStep, CreateSession, EndStream, DeleteSession, Parse,
         ReceiveEvent, CallInv
<1>3. Stored' = {}
  BY <1>1, <1>2 DEF TableInv, ImportKnown, Stored, tables
<1>4. AgentLabelsAreTheAgents'
  BY <1>3 DEF AgentLabelsAreTheAgents
<1>5. /\ ImportKnown' /\ RowsKnown' /\ RequestsKnown' /\ SettingsKnown'
      /\ BoundsKnown'
  BY <1>1 DEF TableInv, ImportKnown, RowsKnown, RequestsKnown, SettingsKnown,
              BoundsKnown, tables, bounds
<1>6. LockInv'
  BY <1>1 DEF LockInv, LocksExclude, HasFlushed, tables
<1> QED
  BY <1>4, <1>5, <1>6 DEF TableInv

LEMMA TableStep ==
  ASSUME CallInv, TableInv, LockInv, [Next]_vars
  PROVE  TableInv' /\ LockInv'
<1>1. ASSUME import = "saved", UNCHANGED <<import, result>>, UNCHANGED tables,
             RequestsKnown', BoundsKnown', LockInv'
      PROVE  TableInv' /\ LockInv'
  BY <1>1, TablesStay DEF TableInv
<1>2. CASE CallNext
  BY <1>2, CallKeepsTable
<1>3. CASE EndImport
  BY <1>3, EndImportKeepsTable
<1>4. ASSUME NEW c \in Clients, Resume(c) PROVE TableInv' /\ LockInv'
  <2>1. UNCHANGED <<call, import, tables, told, bounds>>
    BY <1>4 DEF Resume
  <2>2. BoundsKnown' /\ UNCHANGED <<import, result>> /\ UNCHANGED tables
    BY <2>1 DEF TableInv, BoundsKnown, bounds, call
  <2>3. /\ import = "saved"
        /\ Frees({c}) \/ \E r : Puts(c, r)
    BY <1>4, ResumeGoesOn
  <2>4. RequestsKnown' /\ LockInv'
    BY <2>2, <2>3, PutKeeps, FreeKeeps DEF TableInv
  <2> QED
    BY <1>1, <2>2, <2>3, <2>4
<1>5. ASSUME NEW c \in Clients, StartCommit(c) PROVE TableInv' /\ LockInv'
  <2>1. UNCHANGED <<call, import, tables, ghosts, bounds>>
    BY <1>5 DEF StartCommit
  <2>2. BoundsKnown' /\ UNCHANGED <<import, result>> /\ UNCHANGED tables
    BY <2>1 DEF TableInv, BoundsKnown, bounds, call
  <2>3. import = "saved" /\ \E r : Puts(c, r)
    BY <1>5, StartCommitPuts
  <2>4. RequestsKnown' /\ LockInv'
    BY <2>2, <2>3, PutKeeps DEF TableInv
  <2> QED
    BY <1>1, <2>2, <2>3, <2>4
<1>6. ASSUME NEW c \in Clients, Commit(c) PROVE TableInv' /\ LockInv'
  BY <1>6, CommitKeepsTable
<1>7. ASSUME NEW ended, Loses(ended) PROVE TableInv' /\ LockInv'
  <2>1. /\ import = "saved" /\ Frees(ended)
        /\ UNCHANGED <<call, import, tables, requests>>
        /\ faults' \in 0..MaxFaults
    BY <1>7 DEF Loses
  <2>2. BoundsKnown' /\ UNCHANGED <<import, result>> /\ UNCHANGED tables
    BY <2>1 DEF TableInv, BoundsKnown, call
  <2>3. RequestsKnown' /\ LockInv'
    BY <2>1, <2>2, FreeKeeps DEF TableInv
  <2> QED
    BY <1>1, <2>1, <2>2, <2>3
<1>8. ASSUME NEW c \in Clients, NEW p \in Processes, Handle(c, p)
      PROVE  TableInv' /\ LockInv'
  <2>1. /\ Handles(c, p)
        /\ request' = request \/ \E write : Asks(c, p, write)
    BY <1>8, HandleAsks
  <2>2. /\ UNCHANGED <<call, import, tables, faults>> /\ import = "saved"
        /\ requests < MaxRequests /\ requests' = requests + 1
    BY <2>1 DEF Handles
  <2>3. BoundsKnown'
    BY <2>2, BoundsAssumption DEF TableInv, BoundsKnown
  <2>4. UNCHANGED <<import, result>> /\ UNCHANGED tables
    BY <2>2 DEF call
  <2>5. RequestsKnown' /\ LockInv'
    BY <2>1, <2>2, <2>4, AskedIsPut, PutKeeps, RequestsUnchangedKeep DEF TableInv
  <2> QED
    BY <1>1, <2>2, <2>3, <2>4, <2>5
<1>9. CASE UNCHANGED vars
  BY <1>9 DEF vars, call, tables, bounds, TableInv, LockInv, ImportKnown,
              RowsKnown, RequestsKnown, SettingsKnown, BoundsKnown, LocksExclude,
              HasFlushed, AgentLabelsAreTheAgents, AgentRows, Stored
<1> QED
  BY <1>2, <1>3, <1>4, <1>5, <1>6, <1>7, <1>8, <1>9, FaultsLose
     DEF Next, Continue

(***************************************************************************)
(* The invariant of the call is inductive.                                 *)
(***************************************************************************)
LEMMA CallStepKeepsCall ==
  ASSUME CallInv, CallNext
  PROVE  CallInv'
<1>1. import' = import /\ phase # "over" /\ import = "calling"
  BY DEF CallNext, CallStep, CreateSession, EndStream, DeleteSession, Parse,
         ReceiveEvent, CallInv
<1>2. OnlyWidthsAreUnchecked'
  BY <1>1 DEF OnlyWidthsAreUnchecked
<1>3. CASE CreateSession
  BY <1>1, <1>2, <1>3 DEF CreateSession, CallInv, CallPhases, Over,
     SessionsAreCleanedUp, AnswerIsTheLastWhole
<1>4. CASE EndStream
  BY <1>1, <1>2, <1>4 DEF EndStream, CallInv, CallPhases, Over,
     SessionsAreCleanedUp, AnswerIsTheLastWhole
<1>5. CASE DeleteSession
  BY <1>1, <1>2, <1>5 DEF DeleteSession, CallInv, CallPhases, Over,
     SessionsAreCleanedUp, AnswerIsTheLastWhole
<1>6. CASE Parse
  <2>1. /\ phase = "parsing" /\ phase' = "returned" /\ session # "open"
        /\ session' = session /\ text' = text /\ text \in Seq(Pieces)
    BY <1>6 DEF Parse, CallInv
  <2>2. CASE Candidates(text) = {}
    <3>1. result' = [status |-> "error"]
      BY <1>6, <2>2 DEF Parse
    <3> QED
      BY <1>1, <1>2, <2>1, <3>1 DEF CallInv, CallPhases, Over,
         SessionsAreCleanedUp, AnswerIsTheLastWhole
  <2>3. CASE Candidates(text) # {}
    <3> DEFINE data == ParseLastObject(text)
    <3>1. result' = [status |-> "success", data |-> data]
      BY <1>6, <2>3 DEF Parse
    <3>2. data \in Objects \cup {Fragment} /\ IsTheLastWhole(text, data)
      BY <2>1, <2>3, LastObjectIsTheLastWhole
    <3> HIDE DEF data
    <3>3. result'.status = "success" /\ result'.data = data
      BY <3>1
    <3>4. AnswerIsTheLastWhole'
      BY <2>1, <3>2, <3>3 DEF AnswerIsTheLastWhole, IsTheLastWhole
    <3> QED
      BY <1>1, <1>2, <2>1, <3>2, <3>3, <3>4 DEF CallInv, CallPhases, Over,
         SessionsAreCleanedUp
  <2> QED
    BY <2>2, <2>3
<1>7. ASSUME NEW event \in AgentEvents, ReceiveEvent(event)
      PROVE  CallInv'
  <2>1. text' = text \o TextOf(event) /\ text \in Seq(Pieces)
        /\ TextOf(event) \in Seq(Pieces)
    BY <1>7, PiecesAssumption DEF ReceiveEvent, CallInv
  <2>2. text' \in Seq(Pieces)
    BY <2>1
  <2> QED
    BY <1>1, <1>2, <1>7, <2>2 DEF ReceiveEvent, CallInv, CallPhases, Over,
       SessionsAreCleanedUp, AnswerIsTheLastWhole
<1> QED
  BY <1>3, <1>4, <1>5, <1>6, <1>7 DEF CallNext, CallStep

LEMMA EndImportKeepsCall ==
  ASSUME CallInv, EndImport
  PROVE  CallInv'
<1>1. /\ phase' = "over" /\ text' = <<>> /\ session' = "none"
      /\ result' = result
  BY DEF EndImport
<1>2. /\ text' \in Seq(Pieces) /\ result'.status = "success" =>
           result'.data \in Objects \cup {Fragment}
  BY <1>1 DEF CallInv
<1>3. OnlyWidthsAreUnchecked'
  <2>1. CASE result.status = "none"
    BY <1>1, <2>1 DEF OnlyWidthsAreUnchecked
  <2>2. CASE import' = "rejected"
    BY <2>2 DEF OnlyWidthsAreUnchecked
  <2>3. CASE /\ result.status = "success"
             /\ ParseVerdict(Answers[result.data]) = "fine" /\ SaveImport
    <3> DEFINE parsed == MapAnswer(Answers[result.data])
    <3>1. CASE \A k \in DOMAIN parsed : HasWidths(parsed[k])
      <4>1. \A k \in DOMAIN parsed : IsRow(parsed[k])
        BY <2>3, <3>1, AcceptedAnswerIsRows DEF CallInv
      <4>2. \A k \in DOMAIN parsed : Storable(parsed[k])
        BY <4>1, RowsAreStorable
      <4>3. import' = "saved"
        BY <2>3, <4>2 DEF SaveImport
      <4> QED
        BY <4>3 DEF OnlyWidthsAreUnchecked
    <3>2. CASE \E k \in DOMAIN parsed : ~HasWidths(parsed[k])
      BY <1>1, <3>2 DEF OnlyWidthsAreUnchecked
    <3> QED
      BY <3>1, <3>2
  <2>4. CASE /\ result.status = "success"
             /\ ParseVerdict(Answers[result.data]) \notin {"fine", "rejected"}
    <3>1. ParseVerdict(Answers[result.data]) \in Verdicts
      BY <2>4, AcceptedAnswerIsRows DEF CallInv
    <3> QED
      BY <1>1, <2>4, <3>1 DEF OnlyWidthsAreUnchecked, Verdicts
  <2> QED
    BY <2>1, <2>2, <2>3, <2>4, ImportEnds
<1> QED
  BY <1>1, <1>2, <1>3 DEF CallInv, CallPhases, Over, SessionsAreCleanedUp,
     AnswerIsTheLastWhole

LEMMA CallInvStep ==
  ASSUME CallInv, TableInv, LockInv, [Next]_vars
  PROVE  CallInv'
<1>1. ASSUME UNCHANGED <<call, import>> PROVE CallInv'
  BY <1>1 DEF call, CallInv, SessionsAreCleanedUp, AnswerIsTheLastWhole,
     OnlyWidthsAreUnchecked
<1>2. CASE CallNext
  BY <1>2, CallStepKeepsCall
<1>3. CASE EndImport
  BY <1>3, EndImportKeepsCall
<1>4. ASSUME NEW c \in Clients, Continue(c) PROVE UNCHANGED <<call, import>>
  BY <1>4 DEF Continue, Resume, StartCommit, Commit
<1>5. ASSUME NEW c \in Clients, NEW p \in Processes, Handle(c, p)
      PROVE  UNCHANGED <<call, import>>
  BY <1>5, HandleAsks DEF Handles
<1>6. ASSUME NEW ended, Loses(ended) PROVE UNCHANGED <<call, import>>
  BY <1>6 DEF Loses
<1>7. CASE UNCHANGED vars
  BY <1>1, <1>7 DEF vars
<1> QED
  BY <1>1, <1>2, <1>3, <1>4, <1>5, <1>6, <1>7, FaultsLose DEF Next

(***************************************************************************)
(* The promise about the settings is kept.                                 *)
(***************************************************************************)

\* Flushed changes of the settings exclude each other.
LEMMA SettingsAreLocked ==
  ASSUME NEW w, IsOfSettings(w)
  PROVE  Locked(w) = {<<"settings">>} /\ Record(w) = <<"settings">>
BY DEF IsOfSettings, Locked, Record

LEMMA OneFlushesSettings ==
  ASSUME LockInv, NEW c \in Clients, NEW d \in Clients, c # d,
         HasFlushed(c), IsOfSettings(request[c].write),
         HasFlushed(d), IsOfSettings(request[d].write)
  PROVE  FALSE
BY SettingsAreLocked DEF LockInv, LocksExclude

LEMMA FreeLockIsNobodys ==
  ASSUME NEW w, IsOfSettings(w), NEW c,
         Locked(w) \cap LockedByOthers(c) = {}
  PROVE  \A d \in Clients \ {c} : HasFlushed(d) =>
           ~ IsOfSettings(request[d].write)
BY SettingsAreLocked, LockedByOthersIs

\* What is put says of the settings what it has told.
LEMMA PutKeepsSettings ==
  ASSUME RequestsKnown, LockInv, SettingsInv, UNCHANGED settings,
         NEW c \in Clients, NEW r, Puts(c, r),
         \/ /\ toldSettings' = toldSettings
            /\ ~ HasFlushed(c) \/ request[c].write = r.write
            /\ HasFlushed(c) \/ ~ IsOfSettings(r.write) \/ r.phase = "waiting"
            /\ r.phase \in {"answered", "committing"} \/ ~ HasFlushed(c)
         \/ /\ IsOfSettings(r.write) /\ r.phase = "answered"
            /\ toldSettings' = r.write.multiplier
  PROVE  SettingsInv'
<1>1. /\ request'[c] = r
      /\ \A d \in Clients \ {c} : request'[d] = request[d]
  BY DEF Puts, RequestsKnown
<1>2. \A d \in Clients \ {c} : HasFlushed(d)' <=> HasFlushed(d)
  BY <1>1 DEF HasFlushed
<1>3. HasFlushed(c)' <=> r.phase \notin {"idle", "waiting"}
  BY <1>1 DEF HasFlushed
<1>4. CASE /\ IsOfSettings(r.write) /\ r.phase = "answered"
           /\ toldSettings' = r.write.multiplier
  <2>1. \A d \in Clients \ {c} : HasFlushed(d) =>
          ~ IsOfSettings(request[d].write)
    BY <1>4, FreeLockIsNobodys DEF Puts
  <2> QED
    BY <1>1, <1>2, <1>3, <1>4, <2>1 DEF SettingsInv
<1>5. CASE /\ toldSettings' = toldSettings
           /\ ~ HasFlushed(c) \/ request[c].write = r.write
           /\ HasFlushed(c) \/ ~ IsOfSettings(r.write) \/ r.phase = "waiting"
           /\ r.phase \in {"answered", "committing"} \/ ~ HasFlushed(c)
  <2>1. HasFlushed(c)' /\ IsOfSettings(r.write) <=>
          HasFlushed(c) /\ IsOfSettings(request[c].write)
    BY <1>3, <1>5
  <2>2. HasFlushed(c) /\ IsOfSettings(request[c].write) =>
          request[c].write = r.write
    BY <1>5
  <2>3. \A d \in Clients :
          HasFlushed(d)' /\ IsOfSettings(request'[d].write) <=>
            HasFlushed(d) /\ IsOfSettings(request[d].write)
    BY <1>1, <1>2, <2>1
  <2>4. \A d \in Clients :
          HasFlushed(d)' /\ IsOfSettings(request'[d].write) =>
            request'[d].write = request[d].write
    BY <1>1, <2>1, <2>2
  <2> QED
    BY <1>5, <2>3, <2>4 DEF SettingsInv
<1> QED
  BY <1>4, <1>5

LEMMA FreeKeepsSettings ==
  ASSUME RequestsKnown, SettingsInv, UNCHANGED settings,
         NEW ended \in SUBSET Clients, Frees(ended),
         \/ /\ toldSettings' = toldSettings
            /\ \A c \in ended : HasFlushed(c) => ~ IsOfSettings(request[c].write)
         \/ toldSettings' = NoValue
  PROVE  SettingsInv'
<1>1. \A d \in Clients :
        /\ d \in ended => request'[d] = Idle
        /\ d \notin ended => request'[d] = request[d]
  BY DEF Frees
<1>2. CASE toldSettings' = NoValue
  BY <1>2 DEF SettingsInv
<1>3. CASE /\ toldSettings' = toldSettings
           /\ \A c \in ended : HasFlushed(c) => ~ IsOfSettings(request[c].write)
  <2>1. \A d \in Clients :
          HasFlushed(d)' /\ IsOfSettings(request'[d].write) <=>
            HasFlushed(d) /\ IsOfSettings(request[d].write)
    BY <1>1, <1>3, IdleIsKnown DEF HasFlushed
  <2>2. \A d \in Clients :
          HasFlushed(d)' /\ IsOfSettings(request'[d].write) =>
            request'[d].write = request[d].write
    BY <1>1, IdleIsKnown DEF HasFlushed
  <2> QED
    BY <1>3, <2>1, <2>2 DEF SettingsInv
<1> QED
  BY <1>2, <1>3

LEMMA CommitKeepsSettings ==
  ASSUME TableInv, LockInv, SettingsInv, NEW c \in Clients, Commit(c)
  PROVE  SettingsInv'
<1> DEFINE write == request[c].write
<1>1. /\ Frees({c}) /\ Apply(write) /\ HasFlushed(c)
      /\ toldSettings' = toldSettings
  BY CommitIsKnown
<1>2. /\ request'[c] = Idle
      /\ \A d \in Clients \ {c} : request'[d] = request[d]
  BY <1>1 DEF Frees
<1>3. ~ HasFlushed(c)' /\ \A d \in Clients \ {c} : HasFlushed(d)' <=> HasFlushed(d)
  BY <1>2, IdleIsKnown DEF HasFlushed
<1>4. CASE IsOfSettings(write)
  <2>1. settings' = write.multiplier
    BY <1>1, <1>4 DEF Apply, IsOfSettings
  <2>2. toldSettings \in {NoValue, write.multiplier}
    BY <1>1, <1>4 DEF SettingsInv
  <2>3. \A d \in Clients : ~ (HasFlushed(d)' /\ IsOfSettings(request'[d].write))
    BY <1>1, <1>2, <1>3, <1>4, OneFlushesSettings
  <2> QED
    BY <1>1, <2>1, <2>2, <2>3 DEF SettingsInv
<1>5. CASE ~ IsOfSettings(write)
  <2>1. settings' = settings
    BY <1>1, <1>5 DEF Apply, IsOfSettings
  <2>2. RequestsKnown
    BY DEF TableInv
  <2> QED
    BY <1>1, <1>5, <2>1, <2>2, FreeKeepsSettings
<1> QED
  BY <1>4, <1>5

LEMMA SettingsStep ==
  ASSUME CallInv, TableInv, LockInv, SettingsInv, [Next]_vars
  PROVE  SettingsInv'
<1>1. RequestsKnown
  BY DEF TableInv
<1>2. ASSUME UNCHANGED <<settings, request, toldSettings>> PROVE SettingsInv'
  BY <1>2 DEF SettingsInv, HasFlushed
<1>3. CASE CallNext
  BY <1>2, <1>3 DEF CallNext, tables, ghosts
<1>4. CASE EndImport
  BY <1>2, <1>4 DEF EndImport
<1>5. ASSUME NEW c \in Clients, Resume(c) PROVE SettingsInv'
  <2> DEFINE write == request[c].write
  <2>1. settings' = settings
    BY <1>5 DEF Resume, tables
  <2>2. request[c].phase = "waiting" /\ ~ HasFlushed(c)
    BY <1>5 DEF Resume, HasFlushed
  <2>3. CASE Frees({c}) /\ toldSettings' = toldSettings
    BY <1>1, <2>1, <2>2, <2>3, FreeKeepsSettings
  <2>4. ASSUME NEW r, Puts(c, r), r.write = write, r.phase = "answered",
               toldSettings' = IF IsOfSettings(write)
                               THEN write.multiplier ELSE toldSettings
        PROVE  SettingsInv'
    BY <1>1, <2>1, <2>2, <2>4, PutKeepsSettings
  <2> QED
    BY <1>5, <2>3, <2>4, ResumeGoesOn
<1>6. ASSUME NEW c \in Clients, StartCommit(c) PROVE SettingsInv'
  <2>1. settings' = settings /\ toldSettings' = toldSettings
    BY <1>6 DEF StartCommit, tables, ghosts
  <2>2. HasFlushed(c)
    BY <1>6, StartCommitPuts
  <2>3. PICK r : Puts(c, r) /\ r.write = request[c].write
                 /\ r.phase = "committing"
    BY <1>6, StartCommitPuts
  <2> QED
    BY <1>1, <2>1, <2>2, <2>3, PutKeepsSettings
<1>7. ASSUME NEW c \in Clients, Commit(c) PROVE SettingsInv'
  BY <1>7, CommitKeepsSettings
<1>8. ASSUME NEW ended, Loses(ended) PROVE SettingsInv'
  <2>1. /\ ended \in SUBSET Clients /\ Frees(ended) /\ settings' = settings
        /\ Forget({request[c].write : c \in ended})
    BY <1>8 DEF Loses, tables
  <2>2. \/ toldSettings' = NoValue
        \/ /\ toldSettings' = toldSettings
           /\ \A c \in ended : ~ IsOfSettings(request[c].write)
    BY <2>1 DEF Forget, IsOfSettings
  <2> QED
    BY <1>1, <2>1, <2>2, FreeKeepsSettings
<1>9. ASSUME NEW c \in Clients, NEW p \in Processes, Handle(c, p)
      PROVE  SettingsInv'
  <2>1. Handles(c, p) /\ (request' = request \/ \E write : Asks(c, p, write))
    BY <1>9, HandleAsks
  <2>2. settings' = settings /\ ~ HasFlushed(c)
    BY <2>1 DEF Handles, tables, Pending, HasFlushed
  <2>3. ASSUME NEW write, Asks(c, p, write), ~ IsOfSettings(write),
               toldSettings' = toldSettings
        PROVE  SettingsInv'
    <3>1. PICK r : Puts(c, r) /\ r.write = write
                   /\ r.phase \in {"answered", "waiting"}
      BY <2>3, AskedIsPut
    <3> QED
      BY <1>1, <2>2, <2>3, <3>1, PutKeepsSettings
  <2>4. ASSUME NEW payloads \in Creations, CreateTransactions(c, p, payloads)
        PROVE  SettingsInv'
    <3>1. toldSettings' = toldSettings
      BY <2>4 DEF CreateTransactions, ghosts
    <3>2. \A write : write.kind = "insert_rows" => ~ IsOfSettings(write)
      BY DEF IsOfSettings
    <3> QED
      BY <1>2, <2>2, <2>3, <2>4, <3>1, <3>2, CreateAsks
  <2>5. ASSUME NEW i \in Ids, NEW payload \in Patches,
               UpdateTransaction(c, p, i, payload)
        PROVE  SettingsInv'
    <3>1. toldSettings' = toldSettings
      BY <2>5 DEF UpdateTransaction
    <3> DEFINE write == [kind |-> "set_fields", id |-> i,
                         changes |-> Changes(rows[i], payload)]
    <3>2. request' = request \/ Asks(c, p, write)
      BY <2>5, UpdateAsks
    <3>3. ~ IsOfSettings(write)
      BY DEF IsOfSettings
    <3> HIDE DEF write
    <3> QED
      BY <1>2, <2>2, <2>3, <3>1, <3>2, <3>3
  <2>6. ASSUME NEW i \in Ids, DeleteTransaction(c, p, i)
        PROVE  SettingsInv'
    <3>1. toldSettings' = toldSettings
      BY <2>6 DEF DeleteTransaction, ghosts
    <3>2. \A write : write.kind = "drop_row" => ~ IsOfSettings(write)
      BY DEF IsOfSettings
    <3> QED
      BY <1>2, <2>2, <2>3, <2>6, <3>1, <3>2, DeleteAsks
  <2>7. ASSUME NEW point \in Checkpoints,
               CreateCheckpoint(c, p, point) \/ DeleteCheckpoint(c, p, point)
        PROVE  SettingsInv'
    <3>1. toldSettings' = toldSettings
      BY <2>7 DEF CreateCheckpoint, DeleteCheckpoint, ghosts
    <3>2. \A write : write.kind \in {"insert_checkpoint", "drop_checkpoint"} =>
            ~ IsOfSettings(write)
      BY DEF IsOfSettings
    <3> QED
      BY <1>2, <2>2, <2>3, <2>7, <3>1, <3>2, CreateCheckpointAsks,
         DeleteCheckpointAsks
  <2>8. ASSUME NEW multiplier \in Multipliers, PutSettings(c, p, multiplier)
        PROVE  SettingsInv'
    <3>1. CASE /\ settings = multiplier /\ request' = request
               /\ toldSettings' \in {NoValue, multiplier}
      <4>1. CASE toldSettings' = NoValue
        BY <4>1 DEF SettingsInv
      <4>2. CASE toldSettings' # NoValue
        <5>1. ~ TouchedByOthers(c, [kind |-> IF settings = NoValue
                                      THEN "insert_settings" ELSE "set_settings",
                                    multiplier |-> multiplier])
          BY <2>8, <3>1, <4>2 DEF PutSettings
        <5>2. \A d \in Clients \ {c} : ~ (HasFlushed(d)
                                         /\ IsOfSettings(request[d].write))
          BY <5>1, SettingsAreLocked DEF TouchedByOthers, HasFlushed, Pending,
             IsOfSettings
        <5>3. \A d \in Clients : ~ (HasFlushed(d)' /\ IsOfSettings(request'[d].write))
          BY <2>2, <3>1, <5>2 DEF HasFlushed
        <5> QED
          BY <2>2, <3>1, <5>3 DEF SettingsInv
      <4> QED
        BY <4>1, <4>2
    <3>2. ASSUME NEW write, IsOfSettings(write), write.multiplier = multiplier,
                 Asks(c, p, write),
                 toldSettings' = IF Locked(write) \cap LockedByOthers(c) # {}
                                 THEN toldSettings ELSE multiplier
          PROVE  SettingsInv'
      <4>1. PICK r : /\ Puts(c, r) /\ r.write = write
                     /\ r.phase \in {"answered", "waiting"}
                     /\ r.phase = "waiting" <=>
                          Locked(write) \cap LockedByOthers(c) # {}
        BY <3>2, AskedIsPut
      <4> QED
        BY <1>1, <2>2, <3>2, <4>1, PutKeepsSettings
    <3> QED
      BY <2>8, <3>1, <3>2, SettingsAsk
  <2> QED
    BY <1>9, <2>4, <2>5, <2>6, <2>7, <2>8 DEF Handle
<1>10. CASE UNCHANGED vars
  BY <1>2, <1>10 DEF vars, tables, ghosts
<1> QED
  BY <1>3, <1>4, <1>5, <1>6, <1>7, <1>8, <1>9, <1>10, FaultsLose
     DEF Next, Continue

(***************************************************************************)
(* The promises about the rows are kept.                                   *)
(***************************************************************************)

\* What ToldInv says of one row.
ToldOf(table, said, asked, i) ==
  i \in Present(table) /\ said[i] # NoValue =>
    /\ \A c \in Clients : Sets(asked[c].write, i) =>
         said[i] = Rewrite(table[i], asked[c].write.changes)
    /\ (\A c \in Clients : ~ Sets(asked[c].write, i)) => said[i] = table[i]

LEMMA ToldInvIs ==
  /\ ToldInv <=> /\ told = [i \in Ids |-> told[i]]
                 /\ \A i \in Ids : ToldOf(rows, told, request, i)
  /\ ToldInv' <=> /\ told' = [i \in Ids |-> told'[i]]
                  /\ \A i \in Ids : ToldOf(rows', told', request', i)
BY DEF ToldInv, ToldOf, Present

\* A change made twice is made once.
LEMMA RewriteTwice ==
  ASSUME NEW row, NEW changes
  PROVE  Rewrite(Rewrite(row, changes), changes) = Rewrite(row, changes)
BY DEF Rewrite

\* A change of nothing.
LEMMA RewriteNothing ==
  ASSUME NEW row, IsRow(row), NEW changes, DOMAIN changes = {}
  PROVE  Rewrite(row, changes) = row
BY DEF Rewrite, IsRow

\* Who asks for something else than a change of a row, or changes nothing
\* about what is asked, leaves its promise alone.
LEMMA OthersLeaveTold ==
  ASSUME ToldInv, UNCHANGED <<rows, told>>,
         \A i \in Ids : \A d \in Clients :
           \/ request'[d].write = request[d].write
           \/ ~ Sets(request'[d].write, i) /\ ~ Sets(request[d].write, i)
           \/ i \notin Present(rows)
  PROVE  ToldInv'
<1>1. \A i \in Ids : ToldOf(rows, told, request, i)
  BY ToldInvIs
<1>2. \A i \in Ids : ToldOf(rows, told, request', i)
  BY <1>1 DEF ToldOf
<1>3. told' = [i \in Ids |-> told'[i]]
  BY ToldInvIs
<1> QED
  BY <1>2, <1>3, ToldInvIs

\* A request that is idle asks for nothing.
LEMMA IdleSetsNothing ==
  ASSUME RequestsKnown, NEW c \in Clients, ~ Pending(c)
  PROVE  request[c].write = Nothing /\ \A i : ~ Sets(request[c].write, i)
BY DEF RequestsKnown, RequestKnown, Pending, Sets, Nothing

LEMMA AskKeepsTold ==
  ASSUME RequestsKnown, ToldInv, UNCHANGED <<rows, told>>, NEW c \in Clients,
         ~ Pending(c), NEW p, NEW write, Asks(c, p, write),
         write.kind # "set_fields"
  PROVE  ToldInv'
<1>1. PICK r : Puts(c, r) /\ r.write = write
  BY AskedIsPut
<1>2. request'[c].write = write /\ \A d \in Clients \ {c} : request'[d] = request[d]
  BY <1>1 DEF Puts, RequestsKnown
<1>3. \A i : ~ Sets(write, i) /\ ~ Sets(request[c].write, i)
  BY IdleSetsNothing DEF Sets
<1> QED
  BY <1>2, <1>3, OthersLeaveTold

\* A PATCH promises what it was told and what it changes, unless somebody
\* else is about to touch the row.
LEMMA UpdateKeepsTold ==
  ASSUME TableInv, ToldInv, NEW c \in Clients, ~ Pending(c), NEW p,
         NEW i \in Ids, NEW payload \in Patches,
         UpdateTransaction(c, p, i, payload), UNCHANGED rows
  PROVE  ToldInv'
<1> DEFINE changes == Changes(rows[i], payload)
           patch   == Prepared(Renamed(payload))
           all     == [f \in Assigned(patch) |-> patch[f]]
           write   == [kind |-> "set_fields", id |-> i, changes |-> changes]
<1>1. RequestsKnown /\ RowsKnown
  BY DEF TableInv
<1>2. CASE request' = request /\ told' = told
  BY <1>2, OthersLeaveTold
<1>3. CASE /\ i \in Present(rows)
           /\ (DOMAIN changes = {} /\ request' = request) \/ Asks(c, p, write)
           /\ told' = [told EXCEPT ![i] =
                IF @ = NoValue \/ TouchedByOthers(c, write) THEN NoValue
                ELSE Rewrite(@, all)]
           /\ Rewrite(rows[i], changes) = Rewrite(rows[i], all)
  <2>1. /\ write.kind = "set_fields" /\ write.id = i
        /\ write.changes = changes
        /\ Record(write) = <<"transaction", i>>
    BY DEF Record
  <2>2. IsRow(rows[i])
    BY <1>1, <1>3 DEF RowsKnown
  <2>3. /\ told = [j \in Ids |-> told[j]]
        /\ \A j \in Ids : ToldOf(rows, told, request, j)
    BY ToldInvIs
  <2> HIDE DEF write, changes, all, patch
  <2>4. /\ told' = [j \in Ids |-> told'[j]]
        /\ \A j \in Ids \ {i} : told'[j] = told[j]
        /\ told'[i] # NoValue => /\ told[i] # NoValue
                                 /\ ~ TouchedByOthers(c, write)
                                 /\ told'[i] = Rewrite(told[i], all)
    BY <1>3, <2>3
  <2>5. /\ \A d \in Clients \ {c} : request'[d] = request[d]
        /\ \/ DOMAIN changes = {} /\ request'[c] = request[c]
           \/ request'[c].write = write
    <3>1. CASE DOMAIN changes = {} /\ request' = request
      BY <3>1
    <3>2. CASE Asks(c, p, write)
      <4>1. PICK r : Puts(c, r) /\ r.write = write
        BY <3>2, AskedIsPut
      <4> QED
        BY <1>1, <4>1 DEF Puts, RequestsKnown
    <3> QED
      BY <1>3, <3>1, <3>2
  <2>6. \A j : ~ Sets(request[c].write, j)
    BY <1>1, IdleSetsNothing
  <2>7. ASSUME NEW j \in Ids \ {i} PROVE ToldOf(rows, told', request', j)
    <3>1. ~ Sets(write, j)
      BY <2>1 DEF Sets
    <3> QED
      BY <2>3, <2>4, <2>5, <2>6, <3>1 DEF ToldOf
  <2>8. ASSUME told'[i] # NoValue
        PROVE  /\ told'[i] = Rewrite(rows[i], changes)
               /\ \A d \in Clients \ {c} : ~ Sets(request'[d].write, i)
    <3>1. ASSUME NEW d \in Clients \ {c}, Sets(request[d].write, i)
          PROVE  FALSE
      <4>1. Pending(d)
        BY <1>1, <3>1, IdleSetsNothing
      <4>2. Record(request[d].write) = <<"transaction", i>>
        BY <3>1 DEF Sets, Record
      <4> QED
        BY <2>1, <2>4, <2>8, <4>1, <4>2 DEF TouchedByOthers
    <3>2. told[i] = rows[i]
      BY <1>3, <2>3, <2>4, <2>6, <2>8, <3>1 DEF ToldOf
    <3> QED
      BY <1>3, <2>4, <2>5, <2>8, <3>1, <3>2
  <2>9. ToldOf(rows, told', request', i)
    <3>1. CASE request'[c].write = write
      BY <2>1, <2>8, <3>1 DEF ToldOf, Sets
    <3>2. CASE DOMAIN changes = {} /\ request'[c] = request[c]
      <4>1. Rewrite(rows[i], changes) = rows[i]
        BY <2>2, <3>2, RewriteNothing
      <4> QED
        BY <2>6, <2>8, <3>2, <4>1 DEF ToldOf
    <3> QED
      BY <2>5, <3>1, <3>2
  <2> QED
    BY <2>4, <2>7, <2>9, ToldInvIs
<1> QED
  BY <1>2, <1>3, UpdateAsks

LEMMA CommitKeepsTold ==
  ASSUME TableInv, LockInv, ToldInv, NEW c \in Clients, Commit(c)
  PROVE  ToldInv'
<1> DEFINE write == request[c].write
<1>1. /\ Frees({c}) /\ Apply(write)
      /\ WriteKnown(rows, write) /\ FlushedHolds(rows, checkpoints, write)
      /\ told' = IF write.kind = "insert_rows"
                 THEN Completed(write.rows, told) ELSE told
  BY CommitIsKnown
<1>2. /\ request'[c] = Idle
      /\ \A d \in Clients \ {c} : request'[d] = request[d]
  BY <1>1 DEF Frees
<1>3. RequestsKnown /\ RowsKnown
  BY DEF TableInv
<1>4. /\ told = [i \in Ids |-> told[i]]
      /\ \A i \in Ids : ToldOf(rows, told, request, i)
  BY ToldInvIs
<1>5. \A i \in Ids : \/ Stays(i) \/ Comes(write, i)
                     \/ Changed(write, i) \/ Goes(write, i)
  BY <1>1, <1>3, AppliedRows
<1>6. \A i : ~ Sets(request'[c].write, i)
  BY <1>2, IdleIsKnown DEF Sets
<1>7. /\ told' = [i \in Ids |-> told'[i]]
      /\ \A i \in Ids : told'[i] = IF write.kind = "insert_rows"
                                      /\ i \in DOMAIN write.rows
                                   THEN write.rows[i] ELSE told[i]
  <2>1. CASE write.kind = "insert_rows"
    <3>1. \A i \in DOMAIN write.rows : i \in Ids
      BY <1>1, <2>1 DEF WriteKnown, InsertKnown, SetKnown, DropKnown, PointKnown,
                        MultiplierKnown
    <3>2. told' = [i \in Ids |-> IF i \in DOMAIN write.rows THEN write.rows[i]
                                                            ELSE told[i]]
      BY <1>1, <1>4, <2>1, <3>1 DEF Completed
    <3> QED
      BY <2>1, <3>2
  <2>2. CASE write.kind # "insert_rows"
    BY <1>1, <1>4, <2>2
  <2> QED
    BY <2>1, <2>2
<1>8. ASSUME NEW i \in Ids PROVE ToldOf(rows', told', request', i)
  <2>1. CASE Comes(write, i)
    <3>1. told'[i] = rows'[i]
      BY <1>7, <2>1 DEF Comes
    <3>2. ASSUME NEW d \in Clients PROVE ~ Sets(request'[d].write, i)
      <4>1. CASE d = c
        BY <1>6, <4>1
      <4>2. CASE d # c
        <5>1. RequestKnown(rows, request[d]) /\ rows[i] = NoValue
          BY <1>3, <2>1 DEF RequestsKnown, Comes
        <5>2. ~ Sets(request[d].write, i)
          BY <5>1 DEF RequestKnown, Sets, Nothing, WriteKnown, InsertKnown,
                      SetKnown, DropKnown, PointKnown, MultiplierKnown
        <5> QED
          BY <1>2, <4>2, <5>2
      <4> QED
        BY <4>1, <4>2
    <3> QED
      BY <3>1, <3>2 DEF ToldOf
  <2>2. CASE Goes(write, i)
    BY <2>2 DEF Goes, ToldOf, Present
  <2>3. CASE Changed(write, i)
    <3>1. told'[i] = told[i] /\ i \in Present(rows)
      BY <1>7, <2>3 DEF Changed, Sets
    <3>2. told[i] # NoValue => told[i] = rows'[i]
      BY <1>4, <2>3, <3>1 DEF ToldOf, Changed
    <3>3. ASSUME told[i] # NoValue, NEW d \in Clients,
                 Sets(request'[d].write, i)
          PROVE  told[i] = Rewrite(rows'[i], request'[d].write.changes)
      <4>1. request'[d] = request[d] /\ Sets(request[d].write, i)
        BY <1>2, <1>6, <3>3
      <4>2. told[i] = Rewrite(rows[i], request[d].write.changes)
        BY <1>4, <3>1, <3>3, <4>1 DEF ToldOf
      <4>3. told[i] = rows'[i]
        BY <3>2, <3>3
      <4> DEFINE changes == request[d].write.changes
      <4> HIDE DEF changes
      <4>4. Rewrite(told[i], changes) = told[i]
        BY <4>2, RewriteTwice DEF changes
      <4> QED
        BY <4>1, <4>3, <4>4 DEF changes
    <3> QED
      BY <3>1, <3>2, <3>3 DEF ToldOf
  <2>4. CASE Stays(i) /\ ~ Comes(write, i) /\ ~ Changed(write, i)
    <3>1. i \in Present(rows') => told'[i] = told[i] /\ i \in Present(rows)
      BY <1>1, <1>7, <2>4 DEF Stays, Present, WriteKnown, InsertKnown, SetKnown,
         DropKnown, PointKnown, MultiplierKnown
    <3>2. i \in Present(rows) => ~ Sets(write, i)
      BY <1>1, <1>3, <2>4, AppliedRows DEF Stays, Changed, Sets, FlushedHolds
    <3> QED
      BY <1>2, <1>4, <1>6, <2>4, <3>1, <3>2 DEF ToldOf, Stays
  <2> QED
    BY <1>5, <2>1, <2>2, <2>3, <2>4
<1> QED
  BY <1>7, <1>8, ToldInvIs

LEMMA LossKeepsTold ==
  ASSUME TableInv, ToldInv, NEW ended, Loses(ended)
  PROVE  ToldInv'
<1>1. /\ ended \subseteq Clients /\ rows' = rows
      /\ \A d \in Clients : request'[d] = IF d \in ended THEN Idle ELSE request[d]
      /\ told' = [i \in Ids |->
           IF \E write \in {request[c].write : c \in ended} :
                write.kind = "set_fields" /\ write.id = i
           THEN NoValue ELSE told[i]]
  BY DEF Loses, Frees, Forget, tables
<1>2. \A i \in Ids : ToldOf(rows, told, request, i)
  BY ToldInvIs
<1>3. ASSUME NEW i \in Ids PROVE ToldOf(rows', told', request', i)
  <2>1. CASE \E c \in ended : Sets(request[c].write, i)
    <3>1. told'[i] = NoValue
      BY <1>1, <2>1 DEF Sets
    <3> QED
      BY <3>1 DEF ToldOf
  <2>2. CASE ~ \E c \in ended : Sets(request[c].write, i)
    <3>1. told'[i] = told[i]
      BY <1>1, <2>2 DEF Sets
    <3>2. \A d \in Clients :
            /\ Sets(request'[d].write, i) => request'[d] = request[d]
            /\ Sets(request[d].write, i) => request'[d] = request[d]
      BY <1>1, <2>2, IdleIsKnown DEF Sets
    <3> QED
      BY <1>1, <1>2, <3>1, <3>2 DEF ToldOf
  <2> QED
    BY <2>1, <2>2
<1> QED
  BY <1>1, <1>3, ToldInvIs

LEMMA ToldStep ==
  ASSUME CallInv, TableInv, LockInv, ToldInv, [Next]_vars
  PROVE  ToldInv'
<1>1. RequestsKnown
  BY DEF TableInv
<1>2. ASSUME UNCHANGED <<rows, told, request>> PROVE ToldInv'
  BY <1>2, OthersLeaveTold
<1>3. CASE CallNext
  BY <1>2, <1>3 DEF CallNext, tables, ghosts
<1>4. CASE EndImport
  <2>1. CASE rows' = rows /\ told' = told
    BY <1>2, <1>4, <2>1 DEF EndImport
  <2>2. CASE SaveImport /\ told' = rows'
    <3>1. \A c \in Clients : request'[c] = Idle
      BY <1>4 DEF EndImport, TableInv, ImportKnown
    <3>2. \A c \in Clients : \A i : ~ Sets(request'[c].write, i)
      BY <3>1, IdleIsKnown DEF Sets
    <3>3. rows' = [i \in Ids |-> rows'[i]]
      BY <1>4, EndImportKeepsTable DEF TableInv, RowsKnown
    <3> QED
      BY <2>2, <3>2, <3>3, ToldInvIs DEF ToldOf
  <2>3. UNCHANGED <<rows, told>> \/ (SaveImport /\ told' = rows')
    BY <1>4, ImportEnds DEF SaveImport
  <2> QED
    BY <2>1, <2>2, <2>3
<1>5. ASSUME NEW c \in Clients, Resume(c) PROVE ToldInv'
  <2>1. UNCHANGED <<rows, told>>
    BY <1>5 DEF Resume, tables
  <2>2. CASE /\ Frees({c})
             /\ request[c].write.kind = "set_fields" =>
                  request[c].write.id \notin Present(rows)
    <3>1. /\ request'[c].write = Nothing
          /\ \A d \in Clients \ {c} : request'[d] = request[d]
      BY <2>2, IdleIsKnown DEF Frees
    <3>2. \A i \in Ids : i \in Present(rows) => ~ Sets(request[c].write, i)
      BY <2>2 DEF Sets
    <3>3. \A i : ~ Sets(Nothing, i)
      BY IdleIsKnown DEF Sets
    <3> QED
      BY <2>1, <3>1, <3>2, <3>3, OthersLeaveTold
  <2>3. ASSUME NEW r, Puts(c, r), r.write = request[c].write PROVE ToldInv'
    <3>1. \A d \in Clients : request'[d].write = request[d].write
      BY <1>1, <2>3 DEF Puts, RequestsKnown
    <3> QED
      BY <2>1, <3>1, OthersLeaveTold
  <2> QED
    BY <1>5, <2>2, <2>3, ResumeGoesOn
<1>6. ASSUME NEW c \in Clients, StartCommit(c) PROVE ToldInv'
  <2>1. UNCHANGED <<rows, told>>
    BY <1>6 DEF StartCommit, tables, ghosts
  <2>2. PICK r : Puts(c, r) /\ r.write = request[c].write
    BY <1>6, StartCommitPuts
  <2>3. \A d \in Clients : request'[d].write = request[d].write
    BY <1>1, <2>2 DEF Puts, RequestsKnown
  <2> QED
    BY <2>1, <2>3, OthersLeaveTold
<1>7. ASSUME NEW c \in Clients, Commit(c) PROVE ToldInv'
  BY <1>7, CommitKeepsTold
<1>8. ASSUME NEW ended, Loses(ended) PROVE ToldInv'
  BY <1>8, LossKeepsTold
<1>9. ASSUME NEW c \in Clients, NEW p \in Processes, Handle(c, p)
      PROVE  ToldInv'
  <2>1. Handles(c, p)
    BY <1>9, HandleAsks
  <2>2. rows' = rows /\ ~ Pending(c)
    BY <2>1 DEF Handles, tables
  <2>3. ASSUME NEW payloads \in Creations, CreateTransactions(c, p, payloads)
        PROVE  ToldInv'
    <3>1. told' = told
      BY <2>3 DEF CreateTransactions, ghosts
    <3> QED
      BY <1>1, <1>2, <2>2, <2>3, <3>1, CreateAsks, AskKeepsTold
  <2>4. ASSUME NEW i \in Ids, NEW payload \in Patches,
               UpdateTransaction(c, p, i, payload)
        PROVE  ToldInv'
    BY <2>2, <2>4, UpdateKeepsTold
  <2>5. ASSUME NEW i \in Ids, DeleteTransaction(c, p, i)
        PROVE  ToldInv'
    <3>1. told' = told
      BY <2>5 DEF DeleteTransaction, ghosts
    <3> QED
      BY <1>1, <1>2, <2>2, <2>5, <3>1, DeleteAsks, AskKeepsTold
  <2>6. ASSUME NEW point \in Checkpoints,
               CreateCheckpoint(c, p, point) \/ DeleteCheckpoint(c, p, point)
        PROVE  ToldInv'
    <3>1. told' = told
      BY <2>6 DEF CreateCheckpoint, DeleteCheckpoint, ghosts
    <3> QED
      BY <1>1, <1>2, <2>2, <2>6, <3>1, CreateCheckpointAsks,
         DeleteCheckpointAsks, AskKeepsTold
  <2>7. ASSUME NEW multiplier \in Multipliers, PutSettings(c, p, multiplier)
        PROVE  ToldInv'
    <3>1. told' = told
      BY <2>7 DEF PutSettings
    <3>2. \A write : IsOfSettings(write) => write.kind # "set_fields"
      BY DEF IsOfSettings
    <3> QED
      BY <1>1, <1>2, <2>2, <2>7, <3>1, <3>2, SettingsAsk, AskKeepsTold
  <2> QED
    BY <1>9, <2>3, <2>4, <2>5, <2>6, <2>7 DEF Handle
<1>10. CASE UNCHANGED vars
  BY <1>2, <1>10 DEF vars, tables, ghosts
<1> QED
  BY <1>3, <1>4, <1>5, <1>6, <1>7, <1>8, <1>9, <1>10, FaultsLose
     DEF Next, Continue


(***************************************************************************)
(* The invariant of the ledger.                                            *)
(***************************************************************************)
LEMMA LedgerBegins ==
  ASSUME Init
  PROVE  LedgerInv
<1>1. CallInv
  <2>1. <<>> \in Seq(Pieces)
    OBVIOUS
  <2> QED
    BY <2>1 DEF Init, CallInit, CallInv, CallPhases, Over, SessionsAreCleanedUp,
       AnswerIsTheLastWhole, OnlyWidthsAreUnchecked
<1>2. Present(rows) = {} /\ Stored = {}
  BY DEF Init, Present, Stored
<1>3. \A c \in Clients : request[c] = Idle
  BY DEF Init
<1>4. TableInv
  <2>1. ImportKnown /\ RowsKnown
    BY <1>2, <1>3 DEF Init, ImportKnown, RowsKnown
  <2>2. RequestsKnown
    BY <1>3, IdleIsKnown DEF Init, RequestsKnown
  <2>3. SettingsKnown /\ BoundsKnown /\ AgentLabelsAreTheAgents
    BY <1>2, BoundsAssumption
       DEF Init, SettingsKnown, BoundsKnown, AgentLabelsAreTheAgents
  <2> QED
    BY <2>1, <2>2, <2>3 DEF TableInv
<1>5. \A c \in Clients : ~ HasFlushed(c)
  BY <1>3, IdleIsKnown DEF HasFlushed
<1>6. LockInv
  BY <1>5 DEF Init, LockInv, LocksExclude
<1>7. SettingsInv
  BY <1>5 DEF Init, SettingsInv
<1>8. ToldInv
  BY <1>2 DEF Init, ToldInv
<1> QED
  BY <1>1, <1>4, <1>6, <1>7, <1>8 DEF LedgerInv

LEMMA LedgerGoesOn ==
  ASSUME LedgerInv, [Next]_vars
  PROVE  LedgerInv'
<1>1. CallInv /\ TableInv /\ LockInv /\ SettingsInv /\ ToldInv
  BY DEF LedgerInv
<1> QED
  BY <1>1, CallInvStep, TableStep, SettingsStep, ToldStep DEF LedgerInv

\* In every state: what the call, the tables, the locks and the answers know
\* of each other.
THEOREM LedgerInvariant == Spec => []LedgerInv
<1>1. Init => LedgerInv
  BY LedgerBegins
<1>2. LedgerInv /\ [Next]_vars => LedgerInv'
  BY LedgerGoesOn
<1> QED
  BY <1>1, <1>2, PTL DEF Spec

(***************************************************************************)
(* The call of the agent.                                                  *)
(***************************************************************************)

\* Whatever the agent streams and wherever the stream breaks, a call that
\* has returned or raised has asked for the deletion of its session
\* (statement_import_adapter.py:91-95).
THEOREM CallsCleanUp == Spec => []SessionsAreCleanedUp
<1>1. LedgerInv => SessionsAreCleanedUp
  BY DEF LedgerInv, CallInv
<1> QED
  BY <1>1, LedgerInvariant, PTL

\* However the text of an answer is cut into events and whatever surrounds
\* its objects, the one that ends last is returned
\* (response_parser.py:61-82).
THEOREM TheLastWholeIsTheAnswer == Spec => []AnswerIsTheLastWhole
<1>1. LedgerInv => AnswerIsTheLastWhole
  BY DEF LedgerInv, CallInv
<1> QED
  BY <1>1, LedgerInvariant, PTL

\* Whatever the agent answers, the mapping leaves nothing to the table but the
\* width of numbers: a job is tried again for a broken call, a confidence
\* that is no number or a number too wide for its column only
\* (data_mapping.py:32-181, schemas/transactions.py:32-105).
THEOREM WidthsAreLeft == Spec => []OnlyWidthsAreUnchecked
<1>1. LedgerInv => OnlyWidthsAreUnchecked
  BY DEF LedgerInv, CallInv
<1> QED
  BY <1>1, LedgerInvariant, PTL

(***************************************************************************)
(* What is stored.                                                         *)
(***************************************************************************)

\* Whatever is requested of however many processes, stored rows meet the
\* constraints of the database and checkpoints their unique key
\* (schemas/transactions.py:72-105, schemas/wealth.py).
THEOREM LedgerTypeCorrect == Spec => []LedgerTypeOK
<1>1. ASSUME LedgerInv PROVE LedgerTypeOK
  <2>1. TableInv /\ LockInv
    BY <1>1 DEF LedgerInv
  <2>2. \A i \in Stored : DOMAIN rows[i] = Fields /\ Storable(rows[i])
    <3>1. \A i \in Stored : IsRow(rows[i])
      BY <2>1 DEF TableInv, RowsKnown, Stored, Present
    <3> QED
      BY <3>1, RowsAreStorable
  <2>3. \A a, b \in checkpoints :
          a.date = b.date /\ a.currency = b.currency => a = b
    BY <2>1 DEF LockInv, SameKey
  <2>4. \A c \in Clients : /\ request[c].phase \in Phases
                           /\ Pending(c) <=> request[c].write # Nothing
    BY <2>1, KnownWriteIsSomething
       DEF TableInv, RequestsKnown, RequestKnown, Pending
  <2> QED
    BY <2>1, <2>2, <2>3, <2>4 DEF LedgerTypeOK, TableInv, ImportKnown,
       SettingsKnown, BoundsKnown
<1> QED
  BY <1>1, LedgerInvariant, PTL

\* No order of creations, edits and deletions, of however many clients,
\* leaves a row that names the agent as its source with labels that the
\* agent has not given (transactions.py:447-486).
THEOREM LabelsOfTheAgent == Spec => []AgentLabelsAreTheAgents
<1>1. LedgerInv => AgentLabelsAreTheAgents
  BY DEF LedgerInv, TableInv
<1> QED
  BY <1>1, LedgerInvariant, PTL

\* A row of which something is promised is what was promised, or a change
\* of it is under way: no edit that was answered is undone by the commit of
\* another (transactions.py:306-373, session.py:21-30).
THEOREM AnsweredEditsStand == Spec => []CorrectionsStand
<1>1. ASSUME LedgerInv PROVE CorrectionsStand
  <2>1. RequestsKnown /\ ToldInv
    BY <1>1 DEF LedgerInv, TableInv
  <2>2. ASSUME NEW i \in Stored, told[i] \notin {NoValue, rows[i]}
        PROVE  \E c \in Clients : /\ Pending(c)
                                  /\ Record(request[c].write) = <<"transaction", i>>
    <3>1. i \in Present(rows)
      BY DEF Stored, Present
    <3>2. PICK c \in Clients : Sets(request[c].write, i)
      BY <2>1, <2>2, <3>1 DEF ToldInv
    <3>3. Pending(c)
      BY <2>1, <3>2, IdleSetsNothing
    <3>4. Record(request[c].write) = <<"transaction", i>>
      BY <3>2 DEF Sets, Record
    <3> QED
      BY <3>3, <3>4
  <2> QED
    BY <2>2 DEF CorrectionsStand
<1> QED
  BY <1>1, LedgerInvariant, PTL

\* The same of the projection settings, of however many clients that save
\* them at once, the first time or later (wealth.py:103-124).
THEOREM AnsweredSettingsStand == Spec => []SettingsStand
<1>1. ASSUME LedgerInv PROVE SettingsStand
  <2>1. SettingsInv
    BY <1>1 DEF LedgerInv
  <2>2. CASE \A c \in Clients : HasFlushed(c) => ~ IsOfSettings(request[c].write)
    BY <2>1, <2>2 DEF SettingsInv, SettingsStand
  <2>3. ASSUME NEW c \in Clients, HasFlushed(c), IsOfSettings(request[c].write)
        PROVE  SettingsStand
    BY <2>3, SettingsAreLocked DEF SettingsStand
  <2> QED
    BY <2>2, <2>3
<1> QED
  BY <1>1, LedgerInvariant, PTL

(***************************************************************************)
(* What is read.                                                           *)
(***************************************************************************)

\* What a report reads has the dates and flags of rows.
LEMMA ReadsRows ==
  ASSUME LedgerInv
  PROVE  /\ AreReadRows(Known) /\ AreDated(checkpoints)
         /\ \A t \in Known : \E i \in Stored : /\ IsRow(rows[i])
                                               /\ t = Completed([id |-> i], rows[i])
<1>1. RowsKnown /\ checkpoints \subseteq Checkpoints
  BY DEF LedgerInv, TableInv, LockInv
<1>2. \A i \in Stored : IsRow(rows[i])
  BY <1>1 DEF RowsKnown, Stored, Present
<1>3. ASSUME NEW i \in Stored
      PROVE  \A f \in Fields : Completed([id |-> i], rows[i])[f] = rows[i][f]
  <2>1. DOMAIN rows[i] = Fields /\ DOMAIN [id |-> i] = {"id"} /\ "id" \notin Fields
    BY <1>2, RowsAreStorable DEF Fields
  <2> QED
    BY <2>1 DEF Completed
<1>4. AreReadRows(Known)
  <2>1. ASSUME NEW i \in Stored
        PROVE  /\ Completed([id |-> i], rows[i]).posted_at \in Dates
               /\ Completed([id |-> i], rows[i]).is_draft \in BOOLEAN
    <3>1. "posted_at" \in Fields /\ "is_draft" \in Fields
      BY DEF Fields
    <3>2. rows[i].posted_at \in Dates /\ rows[i].is_draft \in BOOLEAN
      BY <1>2, RowsAreStorable
    <3>3. Completed([id |-> i], rows[i]).posted_at = rows[i].posted_at
      BY <1>3, <3>1
    <3>4. Completed([id |-> i], rows[i]).is_draft = rows[i].is_draft
      BY <1>3, <3>1
    <3> QED
      BY <3>2, <3>3, <3>4
  <2> QED
    BY <2>1 DEF AreReadRows, Known
<1>5. AreDated(checkpoints)
  BY <1>1, CheckpointsAssumption, DatesAreOneType, FieldTypes DEF AreDated
<1> QED
  BY <1>2, <1>4, <1>5 DEF Known

\* The months between two months of the calendar are in it.
LEMMA MonthsOfAWindow ==
  ASSUME NEW anchor \in Months, NEW n \in Nat, AddMonths(anchor, n) \in Months,
         NEW k \in 0..n
  PROVE  AddMonths(anchor, k) \in Months
<1> DEFINE next == AddMonths(anchor, k)
           last == AddMonths(anchor, n)
<1>1. /\ anchor \in Pairs /\ Absolute(anchor) \in Int
      /\ last \in Pairs /\ next \in Pairs
      /\ Absolute(next) = Absolute(anchor) + k
      /\ Absolute(last) = Absolute(anchor) + n
  BY MonthsArePairs, AddMonthsCounts
<1>2. last \in Months
  OBVIOUS
<1> HIDE DEF next, last
<1>3. /\ next[1] \in Int /\ next[2] \in 1..12 /\ next = <<next[1], next[2]>>
      /\ last[1] \in Int /\ last[2] \in 1..12
      /\ anchor[1] \in Int /\ anchor[2] \in 1..12
  BY <1>1 DEF Pairs
<1>4. /\ 12 * anchor[1] + anchor[2] <= 12 * next[1] + next[2]
      /\ 12 * next[1] + next[2] <= 12 * last[1] + last[2]
  BY <1>1, <1>3 DEF Absolute
<1>5. anchor[1] <= next[1] /\ next[1] <= last[1]
  BY <1>3, <1>4
<1>6. /\ anchor[1] \in 1..LastYear /\ last[1] \in 1..LastYear
      /\ LastYear \in Int
  <2>1. LastYear \in Int
    BY DEF LastYear
  <2>2. \A month \in Months : month[1] \in 1..LastYear
    <3>1. SUFFICES ASSUME NEW month \in (1..LastYear) \X (1..12)
                   PROVE  month[1] \in 1..LastYear
      BY DEF Months
    <3> QED
      OBVIOUS
  <2> QED
    BY <1>2, <2>1, <2>2
<1>7. 1 <= anchor[1] /\ last[1] <= LastYear
  BY <1>3, <1>6
<1>8. next[1] \in 1..LastYear
  BY <1>3, <1>5, <1>6, <1>7
<1> QED
  BY <1>3, <1>8 DEF Months, next

\* A report that is answered for a month more lies, with that month, in the
\* calendar.
LEMMA ReportsBeginInMonths ==
  ASSUME NEW query \in Reports
  PROVE  /\ query.anchor \in Months
         /\ \A k \in 0..query.months : AddMonths(query.anchor, k) \in Months
         /\ query.months \in Nat \ {0} /\ query.include_drafts \in BOOLEAN
<1> DEFINE anchor == query.anchor
           months == query.months
<1>1. /\ anchor # NoValue /\ months \in Nat \ {0}
      /\ query.include_drafts \in BOOLEAN
      /\ IsAnswerable(anchor, months + 1)
  BY ReportsAssumption
<1> HIDE DEF anchor, months
<1>2. anchor \in Months /\ AddMonths(anchor, months) \in Months
  <2>1. AnchorMonth(anchor) = anchor /\ (months + 1) - 1 = months
    BY <1>1 DEF AnchorMonth
  <2> QED
    BY <1>1, <2>1 DEF IsAnswerable
<1>3. \A k \in 0..months : AddMonths(anchor, k) \in Months
  BY <1>1, <1>2, MonthsOfAWindow
<1> QED
  BY <1>1, <1>2, <1>3 DEF anchor, months

\* Whatever the ledger has come to hold, two reports of it of which one
\* begins a month later tell the same of the months they share
\* (monthly_capacity_report.py:40-131).
THEOREM ReportsThatOverlapAgree == Spec => []WindowsAgree
<1>1. ASSUME LedgerInv PROVE WindowsAgree
  <2>1. AreReadRows(Known) /\ AreDated(checkpoints)
    BY <1>1, ReadsRows
  <2> SUFFICES ASSUME NEW query \in Reports, NEW k \in 1..(query.months - 1)
               PROVE  LET early == ReportOf(query, query.anchor)
                          late  == ReportOf(query, AddMonths(query.anchor, 1))
                      IN /\ early[k + 1].month = late[k].month
                         /\ early[k + 1].totals = late[k].totals
                         /\ k > 1 => early[k + 1].debtDrop = late[k].debtDrop
                         /\ late[k].wealth # NoValue =>
                              early[k + 1].wealth = late[k].wealth
    BY DEF WindowsAgree
  <2>2. /\ query.anchor \in Months /\ AddMonths(query.anchor, 1) \in Months
        /\ query.months \in Nat
    BY ReportsBeginInMonths
  <2> DEFINE annual == IF settings = NoValue THEN 100 ELSE settings
             early  == Report(Known, checkpoints, annual, query.anchor,
                              query.months, query.currency, query.include_drafts)
             late   == Report(Known, checkpoints, annual,
                              AddMonths(query.anchor, 1), query.months,
                              query.currency, query.include_drafts)
  <2>3. /\ early[k + 1].month = late[k].month
        /\ early[k + 1].totals = late[k].totals
        /\ k > 1 => early[k + 1].debtDrop = late[k].debtDrop
        /\ late[k].wealth # NoValue => early[k + 1].wealth = late[k].wealth
    <3> HIDE DEF annual
    <3> QED
      BY <2>1, <2>2, OverlappingReportsAgree
  <2>4. /\ ReportOf(query, query.anchor) = early
        /\ ReportOf(query, AddMonths(query.anchor, 1)) = late
    BY DEF ReportOf
  <2> HIDE DEF early, late
  <2> QED
    BY <2>3, <2>4
<1> QED
  BY <1>1, LedgerInvariant, PTL

LEMMA ListedAreReported ==
  ASSUME NEW txs, AreReadRows(txs), NEW month \in Months, NEW include \in BOOLEAN
  PROVE  ListedIn(txs, month, include)
           = {t \in txs : MonthOf(t.posted_at) = month /\ (include \/ ~ t.is_draft)}
<1> DEFINE first == FirstOf(month)
           last  == LastOf(month)
           filter(drafts) == [date_from |-> first, date_to |-> last,
                              is_draft |-> drafts]
<1>1. first # NoValue /\ last # NoValue
  <2>1. LastDay(month) \in {28, 29, 30, 31} /\ month[1] \in Int /\ month[2] \in Int
    BY DEF LastDay, Months
  <2>2. first \in Int \X Int \X Int /\ last \in Int \X Int \X Int
    BY <2>1 DEF FirstOf, LastOf
  <2> QED
    BY <2>2, NoValueAssumption
<1>2. ListedIn(txs, month, include) =
        {t \in txs : \E drafts \in (IF include THEN {TRUE, FALSE} ELSE {NoValue}) :
           Listed(filter(drafts), t)}
  BY DEF ListedIn, FirstOf, LastOf
<1> HIDE DEF first, last
<1>3. \A t, drafts : Listed(filter(drafts), t)
        <=> /\ t.is_draft = (IF drafts = NoValue THEN FALSE ELSE drafts)
            /\ OnOrBefore(first, t.posted_at) /\ OnOrBefore(t.posted_at, last)
  BY <1>1 DEF Listed, DraftsAsked, DatesAsked
<1> HIDE DEF filter
<1>4. NoValue # TRUE /\ NoValue # FALSE
  BY NoValueAssumption
<1>5. ASSUME NEW t \in txs
      PROVE  OnOrBefore(first, t.posted_at) /\ OnOrBefore(t.posted_at, last)
               <=> MonthOf(t.posted_at) = month
  <2>1. t.posted_at \in Dates /\ month \in Pairs
    BY MonthsArePairs DEF AreReadRows
  <2> DEFINE mine == MonthOf(t.posted_at)
  <2>2. mine \in Pairs /\ Absolute(mine) \in Int /\ Absolute(month) \in Int
    BY <2>1, DateHasMonth, MonthsArePairs
  <2>3. /\ OnOrBefore(first, t.posted_at) <=> Absolute(month) <= Absolute(mine)
        /\ OnOrBefore(t.posted_at, last) <=> Absolute(mine) <= Absolute(month)
    BY <2>1, DatesGoByMonths DEF first, last
  <2> HIDE DEF mine
  <2>4. Absolute(mine) = Absolute(month) <=> mine = month
    BY <2>1, <2>2, AbsoluteTellsMonths
  <2> QED
    BY <2>2, <2>3, <2>4 DEF mine
<1>6. ASSUME NEW t \in txs
      PROVE  (\E drafts \in (IF include THEN {TRUE, FALSE} ELSE {NoValue}) :
                Listed(filter(drafts), t))
               <=> (MonthOf(t.posted_at) = month /\ (include \/ ~ t.is_draft))
  <2>1. t.is_draft \in BOOLEAN
    BY DEF AreReadRows
  <2> DEFINE Dated == MonthOf(t.posted_at) = month
  <2>2. \A drafts : Listed(filter(drafts), t)
          <=> Dated /\ t.is_draft = (IF drafts = NoValue THEN FALSE ELSE drafts)
    BY <1>3, <1>5
  <2> HIDE DEF Dated
  <2>3. CASE include
    <3>1. Listed(filter(TRUE), t) <=> Dated /\ t.is_draft = TRUE
      BY <1>4, <2>2
    <3>2. Listed(filter(FALSE), t) <=> Dated /\ t.is_draft = FALSE
      BY <1>4, <2>2
    <3> QED
      BY <2>1, <2>3, <3>1, <3>2 DEF Dated
  <2>4. CASE ~ include
    <3>1. Listed(filter(NoValue), t) <=> Dated /\ t.is_draft = FALSE
      BY <2>2
    <3> QED
      BY <2>1, <2>4, <3>1 DEF Dated
  <2> QED
    BY <2>3, <2>4
<1> QED
  BY <1>2, <1>6

LEMMA ShownIsDue ==
  ASSUME NEW txs, AreReadRows(txs), NEW query \in Reports,
         NEW k \in 1..query.months, NEW field
  PROVE  ShownIn(txs, query, k, field)
           = Due(txs, Window(query.anchor, query.months)[k], Buckets[field],
                 query.currency, query.include_drafts)
<1> DEFINE anchor == query.anchor
           month  == Window(anchor, query.months)[k]
           n      == 12 * anchor[1] + anchor[2] + k - 2
<1>1. /\ anchor \in Months /\ query.months \in Nat
      /\ query.include_drafts \in BOOLEAN
      /\ \A i \in 0..query.months : AddMonths(anchor, i) \in Months
  BY ReportsBeginInMonths
<1>2. month = <<n \div 12, (n % 12) + 1>>
  <2>1. anchor[1] \in Int /\ anchor[2] \in Int /\ k \in Int
    BY <1>1, MonthsArePairs DEF Pairs
  <2>2. Absolute(anchor) + (k - 1) = n
    BY <2>1 DEF Absolute
  <2>3. month = AddMonths(anchor, k - 1)
    BY DEF Window
  <2> QED
    BY <2>2, <2>3 DEF AddMonths
<1>3. month \in Months
  BY <1>1 DEF Window
<1> HIDE DEF anchor, month, n
<1>4. ListedIn(txs, month, query.include_drafts)
        = {t \in txs : /\ MonthOf(t.posted_at) = month
                       /\ query.include_drafts \/ ~ t.is_draft}
  BY <1>1, <1>3, ListedAreReported
<1>5. ShownIn(txs, query, k, field)
        = {t \in ListedIn(txs, month, query.include_drafts) :
             /\ t.reverted_at = NoValue
             /\ t.currency = query.currency
             /\ t.report_bucket = Buckets[field]}
  BY <1>2 DEF ShownIn, n, anchor
<1> QED
  BY <1>4, <1>5 DEF Due, month, anchor

\* Whatever the ledger has come to hold, and whatever report is asked for,
\* its totals are the sums of what the listings show of the same months
\* (monthly_capacity_report.py:40-76, transactions.py:88-209).
THEOREM ReportsTellTheListings == Spec => []ReportMatchesListing
<1>1. ASSUME LedgerInv PROVE ReportMatchesListing
  <2>1. AreReadRows(Known)
    BY <1>1, ReadsRows
  <2> SUFFICES ASSUME NEW query \in Reports, NEW k \in 1..query.months,
                      NEW field \in DOMAIN Buckets
               PROVE  ReportOf(query, query.anchor)[k].totals[field]
                        = SumOf(field, ShownIn(Known, query, k, field))
    BY DEF ReportMatchesListing
  <2>2. /\ query.anchor \in Months /\ query.months \in Nat
        /\ query.include_drafts \in BOOLEAN
    BY ReportsBeginInMonths
  <2> DEFINE annual == IF settings = NoValue THEN 100 ELSE settings
             loaded == Loaded(Known, query.anchor, query.months,
                              query.currency, query.include_drafts)
             month  == Window(query.anchor, query.months)[k]
             bucket == Buckets[field]
             due    == Due(Known, month, bucket, query.currency,
                           query.include_drafts)
  <2>3. Report(Known, checkpoints, annual, query.anchor, query.months,
               query.currency, query.include_drafts)[k].totals
          = TotalsOf(Known, query.anchor, query.months, query.currency,
                     query.include_drafts)[k]
    <3> HIDE DEF annual
    <3> QED
      BY <2>2, ReportShows
  <2>4. ReportOf(query, query.anchor)[k].totals = Totals(loaded, month)
    BY <2>3 DEF ReportOf, TotalsOf
  <2>5. Totals(loaded, month)[field] = Total(loaded, month, bucket)
    <3> HIDE DEF loaded, month
    <3> QED
      BY DEF Totals, Buckets
  <2>6. bucket \in Reported /\ (bucket = "income" <=> field = "income")
    BY DEF Reported, CostBuckets, Buckets
  <2> HIDE DEF bucket
  <2>7. Total(loaded, month, bucket) = Sum(due, bucket)
    BY <2>1, <2>2, <2>6, TotalIsDue
  <2>8. ShownIn(Known, query, k, field) = due
    BY <2>1, ShownIsDue DEF bucket
  <2> HIDE DEF loaded, month, due
  <2>9. Sum(due, bucket) = SumOf(field, due)
    BY <2>6 DEF Sum, SumOf, MapThenSumSet, MapThenFoldSet
  <2> QED
    BY <2>4, <2>5, <2>7, <2>8, <2>9
<1> QED
  BY <1>1, LedgerInvariant, PTL
===============================================================================
