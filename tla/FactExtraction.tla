--------------------------- MODULE FactExtraction ---------------------------
(***************************************************************************)
(* From what the reader model answers for a batch of pages to the facts    *)
(* the server keeps (apps/backend-node/src/ocr-service/fact-extraction.ts):*)
(* the answer is never taken as it is.  A scalar or a number of a line     *)
(* becomes exact only when its word is one of the vocabulary or its number *)
(* is printed in the fragment cited for it and is plausible.               *)
(*                                                                         *)
(* A scalar's value is an integer as in DocumentFacts: hundredths, a day,  *)
(* or the code of a word; 0 is no value.  A line's numbers are sets of at  *)
(* most one, so that an amount of zero is one.  Labels are left out.       *)
(***************************************************************************)
EXTENDS PrintedNumbers, FiniteSets

NoValue == 0
Personal == -1                        \* a text that matches a personal-data pattern
NotADate == -2                        \* a text that is no calendar date
PERIOD_TYPES == {1, 2, 3}             \* "week", "4-weekly", "month"; every other word has another code

PAYSLIP_SCALAR_UNITS ==
  [periodLabel |-> "text", periodStart |-> "date", periodEnd |-> "date", paymentDate |-> "date", periodType |-> "period_type",
   hirerName |-> "text", employer |-> "text", hoursPerWeek |-> "hours_per_week", hourlyRate |-> "eur_per_hour",
   bijzonderTariefPercent |-> "percent", minimumWagePrinted |-> "eur_per_hour", jaarloonBt |-> "eur_per_year",
   etExchangeAmount |-> "eur_per_period", printedTableTax |-> "eur_per_period", printedBtTax |-> "eur_per_period",
   printedGrossTotal |-> "eur_per_period", printedNet |-> "eur_per_period", printedPayout |-> "eur_per_period"]

IsText(key) == PAYSLIP_SCALAR_UNITS[key] \in {"text", "date", "period_type"}

(***************************************************************************)
(* Plausibility: the reason a number is refused for, or "none"             *)
(***************************************************************************)
positive(value, max, reason) ==
  IF value <= 0 THEN "out_of_range" ELSE IF value > 100 * max THEN reason ELSE "none"

NumericCheck(key, value) ==
  CASE key = "hoursPerWeek"           -> positive(value, 168, "exceeds_physical_hours_per_week")
    [] key = "hourlyRate"             -> positive(value, 200, "exceeds_plausible_hourly_rate")
    [] key = "minimumWagePrinted"     -> positive(value, 200, "exceeds_plausible_hourly_rate")
    [] key = "bijzonderTariefPercent" -> positive(value, 100, "percent_out_of_range")
    [] OTHER -> "none"

LineCheck(list, field, value) ==
  CASE list = "hour_lines" /\ field = "hours"        -> positive(value, 400, "out_of_range")
    [] list = "hour_lines" /\ field = "rate"         -> positive(value, 200, "exceeds_plausible_hourly_rate")
    [] list = "hour_lines" /\ field = "percent"      -> positive(value, 500, "percent_out_of_range")
    [] list = "deduction_lines" /\ field = "percent" -> positive(value, 100, "percent_out_of_range")
    [] OTHER -> "none"

(***************************************************************************)
(* Evidence                                                                *)
(***************************************************************************)
\* The page a fact claims, 0 unless it is one of the batch; a fragment with personal data is dropped.
evidencePage(page, pages) == IF page \in pages THEN page ELSE 0
cleanRaw(evidence) == {raw \in evidence : ~raw.personal}
cleanText(value) == IF value = Personal THEN NoValue ELSE value


exactOrRejected(key, value, evidence) ==
  LET reject(status, reason) == [value |-> NoValue, status |-> status, reason |-> reason]
      unit == PAYSLIP_SCALAR_UNITS[key]
  IN  CASE ~IsText(key) /\ ~rawSupportsNumber(evidence, value) -> reject("ambiguous", "raw_value_mismatch")
        [] ~IsText(key) /\ NumericCheck(key, value) # "none" -> reject("implausible", NumericCheck(key, value))
        [] unit = "date" /\ value = NotADate -> reject("implausible", "invalid_date")
        [] unit = "period_type" /\ value \notin PERIOD_TYPES -> reject("ambiguous", "unrecognized_code")
        [] OTHER -> [value |-> value, status |-> "exact", reason |-> "none"]

\* The fact of a scalar the reader answered for, none when it says the document does not print it.
mapScalar(answer, pages) ==
  LET evidence == cleanRaw(answer.raw)
      value == IF IsText(answer.key) THEN cleanText(answer.value) ELSE answer.value
      ambiguous(reason) == [value |-> NoValue, status |-> "ambiguous", reason |-> reason]
      read == CASE answer.status # "found"     -> ambiguous("reader_marked_ambiguous")
                [] answer.value = NoValue      -> ambiguous("value_not_normalizable")
                [] value = NoValue             -> ambiguous("pii_redacted")
                [] OTHER                       -> exactOrRejected(answer.key, value, evidence)
  IN  {[field |-> answer.key, value |-> read.value, status |-> read.status, reason |-> read.reason,
        raw |-> evidence, page |-> evidencePage(answer.page, pages)] : a \in {b \in {answer} : b.status # "absent"}}

(***************************************************************************)
(* Lines                                                                   *)
(***************************************************************************)
LINE_FIELDS ==
  [hour_lines |-> {"hours", "rate", "percent", "amount"}, deduction_lines |-> {"percent", "base", "amount"},
   net_lines |-> {"amount"}, et_reimbursement_lines |-> {"amount"}, payout_adjustment_lines |-> {"amount"},
   reservation_lines |-> {"accrued", "paidOut"}]

\* Why a number of a line is not taken, "none" when it is; a number the reader gave none for has no reason.
LineIssue(answer, field, evidence) ==
  LET value == CHOOSE v \in answer.numbers[field] : TRUE
  IN  CASE field \in answer.unclear                      -> "reader_marked_ambiguous"
        [] answer.numbers[field] = {}                    -> "none"
        [] ~rawSupportsNumber(evidence, value)           -> "raw_value_mismatch"
        [] OTHER -> LineCheck(answer.list, field, Unsigned(value))

lineNumber(answer, field, evidence) ==
  IF LineIssue(answer, field, evidence) = "none" THEN answer.numbers[field] ELSE {}

\* mapHourLine, mapDeductionLine, mapNetLine, mapAmountLine and mapReservationLine.
mapLine(answer, pages) ==
  LET evidence == cleanRaw(answer.raw)  fields == LINE_FIELDS[answer.list]
  IN  [list |-> answer.list, kind |-> answer.kind, at |-> answer.at,
       numbers |-> [f \in fields |-> lineNumber(answer, f, evidence)],
       issues |-> {f \in fields : LineIssue(answer, f, evidence) # "none"},
       raw |-> evidence, page |-> evidencePage(answer.page, pages)]

(***************************************************************************)
(* One response                                                            *)
(***************************************************************************)
mapPayslipFactsResponse(answers, pages) ==
  [facts |-> UNION {mapScalar(a, pages) : a \in {b \in answers : b.list = "scalars"}},
   lines |-> {mapLine(a, pages) : a \in {b \in answers : b.list # "scalars"}}]
=============================================================================
