------------------------- MODULE DocumentKnowledge -------------------------
(***************************************************************************)
(* What is shown of one payslip that was read: the typed facts of          *)
(* apps/backend-node/src/document-context/knowledge.ts, built from the     *)
(* merged facts of its batches, and the summary the Payslip Analysis       *)
(* screen makes of them (printedSummary of payslip-analysis.ts).           *)
(*                                                                         *)
(* A piece of knowledge is [key, value, status, page, at]; `at' tells the  *)
(* lines of a page apart.  Labels, topics and units are left out.          *)
(***************************************************************************)
EXTENDS FactExtraction, FiniteSetsExt

Document == INSTANCE DocumentFacts

Known(key, value, page, at) == [key |-> key, value |-> value, status |-> "document_reading", page |-> page, at |-> at]
FirstPage(facts) == CHOOSE f \in facts : \A g \in facts : f.page <= g.page

\* exactValue, then the scalar: the first exact occurrence.
ScalarKnowledge(facts, field, key) ==
  LET exact == {f \in Document!occurrences(facts, field) : f.status = "exact"}
      shown(f) == IF key \in {"tax", "tax_special"} THEN Unsigned(f.value) ELSE f.value
  IN  {Known(key, shown(f), f.page, 0) : f \in {FirstPage(e) : e \in {exact} \ {{}}}}

SCALAR_KEYS ==
  [periodLabel |-> "period_label", periodStart |-> "period_start", periodEnd |-> "period_end", periodType |-> "period_type",
   printedGrossTotal |-> "gross_total", printedNet |-> "net", printedPayout |-> "payout",
   printedTableTax |-> "tax", printedBtTax |-> "tax_special"]

AmountKey(line) ==
  CASE line.list = "hour_lines"             -> "wage_line_amount"
    [] line.list = "deduction_lines"        -> "deduction"
    [] line.list = "et_reimbursement_lines" -> "reimbursement"
    [] line.list = "net_lines"              -> IF line.kind = "reimbursement" THEN "reimbursement" ELSE "net_deduction"
    [] OTHER                                -> "none"

\* An amount loses its sign; the key says what it is.
LineKnowledge(line) ==
  LET of(key, values) == {Known(key, v, line.page, line.at) : v \in values}
      hours == line.list = "hour_lines"
  IN  (IF AmountKey(line) = "none" THEN {} ELSE of(AmountKey(line), {Unsigned(v) : v \in line.numbers.amount}))
        \cup (IF hours /\ line.kind = "regular" THEN of("regular_hours", line.numbers.hours) ELSE {})
        \cup (IF hours /\ line.kind = "overtime" THEN of("overtime_hours", line.numbers.hours) ELSE {})
        \cup (IF hours /\ line.kind \in {"adv_compensation", "irregular_surcharge"}
                THEN of("surcharge_percent", line.numbers.percent) ELSE {})

payslipFacts(doc) ==
  (UNION {ScalarKnowledge(doc.facts, f, SCALAR_KEYS[f]) : f \in DOMAIN SCALAR_KEYS})
    \cup UNION {LineKnowledge(l) : l \in doc.lines}

\* The printed base rates that are candidates for the profile's: the header's, and those of the regular lines.
RateReadings(doc) ==
  {f.value : f \in {g \in Document!occurrences(doc.facts, "hourlyRate") : g.status \in {"exact", "contradiction"}}}
    \cup UNION {{v \in l.numbers.rate : v > 0} : l \in {k \in doc.lines : k.list = "hour_lines" /\ k.kind = "regular"}}

\* Two different rates are a conflict nobody resolves.
rateFacts(doc) ==
  LET readings == RateReadings(doc)
  IN  {[Known("hourly_rate", v, 0, 0) EXCEPT !.status = IF Cardinality(readings) > 1 THEN "conflict" ELSE @] : v \in readings}

buildDocumentKnowledge(doc) == rateFacts(doc) \cup payslipFacts(doc)

(***************************************************************************)
(* printedSummary                                                          *)
(***************************************************************************)
ValuesOf(knowledge, key) == {k.value : k \in {l \in knowledge : l.key = key}}
SumOf(knowledge, key) ==
  {MapThenSumSet(LAMBDA k : k.value, of) : of \in {{k \in knowledge : k.key = key}} \ {{}}}

printedSummary(knowledge) ==
  [rates |-> ValuesOf(knowledge, "hourly_rate"),
   period |-> ValuesOf(knowledge, "period_type"),
   gross |-> ValuesOf(knowledge, "gross_total"), net |-> ValuesOf(knowledge, "net"), payout |-> ValuesOf(knowledge, "payout"),
   regularHours |-> SumOf(knowledge, "regular_hours"), overtimeHours |-> SumOf(knowledge, "overtime_hours"),
   lines |-> {k \in knowledge : k.key \in {"wage_line_amount", "deduction", "net_deduction", "reimbursement", "tax", "tax_special"}}]

(***************************************************************************)
(* What the replay makes of the same facts (payslipFactsToTierCExtraction) *)
(***************************************************************************)
PeriodTypeKnown(doc) == Document!singleExactValue(doc.facts, "periodType") \in PERIOD_TYPES

\* The lines whose amount stands as zero because it was not read; a deduction keeps that it was not.
UnreadAmounts(doc) ==
  {l \in doc.lines : \E f \in DOMAIN l.numbers \cap {"amount", "accrued", "paidOut"} : l.list # "deduction_lines" /\ l.numbers[f] = {}}
=============================================================================
