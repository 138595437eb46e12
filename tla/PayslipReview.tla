--------------------------- MODULE PayslipReview ---------------------------
(***************************************************************************)
(* What is made of one payslip that was read: the replay on the server     *)
(* (pro-facts.controller.ts, tier-c.ts) and the corrections the user makes *)
(* of it (ProDocuments.tsx, tier-c-shared.ts, POST /recompute).            *)
(*                                                                         *)
(* The document is what is printed; the reading is what a reader made of   *)
(* it.  Both are a record of                                               *)
(*   hours          a sequence of [amount, bt]                             *)
(*   pre_tax        a sequence of [amount, et, credit]                     *)
(*   post_tax       a sequence of [amount, credit]                         *)
(*   net_lines      a sequence of [amount, reimbursement]                  *)
(*   adjustments, reimbursements   sequences of amounts                    *)
(*   exchange       the printed ET exchange                                *)
(*   bt_percent, gross, lvh, table_tax, bt_tax, normal, special, net,      *)
(*   payout         the printed figures                                    *)
(*   typed          the period type was read                               *)
(*   dates          what its label and its dates say                       *)
(* where every amount is a set of at most one: {} was not read.            *)
(***************************************************************************)
EXTENDS PayslipArithmetic

CONSTANTS
  Documents,        \* the payslips that may be printed
  Readings(_),      \* what a reader may make of one
  MaxCorrections    \* the most corrections in flight

Amounts == {amount \in SUBSET Int : \A v, w \in amount : v = w}

\* What a reader answers has the shape of a payslip, whatever it says.
IsReading(facts) ==
  /\ {"hours", "net_lines", "adjustments", "reimbursements"} \subseteq DOMAIN facts
  /\ facts.hours \in Seq([amount : Amounts, bt : BOOLEAN])
  /\ facts.net_lines \in Seq([amount : Amounts, reimbursement : BOOLEAN])
  /\ facts.adjustments \in Seq(Amounts)
  /\ facts.reimbursements \in Seq(Amounts)
ASSUME ReadingsAssumption == \A printed \in Documents : \A facts \in Readings(printed) : IsReading(facts)

VARIABLES
  document,     \* the payslip
  factsRead,    \* the facts of it that were read
  phase,        \* of the entry: "reading", "ok", "unavailable"
  analysis,     \* payslipAnalysis: the period, its issues and discrepancies
  confirmed,    \* confirmedIssueKeys
  corrections   \* recomputations in flight

reviewVars == <<document, factsRead, phase, analysis, confirmed, corrections>>

(***************************************************************************)
(* From the reading to the period                                          *)
(***************************************************************************)
amountOrZero(amount) == IF amount = {} THEN 0 ELSE The(amount)

MagnitudeOrNone(optional) == {Magnitude(v) : v \in optional}
normalizeDeductionAmount(line) == {IF line.credit THEN -Magnitude(v) ELSE Magnitude(v) : v \in line.amount}
Values(amounts) == [i \in DOMAIN amounts |-> amountOrZero(amounts[i])]
ZeroFilled(lines) == [i \in DOMAIN lines |-> [lines[i] EXCEPT !.amount = amountOrZero(@)]]
Magnitudes(amounts) == [i \in DOMAIN amounts |-> Magnitude(amounts[i])]

\* The places of a list whose amounts were not read.
UnreadIn(list, amounts) == {<<list, i>> : i \in {j \in DOMAIN amounts : amounts[j] = {}}}

\* The facts as an extraction: an amount of a line that was not read stands as zero, and its place is listed.  The
\* lines before and after tax, and the printed figures, stay unread.
payslipFactsToTierCExtraction(facts) ==
  [facts EXCEPT !.hours = ZeroFilled(@), !.net_lines = ZeroFilled(@), !.adjustments = Values(@), !.reimbursements = Values(@)]
unreadable_amount_fields(facts) ==
  UNION {UnreadIn("hour_lines", AmountOf(facts.hours)), UnreadIn("net_lines", AmountOf(facts.net_lines)),
         UnreadIn("adjustments", facts.adjustments), UnreadIn("reimbursements", facts.reimbursements)}

EtLabeled(x) == SelectSeq(x.pre_tax, LAMBDA line : line.et)
resolveEtExchangeAmount(x) ==
  IF x.exchange # {} \/ EtLabeled(x) = <<>> THEN x.exchange ELSE sumKnownAmounts(AmountOf(EtLabeled(x)))

\* The net lines are split in two lists, of the reimbursements and of the rest; both keep the order of the lines.
PlacesOf(lines, reimbursement) == {i \in DOMAIN lines : lines[i].reimbursement = reimbursement}
PositionIn(places, i) == Cardinality({j \in places : j <= i})
NetLines(lines, reimbursement) ==
  LET places == PlacesOf(lines, reimbursement)
  IN  [k \in 1 .. Cardinality(places) |-> lines[CHOOSE i \in places : PositionIn(places, i) = k]]

\* The signs of the deductions before and after tax are settled with the labels; the net and the payout keep theirs.
normalizePeriodSigns(p) ==
  [p EXCEPT !.additions = Magnitudes(@), !.deductions = Magnitudes(@),
            !.et = {[exchange |-> Magnitude(et.exchange), reimbursements |-> Magnitudes(et.reimbursements)] : et \in @},
            !.gross = MagnitudeOrNone(@), !.lvh = MagnitudeOrNone(@), !.table_tax = MagnitudeOrNone(@),
            !.bt_tax = MagnitudeOrNone(@), !.normal = MagnitudeOrNone(@), !.special = MagnitudeOrNone(@)]

mapExtractionToPeriod(x) ==
  LET exchange == resolveEtExchangeAmount(x)
      wage == SelectSeq(x.pre_tax, LAMBDA line : ~line.et)
  IN  normalizePeriodSigns(
        [hour_lines |-> [i \in DOMAIN x.hours |-> [amount |-> x.hours[i].amount, bt |-> x.hours[i].bt]],
         pre_tax |-> [i \in DOMAIN wage |-> normalizeDeductionAmount(wage[i])],
         post_tax |-> [i \in DOMAIN x.post_tax |-> normalizeDeductionAmount(x.post_tax[i])],
         additions |-> AmountOf(NetLines(x.net_lines, TRUE)), deductions |-> AmountOf(NetLines(x.net_lines, FALSE)),
         adjustments |-> x.adjustments,
         et |-> IF exchange = {} /\ x.reimbursements = <<>> THEN {}
                ELSE {[exchange |-> amountOrZero(exchange), reimbursements |-> x.reimbursements]},
         bt_percent |-> x.bt_percent, gross |-> x.gross, lvh |-> x.lvh, table_tax |-> x.table_tax, bt_tax |-> x.bt_tax,
         normal |-> x.normal, special |-> x.special, net |-> x.net, payout |-> x.payout, dates |-> x.dates])

\* Where an unread amount stands in the period: a net line at its place among those of its kind.
remapUnreadableFieldToPeriodPath(field, x) ==
  IF field[1] # "net_lines" THEN field
  ELSE LET kind == x.net_lines[field[2]].reimbursement
       IN  <<IF kind THEN "additions" ELSE "deductions", PositionIn(PlacesOf(x.net_lines, kind), field[2])>>

PeriodOf(facts) == mapExtractionToPeriod(payslipFactsToTierCExtraction(facts))
UnreadPaths(facts) ==
  {remapUnreadableFieldToPeriodPath(field, payslipFactsToTierCExtraction(facts)) : field \in unreadable_amount_fields(facts)}

(***************************************************************************)
(* The issues and the corrections of them                                  *)
(***************************************************************************)
NoPath == <<"none", 0>>
Issue(code) == [code |-> code, field |-> NoPath]
Unreadable(path) == [code |-> "amount_unreadable", field |-> path]

FigurePath == [totals_do_not_reconcile_net |-> <<"net", 0>>, totals_do_not_reconcile_payout |-> <<"payout", 0>>,
               et_exchange_amount_unknown |-> <<"exchange", 0>>]
correctableFieldPath(issue) == IF issue.code \in DOMAIN FigurePath THEN FigurePath[issue.code] ELSE issue.field

AmountLists == {"additions", "deductions", "adjustments"}

\* The value of a path of a period.
GetPath(p, path) ==
  LET name == path[1]
  IN  IF name = "hour_lines" THEN {p.hour_lines[path[2]].amount}
      ELSE IF name \in AmountLists THEN {p[name][path[2]]}
      ELSE IF name = "reimbursements" THEN {et.reimbursements[path[2]] : et \in p.et}
      ELSE IF name = "exchange" THEN {et.exchange : et \in p.et}
      ELSE p[name]

\* A path of an ET reimbursement is not one of those it knows: the period stays as it was.
setPeriodFieldByPath(p, path, value) ==
  LET name == path[1]
  IN  IF name = "hour_lines" THEN [p EXCEPT !.hour_lines[path[2]].amount = value]
      ELSE IF name \in AmountLists THEN [p EXCEPT ![name][path[2]] = value]
      ELSE IF name = "exchange" THEN [p EXCEPT !.et = {[et EXCEPT !.exchange = value] : et \in @}]
      ELSE IF name \in {"net", "payout"} THEN [p EXCEPT ![name] = {value}]
      ELSE p

openNeedsConfirmation == {issue \in analysis.issues : issue \notin confirmed}

\* The card offers "yes, that is printed" for the two figures it can show, and a correction for every issue with a path.
Confirmable == {issue \in openNeedsConfirmation : issue.code \in {"totals_do_not_reconcile_net", "totals_do_not_reconcile_payout"}}
Correctable == {issue \in openNeedsConfirmation : correctableFieldPath(issue) # NoPath}

\* The period q with its signs put right is computed once, then compared and checked.
Reviewed(p, dates, more) ==
  LET Checked(q, outcome) ==
        [period |-> p, discrepancies |-> comparePeriodToDocument(q, outcome),
         issues |-> more \cup {Issue(code) : code \in checkExtractionConsistency(q, outcome)}]
  IN  The({Checked(q, computePayslipPeriod(q, TRUE)) : q \in {[normalizePeriodSigns(p) EXCEPT !.dates = dates]}})

(***************************************************************************)
(* POST /payslip-replay                                                    *)
(***************************************************************************)
NoAnalysis == [period |-> "none", discrepancies |-> {}, issues |-> {}]

ReviewInit ==
  /\ document \in Documents
  /\ factsRead \in Readings(document)
  /\ phase = "reading" /\ analysis = NoAnalysis /\ confirmed = {} /\ corrections = {}

ReplayPayslip ==
  /\ phase = "reading"
  /\ LET unknown == factsRead.reimbursements # <<>> /\ resolveEtExchangeAmount(factsRead) = {}
         gaps == {Unreadable(path) : path \in UnreadPaths(factsRead)} \cup {Issue("et_exchange_amount_unknown") : u \in {TRUE} \cap {unknown}}
     IN  IF factsRead.typed
         THEN /\ phase' = "ok"
              /\ analysis' = Reviewed(PeriodOf(factsRead), factsRead.dates, gaps)
         ELSE phase' = "unavailable" /\ UNCHANGED analysis
  /\ UNCHANGED <<document, factsRead, confirmed, corrections>>

\* The rates of the period are not there, the store is not there, or the answer is lost.
ReplayFails ==
  /\ phase = "reading"
  /\ phase' = "unavailable"
  /\ UNCHANGED <<document, factsRead, analysis, confirmed, corrections>>

(***************************************************************************)
(* The card                                                                *)
(***************************************************************************)
\* confirmNeedsConfirmationIssue: the user finds on the paper what was read.
Confirm(issue) ==
  /\ issue \in Confirmable
  /\ GetPath(analysis.period, correctableFieldPath(issue)) = GetPath(PeriodOf(document), correctableFieldPath(issue))
  /\ confirmed' = confirmed \cup {issue}
  /\ UNCHANGED <<document, factsRead, phase, analysis, corrections>>

\* outstandingAmountUnreadablePaths
Outstanding(issues, except) == {issue.field : issue \in {i \in issues : i.code = "amount_unreadable"}} \ {except}

\* Mutant of BeginCorrection: the other unread amounts are not sent along.
BeginCorrectionAlone(issue) ==
  LET path == correctableFieldPath(issue)
  IN  /\ issue \in Correctable
      /\ Cardinality(corrections) < MaxCorrections
      /\ \A c \in corrections : c.issue # issue
      /\ \E value \in GetPath(PeriodOf(document), path) :
           corrections' = corrections \cup
             {[issue |-> issue, path |-> path, value |-> value, of |-> analysis,
               period |-> setPeriodFieldByPath(analysis.period, path, value), flagged |-> {}]}
      /\ UNCHANGED <<document, factsRead, phase, analysis, confirmed>>

\* correctNeedsConfirmationIssue: the user types what is printed; the analysis the page shows is captured.
BeginCorrection(issue) ==
  LET path == correctableFieldPath(issue)
  IN  /\ issue \in Correctable
      /\ Cardinality(corrections) < MaxCorrections
      /\ \A c \in corrections : c.issue # issue
      /\ \E value \in GetPath(PeriodOf(document), path) :
           corrections' = corrections \cup
             {[issue |-> issue, path |-> path, value |-> value, of |-> analysis,
               period |-> setPeriodFieldByPath(analysis.period, path, value),
               flagged |-> Outstanding(analysis.issues, IF issue.code = "amount_unreadable" THEN issue.field ELSE NoPath)]}
      /\ UNCHANGED <<document, factsRead, phase, analysis, confirmed>>

\* /recompute refuses a period with unread amounts; the page keeps the correction and drops the issue.
AnswerUnreliable(c) ==
  /\ c \in corrections
  /\ c.flagged # {}
  /\ analysis' = [c.of EXCEPT !.period = c.period, !.issues = @ \ {c.issue}]
  /\ corrections' = corrections \ {c}
  /\ UNCHANGED <<document, factsRead, phase, confirmed>>

\* Otherwise all is computed and checked again, without the payment date.
AnswerOk(c) ==
  /\ c \in corrections
  /\ c.flagged = {}
  /\ analysis' = Reviewed(c.period, [factsRead.dates EXCEPT !.paid = {}], {})
  /\ confirmed' = {}
  /\ corrections' = corrections \ {c}
  /\ UNCHANGED <<document, factsRead, phase>>

CorrectionFails(c) ==
  /\ c \in corrections
  /\ corrections' = corrections \ {c}
  /\ UNCHANGED <<document, factsRead, phase, analysis, confirmed>>

ReviewNext ==
  \/ ReplayPayslip
  \/ ReplayFails
  \/ \E issue \in analysis.issues : Confirm(issue) \/ BeginCorrection(issue)
  \/ \E c \in corrections : AnswerUnreliable(c) \/ AnswerOk(c) \/ CorrectionFails(c)

ReviewSpec == ReviewInit /\ [][ReviewNext]_reviewVars

(***************************************************************************)
(* Properties                                                              *)
(***************************************************************************)
Lists == {"hours", "pre_tax", "post_tax", "net_lines"}
PrintedTotals == {"gross", "lvh", "table_tax", "bt_tax", "net", "payout"}
TruePeriod == PeriodOf(document)
WrongTax(outcome) == Differs(outcome.table_tax, document.table_tax, TaxTolerance)

\* NoAnalysis was misread: every line was found, and every amount read is the printed one.
NothingMisread ==
  /\ \A list \in Lists : /\ Len(factsRead[list]) = Len(document[list])
                          /\ \A i \in DOMAIN factsRead[list] : MagnitudeOrNone(factsRead[list][i].amount) \subseteq MagnitudeOrNone(document[list][i].amount)
  /\ Len(factsRead.adjustments) = Len(document.adjustments)
  /\ \A i \in DOMAIN factsRead.adjustments : factsRead.adjustments[i] \subseteq document.adjustments[i]
  /\ factsRead.reimbursements = document.reimbursements
  /\ \A total \in PrintedTotals : factsRead[total] \subseteq document[total]
  /\ factsRead.exchange = document.exchange /\ factsRead.dates = document.dates

AllAnswered == phase = "ok" /\ \A issue \in analysis.issues : issue.code # "amount_unreadable"
StatedGaps == {"net_position_unconfirmed", "pre_tax_not_confirmed"}

\* The tax and the deductions were read: without them the position of the net is not resolved, and its payout is
\* checked as if the net lines came after it.
ChainRead ==
  factsRead.table_tax # {} /\ \A list \in {"pre_tax", "post_tax"} : \A i \in DOMAIN factsRead[list] : factsRead[list][i].amount # {}

\* A payslip that was read rightly raises no alarm, whatever its layout: only the gaps that are stated as such, and a
\* discrepancy only when its printed tax is not that of the tables.  So too when amounts that were not read are typed in.
NoFalseAlarm ==
  AllAnswered /\ NothingMisread /\ ChainRead =>
    /\ {issue.code : issue \in analysis.issues} \subseteq StatedGaps
    /\ analysis.discrepancies # {} => WrongTax(computePayslipPeriod(TruePeriod, TRUE))

\* An amount that was not read stays open on the card until what is printed is in its place: no order of the
\* corrections and of their answers lets the zero that stands for it pass for a figure.
UnreadStaysOpen ==
  phase = "ok" =>
    \A path \in UnreadPaths(factsRead) :
      path[1] # "reimbursements" => Unreadable(path) \in analysis.issues \/ GetPath(analysis.period, path) = GetPath(TruePeriod, path)

(***************************************************************************)
(* The invariant of the review                                             *)
(***************************************************************************)
\* The unread amounts a correction can set.
LastingPaths(facts) == {path \in UnreadPaths(facts) : path[1] # "reimbursements"}

\* A period has an amount at this place.
HasPlace(p, path) ==
  /\ path[1] \in {"hour_lines"} \cup AmountLists
  /\ path[1] \in DOMAIN p
  /\ path[2] \in DOMAIN p[path[1]]
  /\ path[1] = "hour_lines" => "amount" \in DOMAIN p.hour_lines[path[2]]

AsPrinted(printed, p, path) == GetPath(p, path) = GetPath(PeriodOf(printed), path)

\* A review keeps the places of the unread amounts, and what it does not call unread is what is printed.
IsReview(printed, facts, a) ==
  /\ {"period", "issues"} \subseteq DOMAIN a
  /\ \A path \in LastingPaths(facts) :
       HasPlace(a.period, path) /\ (Unreadable(path) \in a.issues \/ AsPrinted(printed, a.period, path))

\* A correction in flight: an amount that its review does not call unread, or that it wrote itself, is what is printed;
\* and when it flags nothing, every amount is.
IsCorrection(printed, facts, c) ==
  /\ IsReview(printed, facts, c.of)
  /\ \A path \in LastingPaths(facts) :
       /\ HasPlace(c.period, path)
       /\ Unreadable(path) \in c.of.issues \ {c.issue} \/ AsPrinted(printed, c.period, path)
       /\ c.flagged = {} => AsPrinted(printed, c.period, path)

ReviewInv ==
  /\ document \in Documents /\ factsRead \in Readings(document)
  /\ phase = "ok" => IsReview(document, factsRead, analysis)
  /\ phase # "ok" => analysis = NoAnalysis /\ corrections = {}
  /\ \A c \in corrections : IsCorrection(document, factsRead, c)

============================================================================
