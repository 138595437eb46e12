------------------------- MODULE PayslipArithmetic -------------------------
(***************************************************************************)
(* The arithmetic of one payslip period: the computation of its tax and    *)
(* net (payslip-model.ts), the checks of the document's own totals         *)
(* (extraction-consistency.ts) and the comparison of the two               *)
(* (discrepancy.ts).                                                       *)
(*                                                                         *)
(* Amounts are whole cents.  A figure that may be absent or unread is a    *)
(* set of at most one amount.  A period is a record of                     *)
(*   hour_lines               a sequence of [amount, bt]                   *)
(*   pre_tax, post_tax        sequences of optional amounts                *)
(*   additions, deductions, adjustments   sequences of amounts             *)
(*   et          none or one [exchange, reimbursements]                    *)
(*   bt_percent               the printed special rate, optional           *)
(*   gross, lvh, table_tax, bt_tax, normal, special, net, payout           *)
(*                            the printed figures, optional                *)
(*   dates                    what its label and its dates say             *)
(***************************************************************************)
EXTENDS Integers, Sequences, FiniteSets, SequencesExt

CONSTANTS
  Rates,            \* multiplier, brackets and the two tax credits of the period's year
  TaxTolerance,     \* tableTaxToleranceFor the period type
  BtTolerance,      \* BT_TAX_TOLERANCE
  MeaningfulBase    \* MEANINGFUL_TAXABLE_BASE

ASSUME RatesAssumption ==
  /\ Rates.multiplier \in Nat \ {0}
  /\ Rates.brackets \in Seq([from : Nat, to : Nat, percent : Nat])
  /\ Rates.algemene \in [most : Nat, start : Nat, percent : Nat]
  /\ Rates.arbeidskorting \in [most : Nat, start : Nat, percent : Nat, top : Nat, buildup : Nat]

Sum(amounts) == SumFunction(amounts)
The(optional) == CHOOSE v \in optional : TRUE
AmountOf(lines) == [i \in DOMAIN lines |-> lines[i].amount]

Magnitude(v) == IF v < 0 THEN -v ELSE v
Lesser(a, b) == IF a < b THEN a ELSE b
NotNegative(v) == IF v < 0 THEN 0 ELSE v
Rounded(a, b) == (2 * a + b) \div (2 * b)

sumKnownAmounts(amounts) ==
  IF \E i \in DOMAIN amounts : amounts[i] = {} THEN {} ELSE {Sum([i \in DOMAIN amounts |-> The(amounts[i])])}

GrossTotal(p) == Sum(AmountOf(p.hour_lines))
PreTaxSum(p) == sumKnownAmounts(p.pre_tax)
PostTaxSum(p) == sumKnownAmounts(p.post_tax)
EtReduction(p) == IF p.et = {} THEN 0 ELSE The(p.et).exchange
EtReimbursements(p) == IF p.et = {} THEN <<>> ELSE The(p.et).reimbursements
HasBtLine(p) == \E i \in DOMAIN p.hour_lines : p.hour_lines[i].bt
bt_state(p) == IF p.bt_percent # {} THEN "known" ELSE IF HasBtLine(p) THEN "unknown" ELSE "not_applicable"
BtTaxComponent(p) == IF bt_state(p) = "not_applicable" THEN {0} ELSE p.bt_tax

(***************************************************************************)
(* computePayslipPeriod.  Annual amounts are in hundredths of a cent, so   *)
(* that a percentage of one is whole.                                      *)
(***************************************************************************)
progressiveTax(annual) ==
  Sum([i \in DOMAIN Rates.brackets |->
         LET b == Rates.brackets[i] IN IF annual <= b.from THEN 0 ELSE (Lesser(annual, b.to) - b.from) * b.percent])

PhasedOut(credit, annual) ==
  IF annual > credit.start THEN NotNegative(credit.most * 100 - (annual - credit.start) * credit.percent) ELSE credit.most * 100

arbeidskorting(annual) ==
  LET credit == Rates.arbeidskorting
  IN  IF annual <= credit.start THEN Lesser(NotNegative(annual), credit.top) * credit.buildup ELSE PhasedOut(credit, annual)

computePayslipPeriod(p, applyLoonheffingskorting) ==
  LET btGross == Sum([i \in DOMAIN p.hour_lines |-> IF p.hour_lines[i].bt THEN p.hour_lines[i].amount ELSE 0])
      preTax == IF PreTaxSum(p) = {} THEN 0 ELSE The(PreTaxSum(p))
      table == GrossTotal(p) - btGross - preTax - EtReduction(p)
      annual == table * Rates.multiplier
      PerPeriod(annualTax) == Rounded(annualTax, 100 * Rates.multiplier)
      korting == IF applyLoonheffingskorting THEN PerPeriod(PhasedOut(Rates.algemene, annual)) + PerPeriod(arbeidskorting(annual)) ELSE 0
      tableTax == NotNegative(PerPeriod(progressiveTax(annual)) - korting)
      btTax == IF p.bt_percent # {} /\ btGross > 0 THEN Rounded(btGross * The(p.bt_percent), 100) ELSE 0
      base == table + btGross
      complete == PreTaxSum(p) # {} /\ PostTaxSum(p) # {} /\ ~(btGross > 0 /\ p.bt_percent = {})
      wageNet == base - tableTax - btTax - (IF complete THEN The(PostTaxSum(p)) ELSE 0)
      periodNet == wageNet + Sum(p.additions) + Sum(EtReimbursements(p)) - Sum(p.deductions)
  IN  [complete |-> complete, gross_total |-> GrossTotal(p), taxable_base |-> base, table_tax |-> tableTax, bt_tax |-> btTax,
       wage_net |-> wageNet, period_net |-> periodNet, payout |-> periodNet + Sum(p.adjustments)]

(***************************************************************************)
(* The positions of the chain a printed figure may stand at.  A sum of n   *)
(* printed figures may be off by half a cent for each.                     *)
(***************************************************************************)
Within(residual, n) == 2 * Magnitude(residual) <= n

etReductionAddsUncertainty(p) == p.et # {} /\ EtReduction(p) # 0

resolveTaxableBasePosition(p) == {GrossTotal(p) - pre - EtReduction(p) : pre \in PreTaxSum(p)}

\* The positions a printed subtotal reproduces: the gross lines, less the pre-tax deductions, less the ET reduction.
PositionsOf(p, printed) ==
  LET lines == 1 + Len(p.hour_lines)
  IN  {pos \in {"gross", "lvh", "base"} :
         \/ pos = "gross" /\ Within(printed - GrossTotal(p), lines)
         \/ pos = "lvh" /\ \E pre \in PreTaxSum(p) : Within(printed - (GrossTotal(p) - pre), lines + Len(p.pre_tax))
         \/ pos = "base" /\ \E b \in resolveTaxableBasePosition(p) :
                              Within(printed - b, lines + Len(p.pre_tax) + IF etReductionAddsUncertainty(p) THEN 1 ELSE 0)}

resolveSubtotalRole(p, printed) ==
  LET at == PositionsOf(p, printed)
  IN  CASE {"gross", "lvh"} \subseteq at -> [role |-> "ambiguous_both_match", subtotal |-> {printed}]
        [] "gross" \in at /\ "lvh" \notin at -> [role |-> "confirmed_gross", subtotal |-> {printed}]
        [] "lvh" \in at /\ "gross" \notin at -> [role |-> "confirmed_loon_voor_heffingen", subtotal |-> {printed}]
        [] at = {"base"} -> [role |-> "confirmed_taxable_base", subtotal |-> resolveTaxableBasePosition(p)]
        [] at = {} -> [role |-> "unresolved", subtotal |-> {printed}]

\* Both subtotals are printed: each confirms its own, unless the figures show that one plays the other's part.
BothAnchors(p) ==
  LET gross == PositionsOf(p, The(p.gross))
      lvh == PositionsOf(p, The(p.lvh))
  IN  CASE gross = {"base"} /\ lvh = {} -> [role |-> "confirmed_taxable_base", subtotal |-> p.gross]
        [] lvh = {"base"} /\ gross = {} -> [role |-> "confirmed_taxable_base", subtotal |-> p.lvh]
        [] "gross" \notin gross /\ "lvh" \in gross /\ lvh = {} -> [role |-> "confirmed_loon_voor_heffingen", subtotal |-> p.gross]
        [] "lvh" \notin lvh /\ "gross" \in lvh /\ gross = {} -> [role |-> "confirmed_gross", subtotal |-> p.lvh]
        [] OTHER -> [role |-> "both", subtotal |-> {}]

resolveAnchors(p) ==
  IF p.gross # {} /\ p.lvh # {} THEN BothAnchors(p)
  ELSE IF p.gross = {} /\ p.lvh = {} THEN [role |-> "none", subtotal |-> {}]
  ELSE resolveSubtotalRole(p, The(p.gross \cup p.lvh))

(***************************************************************************)
(* The net: before the deductions after tax, before the net lines, or      *)
(* after them, and what the payout then is.                                *)
(***************************************************************************)
resolveNetChainPositions(p, base) ==
  LET first == base - The(p.table_tax) - The(BtTaxComponent(p))
      before == first - The(PostTaxSum(p))
      after == before + Sum(p.additions) - Sum(p.deductions) + Sum(EtReimbursements(p))
      netLines == Len(p.additions) + Len(p.deductions) + Len(EtReimbursements(p))
  IN  <<[at |-> "taxable_base_net", value |-> first, n |-> 4],
        [at |-> "before", value |-> before, n |-> 4 + Len(p.post_tax)],
        [at |-> "after", value |-> after, n |-> 4 + Len(p.post_tax) + netLines]>>

\* The first position the printed net reproduces.
resolveNetStageMatch(p, base) ==
  LET matching == SelectSeq(resolveNetChainPositions(p, base), LAMBDA c : Within(c.value - The(p.net), c.n))
  IN  IF matching = <<>> THEN "none" ELSE matching[1].at

\* Mutant of resolveImpliedPayout: the deductions after tax are taken for paid whatever the net was.
resolveImpliedPayoutBefore(p, at) ==
  [value |-> The(p.net) + Sum(p.additions) - Sum(p.deductions) + Sum(EtReimbursements(p)) + Sum(p.adjustments),
   n |-> 2 + Len(p.additions) + Len(p.deductions) + Len(EtReimbursements(p)) + Len(p.adjustments)]

resolveImpliedPayout(p, at) ==
  LET netLines == Sum(p.additions) - Sum(p.deductions) + Sum(EtReimbursements(p))
      count == Len(p.additions) + Len(p.deductions) + Len(EtReimbursements(p))
      own == The(p.net) + Sum(p.adjustments)
      n == 2 + Len(p.adjustments)
  IN  CASE at = "after" -> [value |-> own, n |-> n]
        [] at = "taxable_base_net" /\ PostTaxSum(p) # {} ->
             [value |-> own - The(PostTaxSum(p)) + netLines, n |-> n + Len(p.post_tax) + count]
        [] OTHER -> [value |-> own + netLines, n |-> n + count]

(***************************************************************************)
(* checkExtractionConsistency: the codes of its issues                     *)
(***************************************************************************)
When(condition, code) == IF condition THEN {code} ELSE {}

PeriodCodes(d) ==
  When(d.paid # {} /\ d.ends # {} /\ d.paid # d.ends, "period_year_mismatch")
    \cup When(\E days \in d.days : days \notin d.expected, "period_length_mismatch")
    \cup When(d.namesWeek /\ d.labelWeek # {} /\ d.endWeek # {} /\ d.labelWeek # d.endWeek, "period_week_mismatch")

TaxBasesCodes(p) ==
  When(\E normal \in p.normal, special \in p.special, base \in resolveTaxableBasePosition(p) :
         ~Within(normal + special - base, IF etReductionAddsUncertainty(p) THEN 4 ELSE 3),
       "printed_tax_bases_do_not_reconcile")

NetStage(p, base, code) ==
  IF p.net = {} \/ PostTaxSum(p) = {} THEN [codes |-> {}, at |-> "none"]
  ELSE IF p.table_tax = {} \/ BtTaxComponent(p) = {} THEN [codes |-> {"printed_tax_unknown"}, at |-> "none"]
  ELSE LET at == resolveNetStageMatch(p, base) IN [codes |-> When(at = "none", code), at |-> at]

Unknown(code) == [codes |-> {code}, at |-> "none"]

BothStages(p) ==
  IF The(p.gross) < The(p.lvh) THEN Unknown("anchors_inverted")
  ELSE LET grossCodes == When(~Within(GrossTotal(p) - The(p.gross), 1 + Len(p.hour_lines)), "gross_lines_do_not_reconcile")
           later == IF PreTaxSum(p) = {} THEN Unknown("pre_tax_unknown")
                    ELSE LET net == NetStage(p, The(resolveTaxableBasePosition(p)), "net_does_not_reconcile")
                         IN  [net EXCEPT !.codes = @ \cup When(~Within(The(p.gross) - The(PreTaxSum(p)) - The(p.lvh), 2 + Len(p.pre_tax)),
                                                               "pre_tax_does_not_reconcile")]
       IN  [later EXCEPT !.codes = @ \cup grossCodes]

NoAnchorStage(p) ==
  IF p.net = {} \/ PostTaxSum(p) = {} THEN [codes |-> {}, at |-> "none"]
  ELSE IF PreTaxSum(p) = {} THEN Unknown("pre_tax_unknown")
  ELSE NetStage(p, The(resolveTaxableBasePosition(p)), "totals_do_not_reconcile_net")

OneAnchorStage(p, anchor) ==
  IF anchor.role = "unresolved" THEN Unknown("printed_subtotal_role_unresolved")
  ELSE IF anchor.role = "confirmed_gross" /\ PreTaxSum(p) = {} THEN Unknown("pre_tax_unknown")
  ELSE LET printed == The(anchor.subtotal)
           base == CASE anchor.role = "confirmed_gross" -> printed - The(PreTaxSum(p)) - EtReduction(p)
                     [] anchor.role = "confirmed_taxable_base" -> printed
                     [] OTHER -> printed - EtReduction(p)
           net == NetStage(p, base, "net_does_not_reconcile")
           unconfirmed == /\ anchor.role # "confirmed_loon_voor_heffingen" /\ p.pre_tax = <<>>
                          /\ etReductionAddsUncertainty(p) /\ net.at # "none"
       IN  [net EXCEPT !.codes = @ \cup When(unconfirmed, "pre_tax_not_confirmed")]

TotalsStage(p) ==
  LET anchor == resolveAnchors(p)
  IN  CASE anchor.role = "both" -> BothStages(p)
        [] anchor.role = "none" -> NoAnchorStage(p)
        [] OTHER -> OneAnchorStage(p, anchor)

PayoutCodes(p, at) ==
  LET implied == resolveImpliedPayout(p, at)
  IN  When(p.net # {} /\ \E payout \in p.payout : ~Within(implied.value - payout, implied.n), "totals_do_not_reconcile_payout")
        \cup When(/\ at = "taxable_base_net" /\ p.net # {} /\ p.payout = {}
                  /\ PostTaxSum(p) # {} /\ The(PostTaxSum(p)) # 0
                  /\ p.additions = <<>> /\ p.deductions = <<>> /\ EtReimbursements(p) = <<>>,
                  "net_position_unconfirmed")

EtCodes(p) ==
  LET reimbursements == EtReimbursements(p)
  IN  When(reimbursements # <<>> /\ ~Within(Sum(reimbursements) - EtReduction(p), 1 + Len(reimbursements)),
           "et_reduction_reimbursement_mismatch")

checkExtractionConsistency(p, outcome) ==
  When(outcome.taxable_base > MeaningfulBase /\ outcome.table_tax = 0 /\ \E tax \in p.table_tax : tax > 0, "zero_tax_nonzero_base")
    \cup PeriodCodes(p.dates)
    \cup When(p.net = {} /\ p.hour_lines # <<>> /\ (p.table_tax = {} \/ BtTaxComponent(p) = {}), "printed_tax_unknown")
    \cup TaxBasesCodes(p) \cup EtCodes(p)
    \cup UNION {totals.codes \cup PayoutCodes(p, totals.at) : totals \in {TotalsStage(p)}}

(***************************************************************************)
(* comparePeriodToDocument: the codes of its discrepancies                 *)
(***************************************************************************)
Differs(computed, printed, tolerance) == \E v \in printed : Magnitude(computed - v) > tolerance

NetDiffers(p, outcome) ==
  \A computed \in {outcome.taxable_base - outcome.table_tax - outcome.bt_tax, outcome.wage_net, outcome.period_net} :
    Differs(computed, p.net, TaxTolerance)

comparePeriodToDocument(p, outcome) ==
  When(Differs(outcome.table_tax, p.table_tax, TaxTolerance), "table_tax_mismatch")
    \cup When(Differs(outcome.bt_tax, p.bt_tax, BtTolerance), "bt_tax_mismatch")
    \cup When(outcome.complete /\ NetDiffers(p, outcome), "net_mismatch")
    \cup When(outcome.complete /\ Differs(outcome.payout, p.payout, TaxTolerance), "payout_mismatch")
============================================================================
