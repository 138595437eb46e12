------------------------- MODULE MCProfileResolution -------------------------
(***************************************************************************)
(* A small drawer of documents: two contracts, annexes with agreed,        *)
(* disputed, printed-only and missing dates, two of one date that state the*)
(* same rate, and payslips before, after, across and without the dates at  *)
(* which the rate changes.                                                 *)
(***************************************************************************)
EXTENDS ProfileResolution

Fact(field, value, status) == [field |-> field, value |-> value, status |-> status]
Exact(field, value) == Fact(field, value, "exact")
Line(kind, value) == [kind |-> kind, label |-> "line", value |-> value, issue |-> "none", adds |-> "yes", tier |-> 0]
Premium(category, value, semantics, tier) ==
  [category |-> category, value |-> value, status |-> "exact", semantics |-> semantics, tier |-> tier]

Document(id, role, user, facts, lines, premiums) ==
  LET merged == mergeBatches({Batch({1}, 1, facts, lines, premiums)})
  IN [id |-> id, role |-> role, user |-> user, facts |-> merged.facts, lines |-> merged.lines, premiums |-> merged.premiums]
Contract(id, facts, premiums) == Document(id, "contract_base", NoDate, facts, {}, premiums)
Annex(id, user, facts) == Document(id, "contract_annex", user, facts, {}, {})
Slip(id, from, to, facts, lines) ==
  Document(id, "payslip", NoDate, facts \cup {Exact("periodStart", from), Exact("periodEnd", to)}, lines, {})

MCReadings == {
  Contract(1, {Exact(Rate, 10), Exact("threshold", 40), Exact("caoPhase", 1)},
              {Premium("overtime", 25, "premium", 1), Premium("saturday", 150, "total_multiplier", 0), Premium("overtime", 130, "unclear", 2)}),
  Contract(2, {Exact("threshold", 38), Exact("caoPhase", 1)}, {}),
  Annex(3, 2, {Exact(Rate, 12), Exact("effectiveDate", 2)}),
  Annex(4, 2, {Exact(Rate, 14), Exact("effectiveDate", 4)}),
  Annex(5, NoDate, {Exact(Rate, 14), Exact("effectiveDate", 4), Exact("threshold", 36)}),
  Annex(6, NoDate, {Exact(Rate, 14)}),
  Annex(7, 3, {Fact(Rate, NoValue, "ambiguous")}),
  Annex(8, 2, {Exact(Rate, 12), Exact(Rate, 13)}),
  Annex(13, 4, {Exact(Rate, 10), Exact("effectiveDate", 2)}),
  Annex(14, NoDate, {Exact(Rate, 12), Fact(Rate, NoValue, "ambiguous"), Exact("effectiveDate", 2)}),
  Slip(9, 1, 1, {Exact("periodType", 1), Exact("employer", 1)}, {Line("regular", 10), Line("overtime", 125)}),
  Slip(10, 3, 3, {Exact("periodType", 1), Exact("employer", 1), Exact("employer", 2)},
       {Line("regular", 12), Line("pension", 5), Line("net", -20)}),
  Slip(11, 1, 3, {Exact("periodType", 2)}, {Line("regular", 12), Line("net", 25), Line("overtime", 30)}),
  Slip(12, NoDate, NoDate, {Exact(Rate, 12), Fact("employer", NoValue, "ambiguous")}, {Line("reimbursement", 15), Line("pension", NoValue)})}
=============================================================================
