--------------------------- MODULE PayrollProfile ---------------------------
(***************************************************************************)
(* The documentary Payroll Profile: resolvePayrollProfile of               *)
(* payroll-profile.ts over contract-timeline.ts.  A pure function of the   *)
(* documents read and of the as-of date; every field is resolved on its    *)
(* own from the evidence all documents give for it.                        *)
(*                                                                         *)
(* A document is a record [id, role, user, facts, lines, premiums]: its    *)
(* identity (documentId), its role, the date the user typed for an annex,  *)
(* and its merged facts.  `docs' is the sequence in request order, which   *)
(* is what breaks the ties of the timeline.                                *)
(*                                                                         *)
(* One field of each kind stands for the fields resolved the same way:     *)
(*   hourlyRate   contract timeline and payslips (hoursPerWeek too)        *)
(*   threshold    contract timeline only (11 fields)                       *)
(*   caoPhase     every contract in force (contractHirerName too)          *)
(*   periodType   payslips only (hirerName, jaarloonBt, etExchange...)     *)
(*   employer     payslips, several names on one payslip excluded          *)
(*   tier1/tier2  overtime lines and premiums with an explicit tier        *)
(*   saturday     premiums naming the day (sunday, public holiday too)     *)
(*   pension      a printed percentage per deduction line (6 more)         *)
(* and the recurring items are net amounts grouped by printed label.       *)
(***************************************************************************)
EXTENDS DocumentFacts

CONSTANT MaxDisputed  \* MAX_DISPUTED_ANNEXES
ASSUME MaxDisputedAssumption == MaxDisputed \in Nat

Fields == {"hourlyRate", "threshold", "caoPhase", "periodType", "employer",
           "tier1", "tier2", "saturday", "pension"}
Usable == {"document_exact", "corroborated", "user_confirmed", "user_corrected"}

isContract(d) == d.role \in {"contract_base", "contract_annex"}
isAnnex(d) == d.role = "contract_annex"
isPayslip(d) == d.role = "payslip"
hasUsableDate(date) == date # NoDate
Earliest(S) == CHOOSE x \in S : \A y \in S : x <= y

-----------------------------------------------------------------------------
(* Evidence *)

\* The canonical amount of a site whose sign the list already carries.
magnitude(v) == IF v < 0 THEN -v ELSE v

\* payslipSource and contractSource with the value read there.
Evidence(d, date, value) ==
  [value |-> value, doc |-> d.id, role |-> d.role,
   date  |-> IF isAnnex(d) THEN date ELSE NoDate,
   from  |-> IF isPayslip(d) THEN singleExactValue(d.facts, "periodStart") ELSE NoDate,
   to    |-> IF isPayslip(d) THEN singleExactValue(d.facts, "periodEnd") ELSE NoDate]

Excluded(source, reason) ==
  [source |-> source, reason |-> reason, relation |-> "none", bound |-> NoDate]
ExcludedBy(source, reason, relation, bound) ==
  [source |-> source, reason |-> reason, relation |-> relation, bound |-> bound.date]

Found(candidates, excluded) == [candidates |-> candidates, excluded |-> excluded]
Nothing == Found({}, {})
Together(S) == Found(UNION {e.candidates : e \in S}, UNION {e.excluded : e \in S})

\* One document's occurrences of one fact.
factEvidence(d, date, facts) ==
  Found({Evidence(d, date, f.value) : f \in {g \in facts : g.status \in {"exact", "contradiction"} /\ g.value # NoValue}},
        {Excluded(Evidence(d, date, NoValue), "ambiguous_on_document") : f \in {g \in facts : g.status = "ambiguous"}}
        \cup {Excluded(Evidence(d, date, NoValue), "implausible_value") : f \in {g \in facts : g.status = "implausible"}})

issueExclusion(source, line) ==
  Excluded([source EXCEPT !.value = NoValue],
           IF line.kind \in {"net", "reimbursement"} THEN "amount_unreadable"
           ELSE IF line.issue = "implausible" THEN "implausible_value" ELSE "ambiguous_on_document")

\* Mutant of resolveField: of several values one is taken.
resolveFieldAny(evidence, emptyReason, forced, regime) ==
  LET values == {c.value : c \in evidence.candidates}
      because(code) == [code |-> code, doc |-> 0, date |-> NoDate]
  IN [value |-> IF values = {} THEN NoValue ELSE CHOOSE v \in values : TRUE,
      state |-> IF values = {} THEN "unknown" ELSE "document_exact",
      reason |-> because(IF values = {} THEN emptyReason ELSE "none"),
      regime |-> regime, resolution |-> <<>>, candidates |-> evidence.candidates, excluded |-> evidence.excluded]

\* The one rule every field is resolved by.
resolveField(evidence, emptyReason, forced, regime) ==
  LET values    == {c.value : c \in evidence.candidates}
      field(value, state, reason) ==
        [value |-> value, state |-> state, reason |-> reason, regime |-> regime, resolution |-> <<>>,
         candidates |-> evidence.candidates, excluded |-> evidence.excluded]
      because(code) == [code |-> code, doc |-> 0, date |-> NoDate]
  IN IF values = {} THEN
       field(NoValue, "unknown", because(IF evidence.excluded # {} THEN "only_excluded_evidence" ELSE emptyReason))
     ELSE IF forced.code # "none" THEN field(NoValue, "conflict", forced)
     ELSE IF Several(values) THEN field(NoValue, "conflict", because("sources_disagree"))
     ELSE field(CHOOSE v \in values : TRUE,
                IF Cardinality({c.doc : c \in evidence.candidates}) >= 2 THEN "corroborated" ELSE "document_exact",
                because("none"))

NoReason == [code |-> "none", doc |-> 0, date |-> NoDate]
NoBound == [date |-> NoDate, doc |-> 0]
NoRegime == [start |-> NoDate, end |-> NoDate, winner |-> 0]
plainField(evidence, emptyReason) == resolveField(evidence, emptyReason, NoReason, NoRegime)

-----------------------------------------------------------------------------
(* Payslips: each contributes on its own *)

Slips(docs) == {docs[i] : i \in {j \in DOMAIN docs : isPayslip(docs[j])}}
LinesOf(d, kinds) == {l \in d.lines : l.kind \in kinds}

payslipScalarEvidence(docs, field) ==
  Together({factEvidence(d, NoDate, occurrences(d.facts, field)) : d \in Slips(docs)})

\* The printed header rate and the regular wage lines.
regularRateEvidence(docs) ==
  Together({factEvidence(d, NoDate, occurrences(d.facts, "hourlyRate")) : d \in Slips(docs)}
    \cup UNION {{IF l.issue # "none" THEN Found({}, {issueExclusion(Evidence(d, NoDate, l.value), l)})
                 ELSE IF l.value > 0 THEN Found({Evidence(d, NoDate, l.value)}, {}) ELSE Nothing
                 : l \in LinesOf(d, {"regular"})} : d \in Slips(docs)})

\* An overtime line counts only when it adds hours; its percentage is the full
\* multiplier, and one below 100 disqualifies the multipliers of the payslip.
overtimeLine(d, l) ==
  LET source    == Evidence(d, NoDate, l.value)
      ambiguous == \E k \in LinesOf(d, {"overtime"}) : k.adds = "yes" /\ k.value # NoValue /\ k.value < 100
  IN IF l.adds = "unclear" THEN Found({}, {Excluded(source, "adds_hours_unclear")})
     ELSE IF l.issue # "none" THEN Found({}, {issueExclusion(source, l)})
     ELSE IF l.value = NoValue THEN Found({}, {Excluded(source, "percent_not_printed")})
     ELSE IF ambiguous THEN Found({}, {Excluded(source, "percent_semantics_ambiguous")})
     ELSE Found({[source EXCEPT !.value = l.value - 100]}, {})

\* A printed premium, only when its wording fixes what it means.
premiumEvidence(d, date, p) ==
  LET source == Evidence(d, date, p.value)
  IN IF p.status = "ambiguous" THEN Found({}, {Excluded([source EXCEPT !.value = NoValue], "ambiguous_on_document")})
     ELSE IF p.status # "exact" \/ p.value = NoValue THEN Found({}, {Excluded([source EXCEPT !.value = NoValue], "implausible_value")})
     ELSE IF p.semantics = "unclear" THEN Found({}, {Excluded(source, "percent_semantics_ambiguous")})
     ELSE Found({[source EXCEPT !.value = IF p.semantics = "total_multiplier" THEN @ - 100 ELSE @]}, {})

\* Overtime premiums of the payslips and of the contracts in force (a set of
\* <<document, date>>), for the tiers in `tiers'; tier 0 is an unnamed one.
overtimeEvidence(docs, inForce, tiers) ==
  Together(
    (UNION {{overtimeLine(d, l) : l \in {k \in LinesOf(d, {"overtime"}) : k.adds # "no" /\ k.tier \in tiers}} : d \in Slips(docs)})
    \cup UNION {{premiumEvidence(c[1], c[2], p) : p \in {q \in c[1].premiums : q.category = "overtime" /\ q.tier \in tiers}} : c \in inForce})

percentLineEvidence(d, l) ==
  LET source == Evidence(d, NoDate, l.value)
  IN IF l.issue # "none" THEN Found({}, {issueExclusion(source, l)})
     ELSE IF l.value # NoValue THEN Found({source}, {})
     ELSE Found({}, {Excluded(source, "percent_not_printed")})

deductionEvidence(docs, kind) ==
  Together(UNION {{percentLineEvidence(d, l) : l \in LinesOf(d, {kind})} : d \in Slips(docs)})

\* Recurring net amounts: the printed sign is dropped, the list carries it.
amountLineEvidence(d, l) ==
  IF l.issue # "none" \/ l.value = NoValue THEN Found({}, {issueExclusion(Evidence(d, NoDate, l.value), l)})
  ELSE Found({Evidence(d, NoDate, magnitude(l.value))}, {})

netLines(docs, kind) ==
  LET labels == {l.label : l \in UNION {LinesOf(d, {kind}) : d \in Slips(docs)}}
  IN [label \in labels |->
        plainField(Together(UNION {{amountLineEvidence(d, l) : l \in {k \in LinesOf(d, {kind}) : k.label = label}} : d \in Slips(docs)}),
                   "not_on_payslips")]

\* A payslip that names two employers names none.
employerEvidence(docs) ==
  Together({LET found == factEvidence(d, NoDate, occurrences(d.facts, "employer"))
            IN IF Several({f.value : f \in {g \in occurrences(d.facts, "employer") : g.status = "exact"}})
               THEN Found({}, found.excluded \cup {Excluded(c, "multiple_employers_on_payslip") : c \in found.candidates})
               ELSE found
            : d \in Slips(docs)})

-----------------------------------------------------------------------------
(* Contracts: the timeline, once per reading of the disputed annex dates *)

\* The contract documents by their place in the request.
contractSide(docs) == [i \in {j \in DOMAIN docs : isContract(docs[j])} |-> docs[i]]

printedDate(d) == singleExactValue(d.facts, "effectiveDate")
annexDateState(d) ==
  IF hasUsableDate(d.user) /\ hasUsableDate(printedDate(d)) THEN IF d.user = printedDate(d) THEN "agreed" ELSE "disputed"
  ELSE IF hasUsableDate(d.user) THEN "user_entered_only"
  ELSE IF hasUsableDate(printedDate(d)) THEN "document_only" ELSE "none"

Disputed(side) == {i \in DOMAIN side : isAnnex(side[i]) /\ annexDateState(side[i]) = "disputed"}
\* The first MAX_DISPUTED_ANNEXES; the others are treated as undated.
Enumerated(side) == {i \in Disputed(side) : Cardinality({j \in Disputed(side) : j < i}) < MaxDisputed}

\* The variants of buildContractSide: the date of every contract document when
\* the documents in `printed' are believed over the user.
variantDates(side, printed) ==
  [i \in DOMAIN side |->
     IF ~isAnnex(side[i]) THEN NoDate
     ELSE IF i \in Disputed(side)
          THEN IF i \notin Enumerated(side) THEN NoDate ELSE IF i \in printed THEN printedDate(side[i]) ELSE side[i].user
          ELSE IF hasUsableDate(side[i].user) THEN side[i].user ELSE printedDate(side[i])]
Variants(side) == {variantDates(side, printed) : printed \in SUBSET Enumerated(side)}
userVariant(side) == variantDates(side, {})

applicableContracts(side, dates, asOf) ==
  {i \in DOMAIN side : ~isAnnex(side[i]) \/ (hasUsableDate(dates[i]) /\ dates[i] <= asOf)}
sortKey(side, dates, i) == IF isAnnex(side[i]) THEN dates[i] ELSE NoDate

\* Mutant of Timeline: of several latest statements the one listed first holds.
TimelineFirstWins(side, dates, field, asOf) ==
  LET applicable == {i \in applicableContracts(side, dates, asOf) : singleExactValue(side[i].facts, field) # NoValue}
      atMax      == {i \in applicable : \A j \in applicable : sortKey(side, dates, j) <= sortKey(side, dates, i)}
  IN IF applicable = {} THEN [outcome |-> "silent", at |-> {}] ELSE [outcome |-> "value", at |-> {Earliest(atMax)}]

\* resolveFieldUntyped of contract-timeline.ts: the latest statement in force.
Timeline(side, dates, field, asOf) ==
  LET stating    == {i \in DOMAIN side : singleExactValue(side[i].facts, field) # NoValue}
      applicable == stating \cap applicableContracts(side, dates, asOf)
      undated    == {i \in stating : isAnnex(side[i]) /\ ~hasUsableDate(dates[i])}
      atMax      == {i \in applicable : \A j \in applicable : sortKey(side, dates, j) <= sortKey(side, dates, i)}
      values     == {singleExactValue(side[i].facts, field) : i \in atMax}
  IN IF applicable = {} THEN [outcome |-> IF undated # {} THEN "undated_document" ELSE "silent", at |-> {}]
     ELSE IF Several(values) THEN [outcome |-> "disagreement", at |-> atMax]
     ELSE [outcome |-> "value", at |-> {Earliest(atMax)}]

firstDocument(side, S) == CHOOSE i \in S : \A j \in S : side[i].id <= side[j].id
boundOf(side, dates, i) == [date |-> dates[i], doc |-> side[i].id]

\* The first of the earliest documents of a set, by their dates.
firstEarliest(side, dates, S) ==
  firstDocument(side, {i \in S : \A j \in S : sortKey(side, dates, i) <= sortKey(side, dates, j)})

undatedAnnexes(side, dates) == {i \in DOMAIN side : isAnnex(side[i]) /\ ~hasUsableDate(dates[i])}
exactEvidence(side, dates, field, S) ==
  UNION {factEvidence(side[i], dates[i], {f \in occurrences(side[i].facts, field) : f.status = "exact"}).candidates : i \in S}
unclearEvidence(side, dates, field, S) ==
  Together({factEvidence(side[i], dates[i], {f \in occurrences(side[i].facts, field) : f.status # "exact"}) : i \in S})

\* The regime of a timeline: from the annex that won to the next annex that says something of the field.
regimeStart(side, dates, timeline) ==
  LET starts == {i \in timeline.at : isAnnex(side[i])}
  IN IF starts = {} THEN NoBound ELSE boundOf(side, dates, firstDocument(side, starts))

nextAnnex(side, dates, future) ==
  IF future = {} THEN NoBound ELSE boundOf(side, dates, firstEarliest(side, dates, future))
regimeEnd(side, dates, field, asOf) ==
  nextAnnex(side, dates, {i \in DOMAIN side : isAnnex(side[i]) /\ dates[i] > asOf /\ occurrences(side[i].facts, field) # {}})

\* The documents in force at or after the winner that do not say the field clearly.
forcedBy(side, dates, field, asOf, timeline, laterOnes) ==
  LET unclear == {i \in laterOnes : unclearEvidence(side, dates, field, {i}).excluded # {}}
  IN CASE timeline.outcome = "disagreement" -> [code |-> "timeline_disagreement", doc |-> 0, date |-> asOf]
       [] timeline.outcome = "value" /\ unclear # {} ->
            [code |-> "later_document_unclear", doc |-> side[firstEarliest(side, dates, unclear)].id,
             date |-> sortKey(side, dates, firstEarliest(side, dates, unclear))]
       [] OTHER -> NoReason

evidenceAlong(side, dates, field, asOf, timeline, others, start) ==
  LET winnerKey  == IF timeline.outcome = "value" THEN sortKey(side, dates, CHOOSE i \in timeline.at : TRUE) ELSE NoDate
      laterOnes  == {i \in others : sortKey(side, dates, i) >= winnerKey}
      overridden == {i \in others : start # NoBound /\ sortKey(side, dates, i) < start.date}
  IN [candidates |-> exactEvidence(side, dates, field, timeline.at) \cup unclearEvidence(side, dates, field, laterOnes).candidates,
      excluded   |-> {Excluded(c, "annex_effective_date_missing") : c \in exactEvidence(side, dates, field, undatedAnnexes(side, dates))}
                     \cup unclearEvidence(side, dates, field, laterOnes).excluded
                     \cup {ExcludedBy(c, "superseded_by_later_document", "superseded_by", start)
                            : c \in exactEvidence(side, dates, field, overridden)},
      forced     |-> forcedBy(side, dates, field, asOf, timeline, laterOnes),
      start      |-> start,
      end        |-> regimeEnd(side, dates, field, asOf),
      winner     |-> IF timeline.outcome = "value" THEN side[CHOOSE i \in timeline.at : TRUE].id ELSE 0,
      placements |-> {}]

\* variantEvidence: the winner's statements, the undated and the superseded
\* ones, the unclear ones in force at or after the winner, and the regime.
evidenceOfTimeline(side, dates, field, asOf, timeline) ==
  evidenceAlong(side, dates, field, asOf, timeline,
                applicableContracts(side, dates, asOf) \ (timeline.at \cup undatedAnnexes(side, dates)), regimeStart(side, dates, timeline))
variantEvidence(side, dates, field, asOf) ==
  evidenceOfTimeline(side, dates, field, asOf, Timeline(side, dates, field, asOf))

-----------------------------------------------------------------------------
(* Where a payslip falls in the regime [start, end) of a field *)

inForceContractValue(variant) ==
  LET values == {c.value : c \in variant.candidates}
  IN IF variant.forced = NoReason /\ Cardinality(values) = 1 THEN CHOOSE v \in values : TRUE ELSE NoValue

\* placePayslipCandidate; one printed date is both bounds of the period.
Placement(c, variant) ==
  LET from == IF hasUsableDate(c.from) THEN c.from ELSE c.to
      to   == IF hasUsableDate(c.to) THEN c.to ELSE c.from
      S    == variant.start
      X    == variant.end
      boundary == IF S # NoBound THEN S ELSE X
  IN IF boundary = NoBound THEN [code |-> "candidate", reason |-> "none", bound |-> NoBound]
     ELSE IF ~hasUsableDate(from) THEN
       IF c.value = inForceContractValue(variant)
       THEN [code |-> "value_matches_current_but_period_unknown", reason |-> "payslip_period_unplaceable", bound |-> boundary]
       ELSE [code |-> "unplaceable", reason |-> "none", bound |-> boundary]
     ELSE IF S # NoBound /\ to < S.date THEN [code |-> "superseded_by", reason |-> "superseded_by_later_document", bound |-> S]
     ELSE IF X # NoBound /\ from >= X.date THEN [code |-> "later_than_as_of", reason |-> "outside_as_of_regime", bound |-> X]
     ELSE IF S # NoBound /\ from < S.date THEN [code |-> "straddles", reason |-> "pay_period_straddles_change", bound |-> S]
     ELSE IF X # NoBound /\ to >= X.date THEN [code |-> "straddles", reason |-> "pay_period_straddles_change", bound |-> X]
     ELSE [code |-> "candidate", reason |-> "none", bound |-> NoBound]

\* Mutant of placePayslipEvidence: payslips of another period leave no trace.
placePayslipEvidenceSilent(variant, slips) ==
  [variant EXCEPT !.candidates = @ \cup {c \in slips.candidates : Placement(c, variant).reason = "none"},
                  !.excluded = @ \cup slips.excluded]

\* placePayslipEvidence: the payslips of the regime join the contract evidence.
placePayslipEvidence(variant, slips) ==
  LET out(c)  == Placement(c, variant).reason # "none"
      unplaceable == \E c \in slips.candidates : Placement(c, variant).code = "unplaceable"
      change  == IF variant.start # NoBound THEN variant.start ELSE variant.end
  IN [candidates |-> variant.candidates \cup {c \in slips.candidates : ~out(c)},
      excluded   |-> variant.excluded \cup slips.excluded
                     \cup {ExcludedBy(c, Placement(c, variant).reason, Placement(c, variant).code, Placement(c, variant).bound)
                           : c \in {x \in slips.candidates : out(x)}},
      forced     |-> IF variant.forced # NoReason THEN variant.forced
                     ELSE IF unplaceable THEN [code |-> "payslip_period_unplaceable", doc |-> 0, date |-> change.date] ELSE NoReason,
      start |-> variant.start, end |-> variant.end, winner |-> variant.winner,
      placements |-> {<<c.doc, Placement(c, variant).code>> : c \in slips.candidates}]

signature(variant) == <<{c.value : c \in variant.candidates}, variant.forced.code, variant.placements>>

\* fieldRegime: a bound or a winner the dispute decides is not reported.
fieldRegime(variants) ==
  LET agreed(S, none) == IF Cardinality(S) = 1 THEN CHOOSE x \in S : TRUE ELSE none
  IN [start |-> agreed({v.start.date : v \in variants}, NoDate),
      end |-> agreed({v.end.date : v \in variants}, NoDate),
      winner |-> agreed({v.winner : v \in variants}, 0)]

\* The evidence of a field under one reading of the annex dates.
fieldVariant(side, dates, field, asOf, slips) == placePayslipEvidence(variantEvidence(side, dates, field, asOf), slips)

\* Mutant of timelineField: the date the user typed is believed in a dispute.
timelineFieldUser(side, field, asOf, slips, emptyReason) ==
  LET first == fieldVariant(side, userVariant(side), field, asOf, slips)
  IN IF DOMAIN side = {} THEN plainField(slips, emptyReason)
     ELSE resolveField(Found(first.candidates, first.excluded), emptyReason, first.forced, fieldRegime({first}))

\* timelineFieldEvidence, resolved: one answer for all variants, or a conflict.
oneAnswer(variants, first, emptyReason) ==
  IF \A v \in variants : signature(v) = signature(first)
  THEN resolveField(Found(first.candidates, first.excluded), emptyReason, first.forced, fieldRegime({first}))
  ELSE resolveField(Together(variants), emptyReason,
                    [code |-> "annex_effective_date_disputed", doc |-> 0, date |-> NoDate], fieldRegime(variants))
timelineField(side, field, asOf, slips, emptyReason) ==
  IF DOMAIN side = {} THEN plainField(slips, emptyReason)
  ELSE oneAnswer({fieldVariant(side, dates, field, asOf, slips) : dates \in Variants(side)},
                 fieldVariant(side, userVariant(side), field, asOf, slips), emptyReason)

\* The contracts in force under at least one reading of the dates.
anyVariantApplicable(side, asOf) ==
  {<<side[i], IF i \in applicableContracts(side, userVariant(side), asOf) THEN userVariant(side)[i] ELSE printedDate(side[i])>>
     : i \in UNION {applicableContracts(side, dates, asOf) : dates \in Variants(side)}}

-----------------------------------------------------------------------------
(* The resolver *)

resolvePayrollProfile(docs, asOf) ==
  LET side        == contractSide(docs)
      applicable  == anyVariantApplicable(side, asOf)
      anything    == IF docs = <<>> THEN "no_documents" ELSE "not_on_documents"
      onPayslips  == IF Slips(docs) = {} THEN "no_payslip_document" ELSE "not_on_payslips"
      inContracts == IF DOMAIN side = {} THEN "no_contract_document" ELSE "not_in_contract_extraction"
      overtime    == overtimeEvidence(docs, applicable, 0..2)
      tier(n)     == plainField(Found(overtimeEvidence(docs, applicable, {n}).candidates, {}),
                                IF overtime # Nothing THEN "tier_identity_not_evidenced" ELSE anything)
  IN [fields |-> [f \in Fields |->
        CASE f = "hourlyRate" -> timelineField(side, f, asOf, regularRateEvidence(docs), anything)
          [] f = "threshold"  -> timelineField(side, f, asOf, Nothing, inContracts)
          [] f = "caoPhase"   -> plainField(Together({factEvidence(c[1], c[2], occurrences(c[1].facts, f)) : c \in applicable}), inContracts)
          [] f = "periodType" -> plainField(payslipScalarEvidence(docs, f), onPayslips)
          [] f = "employer"   -> plainField(employerEvidence(docs), onPayslips)
          [] f = "tier1"      -> tier(1)
          [] f = "tier2"      -> tier(2)
          [] f = "saturday"   -> plainField(Together(UNION {{premiumEvidence(c[1], c[2], p) : p \in {q \in c[1].premiums : q.category = f}} : c \in applicable}), "no_weekday_evidence")
          [] f = "pension"    -> plainField(deductionEvidence(docs, f), onPayslips)],
      recurring |-> [netAdditions |-> netLines(docs, "reimbursement"), netDeductions |-> netLines(docs, "net")],
      observed |-> overtime.candidates]
=============================================================================
