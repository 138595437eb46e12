---------------------------- MODULE ScenarioEngine ----------------------------
(***************************************************************************)
(* What the server computes of a scenario: its validation                  *)
(* (scenario-validate.ts), the engine input made of it (scenario-map.ts),  *)
(* and its evaluation with every value that is not exact taken at each of  *)
(* its ends (scenario-evaluate.ts).                                        *)
(*                                                                         *)
(* A scenario is a record of                                               *)
(*   fields     a function from the paths it fills to their nodes          *)
(*   concepts   what was asked for that the engine cannot represent        *)
(* and a node is known [value, source], a range [low, high, source],       *)
(* alternatives [options, source], a conflict [candidates] or unknown.     *)
(***************************************************************************)
EXTENDS TierA

CONSTANTS
  MaxVariantRuns,    \* MAX_VARIANT_RUNS
  AbsoluteSwing      \* RANGE_MATERIALITY: an amount, beside one per cent of the payout

ASSUME SwingAssumption == AbsoluteSwing \in Nat \ {0}

\* What is written goes before what stands (withValueAt).
Over(written, standing) ==
  [p \in DOMAIN written \cup DOMAIN standing |-> IF p \in DOMAIN written THEN written[p] ELSE standing[p]]

HoursFields == {"work.regularWeekdayHours", "work.overtimeHours", "work.saturdayHours", "work.sundayHours", "work.publicHolidayHours"}
PremiumOf == [h \in {"work.saturdayHours", "work.sundayHours", "work.publicHolidayHours"} |->
                IF h = "work.saturdayHours" THEN "pay.saturdayPremiumPercent"
                ELSE IF h = "work.sundayHours" THEN "pay.sundayPremiumPercent" ELSE "pay.publicHolidayPremiumPercent"]
OvertimeTerms == {"pay.overtime.thresholdHoursPerDay", "pay.overtime.tier1Percent", "work.overtimeDistribution"}
EnteredNeeded == {"deductions.entered.pension", "deductions.entered.paww", "deductions.entered.sectorPremium"}
EnteredFields == EnteredNeeded \cup {"deductions.entered.postTaxOther"}
EnteredKey == [path \in EnteredFields |->
                 IF path = "deductions.entered.pension" THEN "pension" ELSE IF path = "deductions.entered.paww" THEN "paww"
                 ELSE IF path = "deductions.entered.sectorPremium" THEN "sector_premium" ELSE "post_tax_other"]

PercentFields == {PremiumOf[h] : h \in DOMAIN PremiumOf} \cup {"pay.overtime.tier1Percent", "pay.overtime.tier2Percent"}
NumberPaths == HoursFields \cup PercentFields \cup EnteredFields
                 \cup {"pay.overtime.thresholdHoursPerDay", "pay.hourlyRate", "extras.vakantiegeld.percent", "extras.travelAllowance"}
NumberFields ==
  LET Number(unit, most) == [unit |-> unit, most |-> most]
  IN  [path \in NumberPaths |->
         IF path \in {"work.regularWeekdayHours", "work.overtimeHours"} THEN Number("hours", 120 * TicksPerHour)
         ELSE IF path = "work.publicHolidayHours" THEN Number("hours", 168 * TicksPerHour)
         ELSE IF path \in HoursFields \cup {"pay.overtime.thresholdHoursPerDay"} THEN Number("hours", 24 * TicksPerHour)
         ELSE IF path \in PercentFields THEN Number("percent", 500)
         ELSE IF path = "extras.vakantiegeld.percent" THEN Number("percent", 50)
         ELSE IF path = "pay.hourlyRate" THEN Number("hourly_rate", 100000)
         ELSE Number("amount", 10000000)]

ChoiceFields == [path \in {"tax.loonheffingskorting", "deductions.mode", "extras.vakantiegeld.mode"} |->
                   IF path = "tax.loonheffingskorting" THEN {"applied", "not_applied"}
                   ELSE IF path = "deductions.mode" THEN {"enter", "estimate"} ELSE {"none", "accruing"}]

FieldPaths == NumberPaths \cup DOMAIN ChoiceFields \cup {"work.overtimeDistribution"}
WeekdayNumbers == 1 .. Len(Weekdays)

-----------------------------------------------------------------------------
(* Nodes                                                                   *)

SCENARIO_VALUE_SOURCES == {"document", "user", "cao_rule", "official_rule", "intelligence_memory", "loonto_assumption"}

Distributions == [kind : {"even"}, days : Int] \cup [kind : {"explicit"}, byDay : [WeekdayNumbers -> Int]]
\* One value stands for every text that is none of the choices.
ValuesFor(path) ==
  IF path \in NumberPaths THEN Int
  ELSE IF path = "work.overtimeDistribution" THEN Distributions ELSE ChoiceFields[path] \cup {"no_such_choice"}

\* Only a number is given as a range, and only what is not a number as alternatives.
NodesFor(path) ==
  LET V == ValuesFor(path)
      Source == SCENARIO_VALUE_SOURCES
  IN  [state : {"known"}, value : V, source : Source] \cup [state : {"unknown"}]
        \cup [state : {"conflict"}, candidates : SUBSET [value : V, source : Source]]
        \cup (IF path \in NumberPaths THEN [state : {"range"}, low : Int, high : Int, source : Source]
              ELSE [state : {"alternatives"}, options : Seq(V), source : Source])

WellWritten(fields) == DOMAIN fields \subseteq FieldPaths /\ \A p \in DOMAIN fields : fields[p] \in NodesFor(p)
IsScenario(s) == s = [fields |-> s.fields, concepts |-> s.concepts] /\ WellWritten(s.fields)

At(s, path) == IF path \in DOMAIN s.fields THEN s.fields[path] ELSE [state |-> "missing"]
valueStatus(node) == IF node.state \in {"missing", "unknown", "conflict"} THEN node.state ELSE "present"

numericEndpoints(node) ==
  IF node.state = "known" THEN {node.value}
  ELSE IF node.state = "range" THEN {node.low, node.high}
  ELSE IF node.state = "conflict" THEN {c.value : c \in node.candidates}
  ELSE {}

\* Mutant of High: the low end of a range.
LowOnly(node) == IF node.state = "range" THEN node.low ELSE Max(numericEndpoints(node) \cup {0})

High(node) == Max(numericEndpoints(node) \cup {0})

hoursRelevance(node) ==
  IF valueStatus(node) \in {"unknown", "conflict"} THEN "unknown"
  ELSE IF valueStatus(node) = "present" /\ High(node) > 0 THEN "some"
  ELSE "none"

OptionsOf(node) ==
  IF node.state = "known" THEN {node.value} ELSE IF node.state = "alternatives" THEN ToSet(node.options) ELSE {}

\* What is left over of an even split goes to the first parts.
splitEvenly(total, parts) == [i \in WeekdayNumbers |-> IF i > parts THEN 0 ELSE total \div parts + (IF i <= total % parts THEN 1 ELSE 0)]

expandWeekdayHours(regular, overtime, distribution) ==
  LET shares == IF overtime = 0 \/ distribution = {} THEN [i \in WeekdayNumbers |-> 0]
                ELSE IF The(distribution).kind = "even" THEN splitEvenly(overtime, The(distribution).days)
                ELSE The(distribution).byDay
  IN  [i \in WeekdayNumbers |-> [regular |-> splitEvenly(regular, Len(Weekdays))[i], overtime |-> shares[i], holiday |-> FALSE]]

\* Holiday hours fill whole days, one after the other.
holidayDayCells(hours) ==
  [i \in 1 .. 7 |-> [regular |-> Lesser(24 * TicksPerHour, NotNegative(hours - (i - 1) * 24 * TicksPerHour)), overtime |-> 0, holiday |-> TRUE]]

-----------------------------------------------------------------------------
(* validateScenario                                                        *)

Issue(code, path, params) == [code |-> code, path |-> path, params |-> params]

\* Zero is below the minimum of a rate, and of nothing else.
checkNumber(path, value) ==
  IF value >= 0 /\ value <= NumberFields[path].most /\ ~(path = "pay.hourlyRate" /\ value = 0) THEN {}
  ELSE {Issue(IF NumberFields[path].unit = "hours" /\ value < 0 THEN "negative_hours" ELSE NumberFields[path].unit \o "_out_of_range",
              path, <<value>>)}

checkDistribution(path, value) ==
  IF value.kind = "even" THEN IF value.days \in WeekdayNumbers THEN {} ELSE {Issue("invalid_overtime_distribution", path, <<value.days>>)}
  ELSE {Issue("negative_hours", path, <<i, value.byDay[i]>>) : i \in {j \in WeekdayNumbers : value.byDay[j] < 0}}
         \cup {Issue("day_hours_exceed_24", path, <<i, value.byDay[i]>>) : i \in {j \in WeekdayNumbers : value.byDay[j] > 24 * TicksPerHour}}

checkValue(path, value) ==
  IF path \in DOMAIN NumberFields THEN checkNumber(path, value)
  ELSE IF path = "work.overtimeDistribution" THEN checkDistribution(path, value)
  ELSE When(value \notin ChoiceFields[path], Issue("invalid_choice_value", path, <<>>))

checkField(path, node) ==
  IF node.state = "unknown" THEN {}
  ELSE IF node.state = "known" THEN checkValue(path, node.value)
  ELSE IF node.state = "range" THEN
    checkNumber(path, node.low) \cup checkNumber(path, node.high)
      \cup When(node.low > node.high, Issue("range_inverted", path, <<node.low, node.high>>))
  ELSE IF node.state = "conflict" THEN
    IF Cardinality(node.candidates) < 2 THEN {Issue("conflict_too_few", path, <<>>)}
    ELSE UNION {checkValue(path, c.value) : c \in node.candidates}
  ELSE
    IF Len(node.options) < 2 THEN {Issue("alternatives_too_few", path, <<>>)}
    ELSE UNION {checkValue(path, v) : v \in ToSet(node.options)}

knownDistribution(s) == LET node == At(s, "work.overtimeDistribution") IN IF node.state = "known" THEN {node.value} ELSE {}

crossChecks(s) ==
  LET total == Sum([h \in HoursFields |-> High(At(s, h))])
      overtime == At(s, "work.overtimeHours")
      distributed(d) == Sum(d.byDay)
      cells == expandWeekdayHours(High(At(s, "work.regularWeekdayHours")), High(overtime), knownDistribution(s))
  IN  When(total > 168 * TicksPerHour, Issue("hours_exceed_week", "work", <<total>>))
        \cup {Issue("overtime_distribution_mismatch", "work.overtimeDistribution", <<distributed(d), overtime.value>>)
                : d \in {x \in knownDistribution(s) : x.kind = "explicit" /\ overtime.state = "known" /\ distributed(x) # overtime.value}}
        \cup {Issue("day_hours_exceed_24", "work", <<i, cells[i].regular + cells[i].overtime>>)
                : i \in {j \in WeekdayNumbers : knownDistribution(s) # {} /\ cells[j].regular + cells[j].overtime > 24 * TicksPerHour}}

Requirement(path, reason) == [field |-> path, reason |-> reason]
Unsettled(s, paths) == {Requirement(path, valueStatus(At(s, path))) : path \in {p \in paths : valueStatus(At(s, p)) \in {"unknown", "conflict"}}}
Need(s, paths) == {Requirement(path, valueStatus(At(s, path))) : path \in {p \in paths : valueStatus(At(s, p)) # "present"}}
HasHolidayPay(s) == {"extras.vakantiegeld.mode", "extras.vakantiegeld.percent"} \cap DOMAIN s.fields # {}

\* A field is required where the hours that need it are stated; the second overtime tier never is.
collectRequirements(s) ==
  LET Some(h) == hoursRelevance(At(s, h)) = "some"
  IN  Unsettled(s, HoursFields)
        \cup When(\A h \in HoursFields : hoursRelevance(At(s, h)) = "none", Requirement("work.hours", "missing"))
        \cup Need(s, {"pay.hourlyRate", "tax.loonheffingskorting", "deductions.mode"})
        \cup Need(s, {PremiumOf[h] : h \in {x \in DOMAIN PremiumOf : Some(x)}})
        \cup (IF Some("work.overtimeHours") THEN Need(s, OvertimeTerms) ELSE {})
        \cup (IF "enter" \in OptionsOf(At(s, "deductions.mode")) THEN Need(s, EnteredNeeded) ELSE {})
        \cup Unsettled(s, {"deductions.entered.postTaxOther", "extras.travelAllowance"})
        \cup (IF HasHolidayPay(s) THEN Need(s, {"extras.vakantiegeld.mode"}) ELSE {})
        \cup (IF "accruing" \in OptionsOf(At(s, "extras.vakantiegeld.mode")) THEN Need(s, {"extras.vakantiegeld.percent"}) ELSE {})

\* irrelevant_value_ignored
collectWarnings(s) ==
  LET None(h) == hoursRelevance(At(s, h)) = "none"
  IN  DOMAIN s.fields \cap
        ({PremiumOf[h] : h \in {x \in DOMAIN PremiumOf : None(x)}}
           \cup (IF None("work.overtimeHours") THEN OvertimeTerms \cup {"pay.overtime.tier2Percent"} ELSE {})
           \cup (IF At(s, "deductions.mode").state = "known" /\ "estimate" \in OptionsOf(At(s, "deductions.mode")) THEN EnteredFields ELSE {}))

\* The fields are checked one by one, and against each other only when each of them is sound.
FieldIssues(s) == UNION {checkField(path, s.fields[path]) : path \in DOMAIN s.fields}
IssuesBeside(s, fieldIssues) == IF fieldIssues # {} THEN fieldIssues ELSE crossChecks(s)
IssuesOf(s) == IssuesBeside(s, FieldIssues(s))

Validation(s, issues, requirements) ==
  IF issues # {} THEN [status |-> "invalid", issues |-> issues, requirements |-> {}, warnings |-> {}]
  ELSE [status |-> IF requirements # {} THEN "blocked" ELSE "ready",
        issues |-> {}, requirements |-> requirements, warnings |-> collectWarnings(s)]

validateScenario(s) == Validation(s, IssuesOf(s), collectRequirements(s))

-----------------------------------------------------------------------------
(* mapScenarioToEngine, which reads on its own what the validator checked. *)

\* A value that is read and not known is required; one that is needed is required even when absent.
Read(s, path) == LET node == At(s, path) IN IF node.state = "known" THEN {node.value} ELSE {}
Unread(s, paths) == {Requirement(p, IF valueStatus(At(s, p)) = "conflict" THEN "conflict" ELSE "unknown")
                       : p \in {q \in paths : At(s, q).state \notin {"missing", "known"}}}
Unmet(s, paths) == Unread(s, paths) \cup {Requirement(p, "missing") : p \in {q \in paths : At(s, q).state = "missing"}}

NeededByEngine(s) ==
  LET Worked(h) == \E v \in Read(s, h) : v > 0
  IN  {"pay.hourlyRate", "tax.loonheffingskorting", "deductions.mode"}
        \cup {PremiumOf[h] : h \in {x \in DOMAIN PremiumOf : Worked(x)}}
        \cup (IF Worked("work.overtimeHours") THEN OvertimeTerms ELSE {})
        \cup (IF Read(s, "deductions.mode") = {"enter"} THEN EnteredNeeded ELSE {})
        \cup (IF HasHolidayPay(s) THEN {"extras.vakantiegeld.mode"} ELSE {})
        \cup (IF Read(s, "extras.vakantiegeld.mode") = {"accruing"} THEN {"extras.vakantiegeld.percent"} ELSE {})

ReadByEngine(s) ==
  HoursFields \cup {"extras.travelAllowance"}
    \cup (IF \E v \in Read(s, "work.overtimeHours") : v > 0 THEN {"pay.overtime.tier2Percent"} ELSE {})
    \cup (IF Read(s, "deductions.mode") = {"enter"} THEN {"deductions.entered.postTaxOther"} ELSE {})

\* What is not stated counts as nothing.
OrZero(optional) == IF optional = {} THEN 0 ELSE The(optional)

\* The hours of the week in the cells of its days; the hours on public holidays in a week of their own.
WeekGrids(hours, distribution) ==
  LET cells == expandWeekdayHours(hours["work.regularWeekdayHours"], hours["work.overtimeHours"], distribution)
      week == [day \in WEEK_DAYS |->
                 IF day = "sat" THEN [emptyHourGrid[day] EXCEPT !.regular = hours["work.saturdayHours"]]
                 ELSE IF day = "sun" THEN [emptyHourGrid[day] EXCEPT !.regular = hours["work.sundayHours"]]
                 ELSE cells[dayNumber[day]]]
      holidayWeek == [day \in WEEK_DAYS |-> holidayDayCells(hours["work.publicHolidayHours"])[dayNumber[day]]]
  IN  IF hours["work.publicHolidayHours"] > 0 THEN <<week, holidayWeek>> ELSE <<week>>

EngineInput(s) ==
  LET hours == [h \in HoursFields |-> OrZero(Read(s, h))]
      Relevant(h, path) == IF hours[h] > 0 THEN Read(s, path) ELSE {}
      Entry(path) == IF Read(s, path) = {} THEN {} ELSE {EnteredKey[path]}
      keys == UNION {Entry(path) : path \in EnteredFields}
  IN  [rate |-> The(Read(s, "pay.hourlyRate")),
       grids |-> WeekGrids(hours, Relevant("work.overtimeHours", "work.overtimeDistribution")),
       threshold |-> Relevant("work.overtimeHours", "pay.overtime.thresholdHoursPerDay"),
       tier1 |-> Relevant("work.overtimeHours", "pay.overtime.tier1Percent"),
       tier2 |-> Relevant("work.overtimeHours", "pay.overtime.tier2Percent"),
       saturday |-> Relevant("work.saturdayHours", PremiumOf["work.saturdayHours"]),
       sunday |-> Relevant("work.sundayHours", PremiumOf["work.sundayHours"]),
       holiday |-> Relevant("work.publicHolidayHours", PremiumOf["work.publicHolidayHours"]),
       surcharges |-> <<>>, credit |-> Read(s, "tax.loonheffingskorting") = {"applied"},
       travel |-> OrZero(Read(s, "extras.travelAllowance")),
       vakantiegeld |-> [mode |-> IF Read(s, "extras.vakantiegeld.mode") = {"accruing"} THEN "accruing" ELSE "none"],
       deductions |-> [mode |-> The(Read(s, "deductions.mode")),
                       entered |-> [key \in keys |-> The(Read(s, CHOOSE path \in EnteredFields : EnteredKey[path] = key))]]]

\* Every path the scenario fills was consumed by the engine, except those it had no use for.
Consumed(s) ==
  LET Idle(h) == ~\E v \in Read(s, h) : v > 0
  IN  DOMAIN s.fields \
        ({PremiumOf[h] : h \in {x \in DOMAIN PremiumOf : Idle(x)}}
           \cup (IF Idle("work.overtimeHours") THEN OvertimeTerms \cup {"pay.overtime.tier2Percent"} ELSE {})
           \cup (IF Read(s, "deductions.mode") = {"estimate"} THEN EnteredFields ELSE {})
           \cup (IF Read(s, "extras.vakantiegeld.mode") # {"accruing"} THEN {"extras.vakantiegeld.percent"} ELSE {}))

mapScenarioToEngine(s) ==
  LET requirements == Unmet(s, NeededByEngine(s)) \cup Unread(s, ReadByEngine(s))
  IN  IF requirements # {} THEN [requirements |-> requirements]
      ELSE [requirements |-> {}, input |-> EngineInput(s), consumed |-> Consumed(s)]

-----------------------------------------------------------------------------
(* evaluateScenario                                                        *)

\* A range stands for its ends, alternatives for each option; the middle, or the first option, is the central value.
collectUncertain(s) ==
  LET inexact == {p \in DOMAIN s.fields : s.fields[p].state \in {"range", "alternatives"}}
  IN  [p \in inexact |->
         LET node == s.fields[p]
         IN  IF node.state = "range" THEN [candidates |-> {node.low, node.high}, count |-> 2, central |-> Rounded(node.low + node.high, 2)]
             ELSE [candidates |-> ToSet(node.options), count |-> Len(node.options), central |-> node.options[1]]]

resolveWith(s, assignment) ==
  [s EXCEPT !.fields = Over([p \in DOMAIN assignment |-> [state |-> "known", value |-> assignment[p], source |-> s.fields[p].source]], s.fields)]

planVariantRuns(uncertain) == FoldFunction(LAMBDA u, product : u.count * product, 1, uncertain) + (IF uncertain = <<>> THEN 0 ELSE 1)

\* Every way to give each path of the function one of its candidates.
Assignments(candidates) ==
  FoldSet(LAMBDA path, partial : {Over([p \in {path} |-> v], a) : v \in candidates[path], a \in partial}, {<<>>}, DOMAIN candidates)

\* Mutant of materializeVariants: one value is taken at its ends at a time, the others at their middle.
materializeOneAtATime(s, uncertain) ==
  LET central == [p \in DOMAIN uncertain |-> uncertain[p].central]
  IN  [central |-> resolveWith(s, central),
       others |-> UNION {{resolveWith(s, [central EXCEPT ![p] = v]) : v \in uncertain[p].candidates} : p \in DOMAIN uncertain}]

materializeVariants(s, uncertain) ==
  [central |-> resolveWith(s, [p \in DOMAIN uncertain |-> uncertain[p].central]),
   others |-> {resolveWith(s, a) : a \in Assignments([p \in DOMAIN uncertain |-> uncertain[p].candidates])}]

\* Mutant of revalidateVariants: only the scenario itself was validated.
revalidateNothing(variants) == {}

revalidateVariants(variants) == UNION {IssuesOf(v) : v \in variants}

CategoryField == [overtime_tier_1 |-> "pay.overtime.tier1Percent", overtime_tier_2 |-> "pay.overtime.tier2Percent",
                  saturday |-> "pay.saturdayPremiumPercent", sunday |-> "pay.sundayPremiumPercent",
                  holiday |-> "pay.publicHolidayPremiumPercent"]

EngineRequires(path) == Requirement(path, "engine_requires")

RunOf(resolved, mapped, computed) ==
  IF computed.status = "blocked" THEN
    [requirements |-> IF computed.days # {} THEN {EngineRequires("pay.overtime.thresholdHoursPerDay")}
                      ELSE {EngineRequires(CategoryField[c]) : c \in computed.categories}]
  ELSE IF ~computed.complete THEN [requirements |-> {EngineRequires("deductions.mode")}]
  ELSE [requirements |-> {}, resolved |-> resolved, consumed |-> mapped.consumed, hours |-> computed.hours_worked,
        payout |-> computed.payout, estimate |-> computed.payout_range, sanity |-> checkTierASanity(computed, mapped.input)]

RunOfMapped(resolved, mapped) ==
  IF mapped.requirements # {} THEN mapped ELSE RunOf(resolved, mapped, computeTierAResult(mapped.input))

runEngine(resolved) == RunOfMapped(resolved, mapScenarioToEngine(resolved))

rangeMaterialityThreshold(reference) == Max({AbsoluteSwing, Rounded(Magnitude(reference), 100)})

Ends(run) == IF run.estimate # {} THEN {The(run.estimate).low, The(run.estimate).high} ELSE {run.payout}

buildRange(runs) ==
  LET ends == UNION {Ends(run) : run \in runs}
      low == Min(ends)
      high == Max(ends)
  IN  IF high - low < rangeMaterialityThreshold((low + high) \div 2) THEN {} ELSE {[low |-> low, high |-> high]}

Invalid(issues) == [status |-> "invalid", issues |-> issues]
Blocked(requirements) == [status |-> "blocked", requirements |-> requirements]

\* Mutant of Computed: only an assumption of one value is disclosed.
ComputedKnownDisclosed(s, central, runs, uncertain, warnings) ==
  [status |-> "computed", payout |-> central.payout,
   range |-> IF DOMAIN uncertain # {} \/ central.estimate # {} THEN buildRange(runs) ELSE {},
   runs |-> {[hours |-> run.hours, payout |-> run.payout, resolved |-> run.resolved.fields] : run \in runs},
   assumptionsUsed |-> {p \in DOMAIN s.fields \cap central.consumed :
                          s.fields[p].state = "known" /\ s.fields[p].source = "loonto_assumption"},
   warnings |-> warnings]

Computed(s, central, runs, uncertain, warnings) ==
  LET disclosed == {p \in DOMAIN s.fields \cap central.consumed :
                      s.fields[p].state \notin {"unknown", "conflict"} /\ s.fields[p].source = "loonto_assumption"}
  IN  [status |-> "computed", payout |-> central.payout,
       range |-> IF DOMAIN uncertain # {} \/ central.estimate # {} THEN buildRange(runs) ELSE {},
       runs |-> {[hours |-> run.hours, payout |-> run.payout, resolved |-> run.resolved.fields] : run \in runs},
       assumptionsUsed |-> disclosed, warnings |-> warnings \cup disclosed \cup central.sanity]

EvaluationOfRuns(s, uncertain, central, runs, warnings) ==
  LET required == UNION {runs[v].requirements : v \in DOMAIN runs}
  IN  IF required # {} THEN Blocked(required)
      ELSE Computed(s, runs[central], {runs[v] : v \in DOMAIN runs}, uncertain, warnings)

EvaluationOfVariants(s, uncertain, central, all, warnings) ==
  IF revalidateVariants(all) # {} THEN Invalid(revalidateVariants(all))
  ELSE EvaluationOfRuns(s, uncertain, central, [v \in all |-> runEngine(v)], warnings)

EvaluationOfUncertain(s, uncertain, variants, warnings) ==
  EvaluationOfVariants(s, uncertain, variants.central, {variants.central} \cup variants.others, warnings)

EvaluationOf(s, uncertain, validation) ==
  IF validation.status = "invalid" THEN Invalid(validation.issues)
  ELSE IF s.concepts # {} THEN [status |-> "unsupported"]
  ELSE IF validation.status = "blocked" THEN Blocked(validation.requirements)
  ELSE IF planVariantRuns(uncertain) > MaxVariantRuns THEN [status |-> "unsupported"]
  ELSE EvaluationOfUncertain(s, uncertain, materializeVariants(s, uncertain), validation.warnings)

evaluateScenario(s) == EvaluationOf(s, collectUncertain(s), validateScenario(s))
=============================================================================
