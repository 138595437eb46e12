--------------------------- MODULE MCScenarioEngine ---------------------------
(***************************************************************************)
(* Weeks of weekday hours with overtime of both tiers, a Saturday and      *)
(* holiday hours that fill more than a day; wages, surcharges and          *)
(* deductions given exactly, as a range, as alternatives, as a conflict,   *)
(* by an assumption or not at all.  Nobody knows the second overtime tier *)
(* who has not stated it from the start.                                   *)
(***************************************************************************)
EXTENDS ScenarioDialogue

MCRates == [multiplier |-> 52,
  brackets |-> <<[from |-> 0, to |-> 1500000, percent |-> 36], [from |-> 1500000, to |-> 99999999, percent |-> 37]>>,
  algemene |-> [most |-> 300000, start |-> 1600000, percent |-> 6],
  arbeidskorting |-> [most |-> 150000, start |-> 1900000, percent |-> 7, top |-> 1700000, buildup |-> 8]]

MCStipp == [franchise |-> 924, perMille |-> 75]
MCSectorPremium == [low |-> 18, high |-> 70]

Known(value) == [state |-> "known", value |-> value, source |-> "user"]
Hours(n) == Known(n * TicksPerHour)
Between(low, high) == [state |-> "range", low |-> low, high |-> high, source |-> "user"]
HoursBetween(low, high) == Between(low * TicksPerHour, high * TicksPerHour)
Either(a, b) == [state |-> "alternatives", options |-> <<a, b>>, source |-> "user"]
Even(days) == [kind |-> "even", days |-> days]
ByDay(hours) == [kind |-> "explicit", byDay |-> [i \in WeekdayNumbers |-> IF i \in DOMAIN hours THEN hours[i] * TicksPerHour ELSE 0]]
Two(v, w) == [state |-> "conflict", candidates |-> {[value |-> v, source |-> "user"], [value |-> w, source |-> "user"]}]

MCUserNodes(path) ==
  CASE path = "work.regularWeekdayHours" -> {Hours(40), HoursBetween(24, 40)}
    [] path = "work.overtimeHours" -> {Hours(0), Hours(7), HoursBetween(0, 7)}
    [] path = "work.saturdayHours" -> {Hours(8)}
    [] path = "work.overtimeDistribution" -> {Known(Even(2)), Known(ByDay(<<3, 4>>)), Either(Even(1), Even(5))}
    [] path = "pay.overtime.thresholdHoursPerDay" -> {Hours(2), HoursBetween(2, 4)}
    [] path = "pay.overtime.tier1Percent" -> {Known(25), Between(25, 50)}
    [] path \in {"pay.saturdayPremiumPercent", "pay.publicHolidayPremiumPercent"} -> {Known(60), Between(25, 75)}
    [] path = "tax.loonheffingskorting" -> {Known("applied"), Known("not_applied")}
    [] path = "deductions.mode" -> {Known("estimate"), Known("enter"), Either("estimate", "enter")}
    [] path = "deductions.entered.pension" -> {Known(1700), Between(0, 2400)}
    [] path = "deductions.entered.paww" -> {Known(90)}
    [] path = "deductions.entered.sectorPremium" -> {Known(300)}
    [] path = "pay.hourlyRate" -> {Known(1500), Between(1500, 1900)}
    [] path = "extras.vakantiegeld.percent" -> {Known(8)}
    [] OTHER -> {}

Plain == "work.regularWeekdayHours" :> Hours(38) @@ "pay.hourlyRate" :> Known(1650)
           @@ "tax.loonheffingskorting" :> Known("applied") @@ "deductions.mode" :> Known("estimate")
Week(fields, absent) == [fields |-> fields @@ [p \in DOMAIN Plain \ absent |-> Plain[p]], concepts |-> {}]

MCStarts == {
  Week("work.overtimeHours" :> Hours(7) @@ "pay.overtime.tier2Percent" :> Known(50), {}),
  Week("work.saturdayHours" :> HoursBetween(0, 8) @@ "work.publicHolidayHours" :> Hours(30), {"tax.loonheffingskorting"}),
  Week("pay.hourlyRate" :> Two(1500, 1700), {"deductions.mode", "work.regularWeekdayHours"}),
  Week("work.overtimeHours" :> HoursBetween(0, 7) @@ "pay.overtime.tier1Percent" :> Known(25), {"deductions.mode"})}

MCHourSplits == {"work.regularWeekdayHours" :> Hours(40), 
  "work.regularWeekdayHours" :> HoursBetween(24, 40) @@ "work.saturdayHours" :> Hours(8)}

Edit(writes, removed, concepts) == [Message("provide_information", writes) EXCEPT !.removed = removed, !.concepts = concepts]
MCEdits == {
  Edit("work.overtimeHours" :> HoursBetween(0, 7), {}, {}),
  Edit("work.regularWeekdayHours" :> Hours(100), {}, {}),
  Edit("extras.vakantiegeld.mode" :> Known("accruing"), {}, {}),
  Edit(<<>>, {"work.saturdayHours"}, {}),
  Edit(<<>>, {}, {"night_premium"})}
=============================================================================
