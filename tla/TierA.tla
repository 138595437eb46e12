-------------------------------- MODULE TierA --------------------------------
(***************************************************************************)
(* The quick calculator's engine: the hours of each day become hours by    *)
(* category (hour-grid.ts), the categories become the lines of one pay     *)
(* period, and the shared arithmetic prices it (tier-a.ts).                *)
(*                                                                         *)
(* Hours are whole ticks, amounts whole cents, and a value that may be     *)
(* unknown is a set of at most one value.                                  *)
(***************************************************************************)
EXTENDS PayslipArithmetic

CONSTANTS
  TicksPerHour,      \* an hour, in the unit hours are counted in
  Stipp,             \* ESTIMATED_STIPP_DEFAULTS: franchise per hour, premium per mille
  PawwPerMille,      \* ESTIMATED_PAWW_DEFAULT
  SectorPremium      \* SECTOR_PREMIUM_ESTIMATE_RANGE: low and high, per ten thousand

ASSUME HourAssumption == TicksPerHour \in Nat \ {0}
ASSUME PremiumsAssumption ==
  /\ Stipp \in [franchise : Nat, perMille : Nat] /\ PawwPerMille \in Nat
  /\ SectorPremium \in [low : Nat, high : Nat]

Weekdays == <<"mon", "tue", "wed", "thu", "fri">>
WEEK_DAYS == {"mon", "tue", "wed", "thu", "fri", "sat", "sun"}
dayNumber == [mon |-> 1, tue |-> 2, wed |-> 3, thu |-> 4, fri |-> 5, sat |-> 6, sun |-> 7]
Categories == <<"regular", "overtime_tier_1", "overtime_tier_2", "saturday", "sunday", "holiday">>
emptyHourGrid == [day \in WEEK_DAYS |-> [regular |-> 0, overtime |-> 0, holiday |-> FALSE]]

\* What a user states goes before the contract, and the contract before a payslip that was reproduced.
resolveOvertimeTierThreshold(contractStated, payslipEvidence, userEntered) ==
  IF userEntered # {} THEN userEntered ELSE IF contractStated # {} THEN contractStated ELSE payslipEvidence

FlatCategory(day, cell) ==
  IF cell.holiday THEN {"holiday"} ELSE IF day = "sat" THEN {"saturday"} ELSE IF day = "sun" THEN {"sunday"} ELSE {}

(***************************************************************************)
(* A holiday or a weekend day is paid flat.  On a working day the overtime *)
(* beyond the threshold is of the second tier, and overtime with no        *)
(* threshold cannot be placed at all.                                      *)
(***************************************************************************)
DayNeedsThreshold(day, cell, threshold) == FlatCategory(day, cell) = {} /\ cell.overtime > 0 /\ threshold = {}

HoursOfDay(day, cell, threshold, category) ==
  LET flat == FlatCategory(day, cell)
  IN  IF flat # {} THEN IF category \in flat THEN cell.regular + cell.overtime ELSE 0
      ELSE IF category = "regular" THEN cell.regular
      ELSE IF cell.overtime > 0 /\ category = "overtime_tier_1" THEN Lesser(cell.overtime, The(threshold))
      ELSE IF cell.overtime > 0 /\ category = "overtime_tier_2" THEN NotNegative(cell.overtime - The(threshold))
      ELSE 0

convertHourGridToLines(grid, threshold) ==
  [blocked |-> {day \in WEEK_DAYS : DayNeedsThreshold(day, grid[day], threshold)},
   hours |-> [category \in ToSet(Categories) |->
                Sum([day \in WEEK_DAYS |-> IF DayNeedsThreshold(day, grid[day], threshold) THEN 0
                                           ELSE HoursOfDay(day, grid[day], threshold, category)])]]

categoryPercent(category, input) ==
  LET percents == [regular |-> {0}, overtime_tier_1 |-> input.tier1, overtime_tier_2 |-> input.tier2,
                   saturday |-> input.saturday, sunday |-> input.sunday, holiday |-> input.holiday]
  IN  percents[category]

LineAmount(hours, rate, percent) == Rounded(hours * rate * percent, 100 * TicksPerHour)

\* The weeks' hours by category, priced; or the days, or the categories, that cannot be.  A category that was not
\* worked is a line of nothing.
resolveTierAHourGrid(input) ==
  LET threshold == resolveOvertimeTierThreshold({}, {}, input.threshold)
      weeks == [w \in DOMAIN input.grids |-> convertHourGridToLines(input.grids[w], threshold)]
      total == [category \in ToSet(Categories) |-> NotNegative(Sum([w \in DOMAIN weeks |-> weeks[w].hours[category]]))]
      days == UNION {weeks[w].blocked : w \in DOMAIN weeks}
      unpriced == {category \in ToSet(Categories) : total[category] > 0 /\ categoryPercent(category, input) = {}}
      Priced(category) == IF total[category] = 0 THEN 0
                          ELSE LineAmount(total[category], input.rate, 100 + The(categoryPercent(category, input)))
  IN  [days |-> days, categories |-> IF days = {} THEN unpriced ELSE {},
       hours_worked |-> Sum(total),
       hour_lines |-> IF days \cup unpriced # {} THEN <<>>
                      ELSE [i \in DOMAIN Categories |-> [amount |-> Priced(Categories[i]), bt |-> FALSE]]]

(***************************************************************************)
(* The period                                                              *)
(***************************************************************************)
Entered(entered, key) == IF key \in DOMAIN entered THEN <<{entered[key]}>> ELSE <<>>

\* The premiums where the user has them estimated.
EstimatedStipp(gross, hoursWorked) ==
  Rounded(NotNegative(gross * TicksPerHour - Stipp.franchise * hoursWorked) * Stipp.perMille, 1000 * TicksPerHour)
EstimatedPaww(gross) == Rounded(gross * PawwPerMille, 1000)

buildPreTaxDeductions(input, gross, hoursWorked) ==
  LET entered == input.deductions.entered
  IN  IF input.deductions.mode = "skip" THEN <<{}, {}, {}>>
      ELSE IF input.deductions.mode = "estimate" THEN <<{EstimatedStipp(gross, hoursWorked)}, {EstimatedPaww(gross)}>>
      ELSE Entered(entered, "pension") \o Entered(entered, "paww") \o Entered(entered, "sector_premium")

buildPostTaxSocial(input) ==
  IF input.deductions.mode = "enter" THEN Entered(input.deductions.entered, "post_tax_other") ELSE <<>>

\* Holiday pay that accrues is outside the period's gross; paid now it is gross at a special rate nobody here knows.
buildTierAPeriod(input, grid) ==
  LET surcharges == [i \in DOMAIN input.surcharges |->
                       [amount |-> LineAmount(input.surcharges[i].hours, input.rate, input.surcharges[i].percent), bt |-> FALSE]]
      lines == grid.hour_lines \o surcharges
      gross == Sum(AmountOf(lines))
      paidNow == IF input.vakantiegeld.mode = "paid_now"
                 THEN <<[amount |-> Rounded(gross * input.vakantiegeld.percent, 100), bt |-> TRUE]>> ELSE <<>>
  IN  [hour_lines |-> lines \o paidNow, pre_tax |-> buildPreTaxDeductions(input, gross, grid.hours_worked),
       post_tax |-> buildPostTaxSocial(input), et |-> {}, bt_percent |-> {},
       additions |-> IF input.travel > 0 THEN <<input.travel>> ELSE <<>>, deductions |-> <<>>, adjustments |-> <<>>]

estimateSectorPremiumRange(gross) ==
  [low |-> Rounded(gross * SectorPremium.low, 10000), high |-> Rounded(gross * SectorPremium.high, 10000)]

(***************************************************************************)
(* computeTierAResult: blocked by the grid, or an outcome with, where the  *)
(* deductions are estimated, the range of its net and of its payout.       *)
(***************************************************************************)
LessPremium(amount, premium) == [low |-> amount - premium.high, high |-> amount - premium.low]

OutcomeOfGrid(input, grid, outcome) ==
  LET Reduced(amount) == IF input.deductions.mode = "estimate" /\ outcome.complete
                         THEN {LessPremium(amount, estimateSectorPremiumRange(outcome.gross_total))} ELSE {}
  IN  [status |-> "computed", complete |-> outcome.complete, hours_worked |-> grid.hours_worked,
       gross_total |-> outcome.gross_total, table_tax |-> outcome.table_tax, wage_net |-> outcome.wage_net, payout |-> outcome.payout,
       net_range |-> Reduced(outcome.wage_net), payout_range |-> Reduced(outcome.payout)]

ResultOfGrid(input, grid) ==
  IF grid.days \cup grid.categories # {} THEN [status |-> "blocked", days |-> grid.days, categories |-> grid.categories]
  ELSE OutcomeOfGrid(input, grid, computePayslipPeriod(buildTierAPeriod(input, grid), input.credit))

computeTierAResult(input) == ResultOfGrid(input, resolveTierAHourGrid(input))

checkTierASanity(result, input) ==
  IF ~result.complete THEN {}
  ELSE When(result.wage_net > result.gross_total, "net_exceeds_gross")
         \cup When(result.hours_worked > 0 /\ result.wage_net * TicksPerHour > input.rate * result.hours_worked,
                   "effective_rate_exceeds_gross_rate")
=============================================================================
