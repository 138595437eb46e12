-------------------------- MODULE MCPayslipReview --------------------------
(***************************************************************************)
(* Weekly payslips of one or two gross lines, with and without a pension,  *)
(* an ET exchange, a post-tax deduction, net lines and a payout            *)
(* adjustment; the net printed at each of its positions; the tax of the    *)
(* tables, or five euros more.                                             *)
(***************************************************************************)
EXTENDS PayslipReview

MCRates == [multiplier |-> 52,
  brackets |-> <<[from |-> 0, to |-> 1500000, percent |-> 36], [from |-> 1500000, to |-> 99999999, percent |-> 37]>>,
  algemene |-> [most |-> 300000, start |-> 1600000, percent |-> 6],
  arbeidskorting |-> [most |-> 150000, start |-> 1900000, percent |-> 7, top |-> 1700000, buildup |-> 8]]

Dates(paid) == [paid |-> {paid}, ends |-> {2026}, days |-> {7}, expected |-> {7}, namesWeek |-> TRUE, labelWeek |-> {36}, endWeek |-> {36}]
Lines(hours, pre, exchange, reimbursements, post, net, adjustments) ==
  [hours |-> [i \in DOMAIN hours |-> [amount |-> {hours[i]}, bt |-> i = 2]],
   pre_tax |-> [i \in DOMAIN pre |-> [amount |-> {pre[i]}, et |-> FALSE, credit |-> FALSE]],
   post_tax |-> [i \in DOMAIN post |-> [amount |-> {Magnitude(post[i])}, credit |-> post[i] < 0]],
   net_lines |-> [i \in DOMAIN net |-> [amount |-> {Magnitude(net[i])}, reimbursement |-> net[i] > 0]],
   adjustments |-> [i \in DOMAIN adjustments |-> {adjustments[i]}],
   reimbursements |-> [i \in DOMAIN reimbursements |-> {reimbursements[i]}], exchange |-> exchange,
   bt_percent |-> IF Len(hours) = 2 THEN {49} ELSE {}, typed |-> TRUE, dates |-> Dates(2026),
   gross |-> {}, lvh |-> {}, table_tax |-> {}, bt_tax |-> {}, normal |-> {}, special |-> {}, net |-> {}, payout |-> {}]

\* The totals a payroll office prints under the lines: the net at a position, the tax of the tables plus some more.
Totalled(x, at, more) ==
  LET p == PeriodOf(x)
      o == computePayslipPeriod(p, TRUE)
      lvh == GrossTotal(p) - The(PreTaxSum(p))
      net == CASE at = "taxable_base_net" -> o.taxable_base - o.table_tax - o.bt_tax
               [] at = "before" -> o.wage_net
               [] at = "after" -> o.period_net
  IN  [x EXCEPT !.gross = {GrossTotal(p)}, !.lvh = {lvh}, !.table_tax = {o.table_tax + more}, !.bt_tax = {o.bt_tax},
                !.net = {net - more}, !.payout = {o.payout - more}]

Slips == {
  Lines(<<40000>>, <<>>, {}, <<>>, <<>>, <<>>, <<>>),
  Lines(<<40000>>, <<1700>>, {}, <<>>, <<450>>, <<>>, <<>>),
  Lines(<<36000, 5200>>, <<1700>>, {}, <<>>, <<450>>, <<2300, -5100>>, <<>>),
  Lines(<<36000>>, <<>>, {6400}, <<4000, 2400>>, <<450>>, <<-900, 1300>>, <<-2500>>),
  Lines(<<36000, 5200>>, <<1700>>, {6400}, <<6400>>, <<450, -120>>, <<-5100>>, <<3000>>)}

MCDocuments == {Totalled(x, at, more) : x \in Slips, at \in {"taxable_base_net", "before", "after"}, more \in {0, 500}}

\* What a reader may do to one payslip: leave amounts, misread or miss one, take a minus for a sign, miss totals.
At(x, lists) == {<<list, i>> \in lists \X (1..2) : i \in DOMAIN x[list]}
Unread(x) == {[x EXCEPT ![at[1]][at[2]].amount = {}] : at \in At(x, {"hours", "net_lines"})}
               \cup {[x EXCEPT ![at[1]][at[2]] = {}] : at \in At(x, {"adjustments", "reimbursements"})}
UnreadUpToTwo(x) == UNION {{y} \cup Unread(y) : y \in {x} \cup Unread(x)}
More(amount) == {v + 1000 : v \in amount}
Misread(x) == {[x EXCEPT ![at[1]][at[2]].amount = More(@)] : at \in At(x, Lists)}
                \cup {[x EXCEPT ![total] = More(@)] : total \in {"gross", "lvh", "table_tax", "net", "payout"}}
                \cup {[x EXCEPT ![list] = Front(@)] : list \in {l \in Lists : x[l] # <<>>}}
                \cup {[x EXCEPT !.gross = x.lvh, !.lvh = x.gross], [x EXCEPT !.dates = Dates(2027)]}
Incomplete(x) == {[x EXCEPT !.gross = {}], [x EXCEPT !.lvh = {}], [x EXCEPT !.gross = {}, !.lvh = {}], [x EXCEPT !.payout = {}],
                  [x EXCEPT !.gross = x.lvh, !.lvh = {}], [x EXCEPT !.table_tax = {}],
                  [x EXCEPT !.exchange = {}, !.pre_tax = @ \o (IF x.exchange = {} THEN <<>> ELSE <<[amount |-> x.exchange, et |-> TRUE, credit |-> FALSE]>>)], [x EXCEPT !.net = {}], [x EXCEPT !.typed = FALSE],
                  [x EXCEPT !.pre_tax = [i \in DOMAIN @ |-> [@[i] EXCEPT !.amount = {}]]], [x EXCEPT !.exchange = {}],
                  [x EXCEPT !.post_tax = [i \in DOMAIN @ |-> [@[i] EXCEPT !.amount = {}]]],
                  [x EXCEPT !.post_tax = [i \in DOMAIN @ |-> [@[i] EXCEPT !.amount = {-v : v \in @}]],
                            !.net_lines = [i \in DOMAIN @ |-> [@[i] EXCEPT !.amount = {-v : v \in @}]]]}
MCReadings(x) == UnreadUpToTwo(x) \cup UNION {{y} \cup Unread(y) : y \in Misread(x) \cup Incomplete(x)}
=============================================================================
