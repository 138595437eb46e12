------------------------ MODULE MCPayslipAnalysis ------------------------
(* Documents of one to four pages of the texts that matter, a photo that may replace one, and a few things printed *)
(* on them: a period type, a net that two pages may state, a rate, a wage line and a deduction.                    *)
EXTENDS PayslipAnalysis

Plain == [whole |-> 0, width |-> 2, grouped |-> FALSE, mark |-> "comma", fraction |-> 0, decimals |-> 2, minus |-> {}]
Of(tokens) == {[tokens |-> tokens, plus |-> FALSE, personal |-> FALSE]}

Scalar(page, key, value, raw, means) ==
  [list |-> "scalars", key |-> key, status |-> "found", value |-> value, raw |-> raw, means |-> means, page |-> page, at |-> 0]
Line(page, at, list, kind, numbers, raw, means) ==
  [list |-> list, kind |-> kind, numbers |-> numbers, unclear |-> {}, raw |-> raw, means |-> means, page |-> page, at |-> at]

Weekly(page) == Scalar(page, "periodType", 1, {}, {})
\* "15,55", "15.55", "2.000" and "1 234,56".
RateComma(page) == Scalar(page, "hourlyRate", 1555, Of(<<[Plain EXCEPT !.whole = 15, !.fraction = 55]>>), {1555})
NetDot(page) == Scalar(page, "printedNet", 1555, Of(<<[Plain EXCEPT !.whole = 15, !.mark = "dot", !.fraction = 55]>>), {1555})
NetGroup(page) ==
  Scalar(page, "printedNet", 200000,
         Of(<<[Plain EXCEPT !.whole = 2, !.width = 1, !.mark = "dot", !.decimals = 3]>>), {200000})
NetSplit(page) ==
  Scalar(page, "printedNet", 123456,
         Of(<<[Plain EXCEPT !.whole = 1, !.width = 1, !.mark = "none", !.decimals = 0],
              [Plain EXCEPT !.whole = 234, !.width = 3, !.fraction = 56]>>), {123456})
\* "8,00 2.000": eight hours and two thousand.
Wage(page) ==
  Line(page, 1, "hour_lines", "regular", [hours |-> {800}, rate |-> {}, percent |-> {}, amount |-> {200000}],
       Of(<<[Plain EXCEPT !.whole = 8, !.width = 1], [Plain EXCEPT !.whole = 2, !.width = 1, !.mark = "dot", !.decimals = 3]>>),
       {800, 200000})
Tax(page) ==
  Line(page, 2, "deduction_lines", "whk", [percent |-> {}, base |-> {}, amount |-> {-155}],
       Of(<<[Plain EXCEPT !.whole = 1, !.width = 1, !.fraction = 55, !.minus = {"trailing"}]>>), {155})

\* Read right, with the decimal mark elsewhere, with another word, with a page of another call, or not certain of it.
MCAnswers(e) ==
  {e} \cup IF e.list = "scalars"
             THEN {[e EXCEPT !.status = "ambiguous", !.value = 0]}
                    \cup (IF e.key = "periodType" THEN {[e EXCEPT !.value = 2], [e EXCEPT !.value = 7]}
                          ELSE {[e EXCEPT !.value = @ * 10], [e EXCEPT !.value = @ \div 10],
                                [e EXCEPT !.raw = {[raw EXCEPT !.personal = TRUE] : raw \in @}, !.value = @ * 10, !.page = 9]})
             ELSE {[e EXCEPT !.unclear = {"amount"}], [e EXCEPT !.numbers.amount = {v \div 10 : v \in @}]}

Paper(chars, prints) ==
  [pageCount |-> Len(chars), chars |-> chars, lines |-> [p \in DOMAIN chars |-> IF chars[p] = 0 THEN 0 ELSE 1],
   prints |-> prints, reads |-> IF prints = {} THEN 2 ELSE 1]

\* Every character on a line of its own.
Lined(chars) == [Paper(chars, {}) EXCEPT !.lines = chars]
Photo == Paper(<<0>>, {})

\* No text, a thin page, a full one, and one with more text than a call may carry.
PageTexts == {0, 1, 2, 6}
Short == {Paper(c, {}) : c \in UNION {[1..n -> PageTexts] : n \in 1..2}}
Longer == {Paper(c, {}) : c \in {<<1, 1, 1>>, <<2, 1, 1>>, <<2, 6, 0>>, <<2, 2, 2>>, <<1, 2, 1, 2>>, <<2, 2, 2, 0>>, <<2, 2, 1, 1, 1>>}}
           \cup {Lined(c) : c \in {<<2, 2>>, <<4>>, <<2, 2, 0>>, <<2, 3, 2>>}}
Printed == {Paper(<<2>>, {Weekly(1), Wage(1)}), Paper(<<2>>, {Weekly(1), Tax(1)}), Paper(<<2>>, {RateComma(1)}),
            Paper(<<0, 0, 0>>, {Weekly(1), Weekly(3)}), Paper(<<0, 0, 0>>, {NetDot(1), NetDot(3)}),
            Paper(<<2>>, {NetGroup(1)}), Paper(<<2>>, {NetSplit(1)})}
MCSources == {[f \in Files |-> IF f = "payslip" THEN document ELSE Photo] : document \in Short \cup Longer \cup Printed}
==========================================================================
