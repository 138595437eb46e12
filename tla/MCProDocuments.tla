--------------------------- MODULE MCProDocuments ---------------------------
(***************************************************************************)
(* A contract, and an annex whose printed date the user may disagree with; *)
(* the period type, which only a payslip states, is left for the user.     *)
(***************************************************************************)
EXTENDS ProDocuments

Exact(field, value) == [field |-> field, value |-> value, status |-> "exact"]
Facts(facts, lines) == mergeBatches({Batch({1}, 1, facts, lines, {})})
Nil == Facts({}, {})

MCUploads == <<1, 2>>
MCRead == [f \in 1..2 |-> [kind \in {"payslip", "contract"} |->
  CASE f = 1 /\ kind = "contract" -> Facts({Exact("hourlyRate", 10), Exact("caoPhase", 1)}, {})
    [] f = 2 /\ kind = "contract" -> Facts({Exact("hourlyRate", 12), Exact("caoPhase", 2), Exact("effectiveDate", 2)}, {})
    [] OTHER -> Nil]]
MCTypes == [f \in 1..2 |-> CASE f = 1 -> {"contract_base"} [] f = 2 -> {"contract_annex"}]
=============================================================================
