--------------------------- MODULE MCAdvisorTurn ---------------------------
(* A small instance of AdvisorTurn for TLC: two amounts, answers of one mention at most. *)
EXTENDS AdvisorTurn

MCValues == {1, 2}

\* The orientation tool gives 1; scenario state and document give 2.
MCToolClaims == {[value |-> 1, kind |-> "indicative_base_wage_only"], [value |-> 2, kind |-> "tool_value"]}
MCDocumentClaims == {[value |-> 2, kind |-> "document_gross"]}

MCDrafts ==
  {[mentions |-> {[value |-> v, as |-> a]}, entitlement |-> FALSE] :
     v \in MCValues, a \in {"plain", "gross", "verified"}}
  \cup {[mentions |-> {}, entitlement |-> e] : e \in BOOLEAN}

=============================================================================
