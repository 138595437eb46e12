-------------------------- MODULE ProfileDecisions --------------------------
(***************************************************************************)
(* What the user decides about a profile field and what the backend still  *)
(* asks: profile-decisions.ts and profile-readiness.ts.  Both are pure and *)
(* stateless: the browser sends every decision again with every resolve.   *)
(*                                                                         *)
(* A path is <<section, key>>: <<"field", f>> for a fixed field and        *)
(* <<collection, label>> for a recurring item.  The evidence fingerprint is*)
(* the record it hashes, so two of them are equal exactly when the hashes  *)
(* of the code are (collisions of sha256 are not modelled).                *)
(***************************************************************************)
EXTENDS PayrollProfile

CONSTANT ValueLimit  \* the upper end of UNIT_RULES, one for all units
ASSUME ValueLimitAssumption == ValueLimit \in Nat \ {0}

Collections == {"netAdditions", "netDeductions"}

\* enumerateProfileFields and findProfileField.
Paths(profile) ==
  {<<"field", f>> : f \in Fields}
  \cup UNION {{<<c, label>> : label \in DOMAIN profile.recurring[c]} : c \in Collections}
findProfileField(profile, path) ==
  IF path[1] = "field" THEN profile.fields[path[2]] ELSE profile.recurring[path[1]][path[2]]

-----------------------------------------------------------------------------
(* The evidence fingerprint *)

canonicalReason(reason) == IF reason.code = "timeline_disagreement" THEN [reason EXCEPT !.date = NoDate] ELSE reason

\* Always of the documentary field, under a decision or not.
fingerprintOf(path, field) ==
  LET documentary == IF field.resolution = <<>> THEN [state |-> field.state, reason |-> field.reason]
                     ELSE [state |-> field.resolution[1].state, reason |-> field.resolution[1].reason]
  IN [path |-> path, state |-> documentary.state, reason |-> canonicalReason(documentary.reason), regime |-> field.regime,
      candidates |-> field.candidates,
      excluded   |-> {[x EXCEPT !.source.date = NoDate] : x \in field.excluded}]

-----------------------------------------------------------------------------
(* Decisions *)

Decision(kind, path, value, fingerprint) == [kind |-> kind, path |-> path, value |-> value, fingerprint |-> fingerprint]

\* UNIT_RULES for a correction; a confirmation only has to be well formed.
validationProblem(decision) ==
  IF decision.kind = "correct_value" /\ ~(decision.value > 0 /\ decision.value <= ValueLimit) THEN "invalid_value" ELSE "none"

Result(status, problem) == [status |-> status, problem |-> problem]

decided(field, decision) ==
  [state      |-> IF decision.kind = "confirm_candidate" THEN "user_confirmed" ELSE "user_corrected",
   value      |-> decision.value,
   reason     |-> NoReason,
   resolution |-> <<[state |-> field.state, value |-> field.value, reason |-> field.reason, decision |-> decision]>>,
   regime |-> field.regime, candidates |-> field.candidates, excluded |-> field.excluded]

isLast(decisions, i) == \A j \in (i + 1)..Len(decisions) : decisions[j].path # decisions[i].path

\* Mutant of decisionResult: the fingerprint of the evidence is not compared.
decisionResultUnchecked(documentary, decisions, i) ==
  LET decision == decisions[i]
  IN IF ~isLast(decisions, i) THEN Result("rejected", "duplicate_field_decision")
     ELSE IF decision.path \notin Paths(documentary) THEN Result("stale", "field_not_found")
     ELSE IF validationProblem(decision) # "none" THEN Result("rejected", validationProblem(decision))
     ELSE Result("applied", "none")

\* The verdict on decision i, in the order applyUserDecisions evaluates it.
decisionResult(documentary, decisions, i) ==
  LET decision == decisions[i]
      field    == findProfileField(documentary, decision.path)
  IN IF ~isLast(decisions, i) THEN Result("rejected", "duplicate_field_decision")
     ELSE IF decision.path \notin Paths(documentary) THEN Result("stale", "field_not_found")
     ELSE IF validationProblem(decision) # "none" THEN Result("rejected", validationProblem(decision))
     ELSE IF field.state \in Usable /\ field.value = decision.value THEN Result("satisfied_by_documents", "none")
     ELSE IF decision.fingerprint # fingerprintOf(decision.path, field) THEN Result("stale", "evidence_changed")
     ELSE IF decision.kind = "confirm_candidate" /\ decision.value \notin {c.value : c \in field.candidates}
          THEN Result("stale", "candidate_not_present")
     ELSE Result("applied", "none")

\* A decision made on other evidence than the field has now is not applied.
decisionResults(documentary, decisions) == [i \in DOMAIN decisions |-> decisionResult(documentary, decisions, i)]

applyUserDecisions(documentary, decisions) ==
  LET results == decisionResults(documentary, decisions)
      applied == {i \in DOMAIN decisions : results[i].status = "applied"}
      on(path) == {i \in applied : decisions[i].path = path}
      field(path) == IF on(path) = {} THEN findProfileField(documentary, path)
                     ELSE decided(findProfileField(documentary, path), decisions[CHOOSE i \in on(path) : TRUE])
  IN [profile |-> [fields    |-> [f \in Fields |-> field(<<"field", f>>)],
                   recurring |-> [c \in Collections |-> [label \in DOMAIN documentary.recurring[c] |-> field(<<c, label>>)]],
                   observed  |-> documentary.observed],
      results |-> results]

-----------------------------------------------------------------------------
(* Readiness: one issue per unresolved field *)

DefaultActiveGroups == {"core_pay"}

\* REQUIREMENT_GROUPS: how a group refers to a field.
requirement(group, path) ==
  CASE group = "core_pay" /\ path \in {<<"field", "hourlyRate">>, <<"field", "periodType">>} -> "required"
    [] group = "overtime" /\ path \in {<<"field", "threshold">>, <<"field", "tier1">>, <<"field", "tier2">>} -> "required"
    [] group = "saturday" /\ path = <<"field", "saturday">> -> "required"
    [] group = "employee_deductions" /\ path = <<"field", "pension">> -> "optional"
    [] group = "net_items" /\ path[1] \in Collections -> "optional"
    [] OTHER -> "none"

severityOf(path, state, active) ==
  IF \E g \in active : requirement(g, path) = "required" THEN "blocking"
  ELSE IF state = "conflict" \/ \E g \in active : requirement(g, path) = "optional" THEN "optional"
  ELSE "informational"

candidateGroups(field) ==
  {[value |-> v,
    basis |-> IF \E c \in field.candidates : c.value = v /\ c.role \in {"contract_base", "contract_annex"} THEN "contractual" ELSE "employer_applied"]
   : v \in {c.value : c \in field.candidates}}

\* Evidence that is shown and never offered as a choice.
hintsFor(profile, path, field) ==
  {[value |-> x.source.value,
    kind  |-> CASE x.reason = "superseded_by_later_document" -> "superseded_value"
                [] x.relation = "value_matches_current_but_period_unknown" -> "unplaceable_matching_value"
                [] OTHER -> "excluded_value"] : x \in {y \in field.excluded : y.source.value # NoValue}}
  \cup IF path \in {<<"field", "tier1">>, <<"field", "tier2">>}
       THEN {[value |-> c.value, kind |-> "observed_premium"] : c \in profile.observed} ELSE {}

actionsFor(severity, candidates) ==
  {"enter_value"} \cup (IF candidates # {} THEN {"select_candidate"} ELSE {})
                  \cup (IF severity # "blocking" THEN {"leave_unresolved"} ELSE {})

\* The last decision on the field, when it is stale: suggested again.
previousDecision(path, decisions, results) ==
  LET stale == {i \in DOMAIN decisions : decisions[i].path = path /\ isLast(decisions, i)
                                         /\ results[i].status = "stale" /\ results[i].problem # "field_not_found"}
  IN IF stale = {} THEN <<>> ELSE LET d == decisions[CHOOSE i \in stale : TRUE] IN <<[kind |-> d.kind, value |-> d.value]>>

buildProfileIssues(profile, active, decisions, results) ==
  {LET field    == findProfileField(profile, path)
       severity == severityOf(path, field.state, active)
   IN [path |-> path, severity |-> severity, candidates |-> candidateGroups(field), hints |-> hintsFor(profile, path, field),
       actions |-> actionsFor(severity, candidateGroups(field)), fingerprint |-> fingerprintOf(path, field),
       previous |-> previousDecision(path, decisions, results)]
   : path \in {p \in Paths(profile) : findProfileField(profile, p).state \in {"conflict", "unknown"}}}

ready(issues) == \A i \in issues : i.severity # "blocking"
=============================================================================
