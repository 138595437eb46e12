----------------------------- MODULE ClaimCheck -----------------------------
(***************************************************************************)
(* The claim check of the advisor (advisor/claim-check.ts): what an amount *)
(* Loonto can supply is, how an answer may describe it, and which answers  *)
(* pass.  The cue lists that read a description off the text are           *)
(* abstracted to the description itself; the check of premium percentages  *)
(* is left out.                                                            *)
(***************************************************************************)

CONSTANT Values   \* amounts

Kinds == {"indicative_base_wage_only", "document_gross", "document_net", "user_stated", "tool_value"}

\* How a draft describes an amount: without a cue (or as exactly what it is), with a label, as what
\* the user will get, as both net and future, or as verified.
Descriptions == {"plain", "gross", "net", "payout", "premium", "forecast", "net_forecast", "verified"}

Claim   == [value : Values, kind : Kinds]
Mention == [value : Values, as : Descriptions]
Draft   == [mentions : SUBSET Mention, entitlement : BOOLEAN]
NoDraft == [mentions |-> {}, entitlement |-> FALSE]

\* problemsFor: the descriptions a claim of each kind does not support.
Unsupported(kind) ==
  {"verified"} \cup
  CASE kind = "indicative_base_wage_only" -> {"gross", "net", "payout", "premium", "forecast", "net_forecast"}
    [] kind = "document_gross" -> {"net", "premium", "forecast", "net_forecast"}
    [] kind = "document_net" -> {"gross", "premium", "forecast", "net_forecast"}
    [] OTHER -> {"net_forecast"}

Supports(claim, mention) ==
  claim.value = mention.value /\ mention.as \notin Unsupported(claim.kind)

\* Mutant of Passes: an amount that is known passes, however it is described.
PassesByValue(draft, sources) ==
  /\ \A m \in draft.mentions : \E s \in sources : s.value = m.value
  /\ ~draft.entitlement

\* checkClaims finds no issue: every amount has a source that supports it as written, and no
\* entitlement is asserted.
Passes(draft, sources) ==
  /\ \A m \in draft.mentions : \E s \in sources : Supports(s, m)
  /\ ~draft.entitlement

\* claimsUsed: the sources that support an amount of the draft as written.
claimsUsed(draft, sources) == {s \in sources : \E m \in draft.mentions : Supports(s, m)}

UserStated(values) == [value : values, kind : {"user_stated"}]

=============================================================================
