--------------------------- MODULE ScenarioDialogue ---------------------------
(***************************************************************************)
(* A conversation that fills a scenario until the engine can price it: one *)
(* turn applies the user's message (patch-authority.ts), evaluates the     *)
(* scenario, and asks the next question (next-question.ts,                 *)
(* conversation-turn.ts). The page keeps what is answered for the turns    *)
(* that follow: the scenario, the fields put off and the assumptions       *)
(* declined.  Values of documents are the subject of ConversationScenario. *)
(***************************************************************************)
EXTENDS ScenarioEngine

CONSTANTS
  Starts,       \* the scenarios a conversation starts from
  UserNodes(_), \* the nodes a user may give a field
  HourSplits,   \* the ways a user may state the hours of the week by category
  Edits,        \* what a user may say unasked
  MaxEdits      \* how often they do

ASSUME StartsAssumption == \A s \in Starts : IsScenario(s)
ASSUME NodesAssumption == \A p \in FieldPaths : UserNodes(p) \subseteq NodesFor(p)
ASSUME WritesAssumption == /\ \A writes \in HourSplits : WellWritten(writes)
                           /\ \A m \in Edits : WellWritten(m.writes)

VARIABLES scenario, declined, deferred,
          clarification,   \* "none", or a weekly total was stated: its composition is "open" or known to be "mixed"
          evaluation, question,
          message,         \* what the user says and the server has not answered
          futile,          \* the replies the same question was asked again after
          edits

dialogueVars == <<scenario, declined, deferred, clarification, evaluation, question, message, futile, edits>>

FIELD_PRIORITY == <<"work.hours", "work.regularWeekdayHours", "work.overtimeHours", "work.saturdayHours", "work.sundayHours",
  "work.publicHolidayHours", "pay.hourlyRate", "work.overtimeDistribution", "pay.overtime.thresholdHoursPerDay",
  "pay.overtime.tier1Percent", "pay.overtime.tier2Percent", "pay.saturdayPremiumPercent", "pay.sundayPremiumPercent",
  "pay.publicHolidayPremiumPercent", "tax.loonheffingskorting", "deductions.mode", "deductions.entered.pension",
  "deductions.entered.paww", "deductions.entered.sectorPremium", "deductions.entered.postTaxOther", "extras.travelAllowance",
  "extras.vakantiegeld.mode", "extras.vakantiegeld.percent">>

assumptionNode(value) == [state |-> "known", value |-> value, source |-> "loonto_assumption"]
ASSUMPTION_CATALOG ==
  [path \in {"pay.saturdayPremiumPercent", "pay.sundayPremiumPercent", "pay.publicHolidayPremiumPercent", "deductions.mode",
             "tax.loonheffingskorting"} |->
     IF path = "tax.loonheffingskorting"
     THEN [state |-> "alternatives", options |-> <<"applied", "not_applied">>, source |-> "loonto_assumption"]
     ELSE assumptionNode(IF path = "deductions.mode" THEN "estimate" ELSE IF path = "pay.saturdayPremiumPercent" THEN 50 ELSE 100)]

NoQuestion == [kind |-> "none", field |-> "none"]
Question(kind, field) == [kind |-> kind, field |-> field]
fieldRank(field) == CHOOSE i \in DOMAIN FIELD_PRIORITY : FIELD_PRIORITY[i] = field
FirstOf(fields) == CHOOSE f \in fields : \A g \in fields : fieldRank(f) <= fieldRank(g)

questionForRequirement(requirement, refused, stated) ==
  LET field == requirement.field
      kind == IF field = "work.hours" /\ stated # "none"
              THEN IF stated = "mixed" THEN "split_hours" ELSE "clarify_hours_composition"
              ELSE IF requirement.reason = "conflict" THEN "resolve_conflict"
              ELSE IF requirement.reason = "unknown" /\ field \in DOMAIN ASSUMPTION_CATALOG \ refused THEN "offer_assumption"
              ELSE "provide_value"
  IN  Question(kind, field)

\* An issue of the week as a whole is corrected at the overtime's distribution or at the weekday hours.
actionableField(issue, s) ==
  IF issue.path # "work" THEN issue.path
  ELSE IF issue.code = "day_hours_exceed_24" /\ "work.overtimeHours" \in DOMAIN s.fields THEN "work.overtimeDistribution"
  ELSE "work.regularWeekdayHours"

\* What a conflict leaves open is asked first, then the fields in their order; a field put off is not asked at all.
selectNextQuestion(s, e, refused, stated, later) ==
  IF e.status \in {"computed", "unsupported"} THEN NoQuestion
  ELSE IF e.status = "invalid" THEN Question("correct_value", FirstOf({actionableField(i, s) : i \in e.issues}))
  ELSE LET open == {r \in e.requirements : r.field \notin later}
           conflicts == {r \in open : r.reason = "conflict"}
           first == IF conflicts # {} THEN conflicts ELSE open
       IN  IF open = {} THEN NoQuestion
           ELSE questionForRequirement(CHOOSE r \in first : r.field = FirstOf({x.field : x \in first}), refused, stated)

\* What the engine cannot represent does not keep the conversation from completing the rest.
selectionEvaluation(s, e) ==
  IF e.status = "unsupported" /\ s.concepts # {} THEN evaluateScenario([s EXCEPT !.concepts = {}]) ELSE e

\* A patch is applied whole; one that makes the scenario invalid in a way it was not is refused whole.
applyPatch(s, patched) == IF IssuesOf(patched) \subseteq IssuesOf(s) THEN patched ELSE s

\* Mutant of repeatsAfterDontKnow: only an assumption that is declined puts its field off.
repeatsAfterDecline(intent, current, next) ==
  intent = "decline_assumption" /\ current.field = next.field /\ next.kind \in {current.kind, "provide_value"}

repeatsAfterDontKnow(intent, current, next) ==
  /\ intent \in {"dont_know", "decline_assumption"}
  /\ current.field = next.field
  /\ next.kind \in {current.kind, "provide_value", "split_hours"}

NoMessage == [intent |-> "none"]
Message(intent, writes) ==
  [intent |-> intent, writes |-> writes, removed |-> {}, concepts |-> {}, refuses |-> {}, states |-> "none"]

\* What the user may reply to the question; a weekly total is never put into a category.
Replies ==
  LET field == question.field
      Gives(intent, nodes) == {Message(intent, [p \in {field} |-> node]) : node \in nodes}
      dontKnow == Message("dont_know", <<>>)
  IN  IF question = NoQuestion THEN {}
      ELSE IF field = "work.hours" THEN
        {Message("provide_information", writes) : writes \in HourSplits} \cup {dontKnow}
          \cup {[Message("provide_information", <<>>) EXCEPT !.states = total]
                  : total \in IF question.kind = "split_hours" THEN {"mixed"} ELSE {"open", "mixed"}}
      ELSE IF question.kind = "provide_value" THEN
        Gives("provide_information", UserNodes(field)) \cup Gives("dont_know", {[state |-> "unknown"]})
      ELSE IF question.kind = "correct_value" THEN Gives("correction", UserNodes(field)) \cup {dontKnow}
      ELSE IF question.kind = "offer_assumption" THEN
        Gives("accept_assumption", {ASSUMPTION_CATALOG[field]}) \cup {dontKnow, [Message("decline_assumption", <<>>) EXCEPT !.refuses = {field}]}
      ELSE Gives("correction", {[state |-> "known", value |-> c.value, source |-> c.source] : c \in scenario.fields[field].candidates})
             \cup {dontKnow}

DialogueInit ==
  /\ scenario \in Starts
  /\ declined = {} /\ deferred = {} /\ clarification = "none" /\ edits = 0
  /\ message = NoMessage /\ futile = {}
  /\ evaluation = evaluateScenario(scenario)
  /\ question = selectNextQuestion(scenario, selectionEvaluation(scenario, evaluation), {}, "none", {})

\* A user does not give the same reply twice while the same question stands.
Reply ==
  /\ message = NoMessage
  /\ \E m \in Replies \ futile : message' = m
  /\ UNCHANGED <<scenario, declined, deferred, clarification, evaluation, question, edits, futile>>

\* Something the user says unasked, understood by the model.
Volunteer ==
  /\ message = NoMessage
  /\ edits < MaxEdits /\ edits' = edits + 1
  /\ \E m \in Edits : message' = m
  /\ UNCHANGED <<scenario, declined, deferred, clarification, evaluation, question, futile>>

applyAuthorizedOps ==
  [fields |-> Over(message.writes, [p \in DOMAIN scenario.fields \ message.removed |-> scenario.fields[p]]),
   concepts |-> (scenario.concepts \ message.concepts) \cup (message.concepts \ scenario.concepts)]

(***************************************************************************)
(* runConversationTurn: the patch, the evaluation, the question to follow. *)
(***************************************************************************)
ServerTurn ==
  /\ message # NoMessage /\ message' = NoMessage
  /\ \E s \in {applyPatch(scenario, applyAuthorizedOps)} :
       \E e \in {IF s = scenario THEN evaluation ELSE evaluateScenario(s)} :
         \E selectable \in {selectionEvaluation(s, e)} :
           LET refused == declined \cup message.refuses
               stated == IF message.states = "none" THEN clarification ELSE message.states
               first == selectNextQuestion(s, selectable, refused, stated, deferred)
               later == IF question # NoQuestion /\ repeatsAfterDontKnow(message.intent, question, first)
                        THEN deferred \cup {question.field} ELSE deferred
               next == selectNextQuestion(s, selectable, refused, stated, later)
           IN  /\ scenario' = s /\ evaluation' = e
               /\ declined' = refused /\ deferred' = later
               /\ question' = next
               /\ clarification' = IF next.field = "work.hours" THEN stated ELSE "none"
               /\ futile' = IF next = question THEN futile \cup {message} ELSE {}
  /\ UNCHANGED edits

DialogueNext == Reply \/ Volunteer \/ ServerTurn

\* The steps that must happen, as their effect on the message: a user who is asked replies, and the server answers.
TakesUp == message = NoMessage /\ \E m \in Replies \ futile : message' = m
Answers == message # NoMessage /\ message' = NoMessage
DialogueSpec == DialogueInit /\ [][DialogueNext]_dialogueVars /\ WF_message(TakesUp) /\ WF_message(Answers)

-----------------------------------------------------------------------------
(* Properties                                                              *)

Within16(s) == ~(planVariantRuns(collectUncertain(s)) > MaxVariantRuns)

\* What the validator calls ready the engine can price: the two read the scenario apart, and a field one of them
\* needs and the other does not would leave the user blocked with nothing asked for. (The second overtime tier is
\* the engine's alone.)
ReadyIsComputable ==
  /\ validateScenario(scenario).status = "ready" /\ scenario.concepts = {} /\ Within16(scenario)
  /\ evaluation.status # "invalid"
  => \/ evaluation.status = "computed"
     \/ {r.field : r \in evaluation.requirements} = {"pay.overtime.tier2Percent"}

\* Every hour the user stated is priced, once: whatever the split over days, tiers and weeks, each run pays as many
\* hours as the scenario it resolves holds.
HoursPriced ==
  evaluation.status = "computed" =>
    \A run \in evaluation.runs :
      run.hours = Sum([h \in HoursFields |-> High(At([fields |-> run.resolved], h))])

Resolutions(s) ==
  LET uncertain == collectUncertain(s)
      Inside(p) == uncertain[p].candidates \cup {uncertain[p].central}
                     \cup (IF s.fields[p].state = "range" THEN {(3 * s.fields[p].low + s.fields[p].high) \div 4} ELSE {})
  IN  {resolveWith(s, a) : a \in Assignments([p \in DOMAIN uncertain |-> Inside(p)])}

\* The range shown covers what the pay would be at every value the user's answers allow, not only at their ends;
\* and where no range is shown, that pay is the figure shown, within what counts as immaterial.
RangeCovers ==
  evaluation.status = "computed" =>
    \A s \in Resolutions(scenario) : \A run \in {runEngine(s)} :
      /\ run.requirements = {}
      /\ \A range \in evaluation.range : Min(Ends(run)) >= range.low /\ Max(Ends(run)) <= range.high
      /\ evaluation.range = {} =>
           Magnitude(run.payout - evaluation.payout) <= rangeMaterialityThreshold(evaluation.payout)

\* An assumption of Loonto that is not disclosed with the result has no part in it: any other value of that field
\* gives the same figure and the same range.
AssumptionsDisclosed ==
  evaluation.status = "computed" =>
    \A p \in DOMAIN ASSUMPTION_CATALOG \cap DOMAIN scenario.fields :
      scenario.fields[p] = ASSUMPTION_CATALOG[p] /\ p \notin evaluation.assumptionsUsed =>
        \A node \in UserNodes(p) : LET e == evaluateScenario([scenario EXCEPT !.fields[p] = node])
                              IN  e.status = "computed" => e.payout = evaluation.payout /\ e.range = evaluation.range

\* The conversation comes to rest: no user who goes on replying is asked without end.
Settles == <>[](question = NoQuestion)
=============================================================================
