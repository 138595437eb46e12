---------------------------- MODULE AdvisorTurn ----------------------------
(***************************************************************************)
(* The turns of one advisor conversation, as the server runs them:         *)
(* runAdvisorTurn (advisor/advisor-turn.ts) with its call budget, its      *)
(* deadline, its tools and the claim check (advisor/claim-check.ts), and   *)
(* what the controller keeps from an answered turn for the next ones.      *)
(*                                                                         *)
(* The model is free: it may ask for tools, write any of Drafts, write     *)
(* nothing, fail or time out.  A draft is abstracted to the amounts it     *)
(* mentions, each with how it describes them, and to whether it asserts an *)
(* entitlement.  A claim is an amount Loonto can supply, with its kind.    *)
(***************************************************************************)
EXTENDS ClaimCheck, Integers, FiniteSets, SequencesExt

CONSTANTS
  Drafts,               \* the answers the model may write
  ToolClaims,           \* the claims a tool may supply
  DocumentClaims,       \* the claims a document may supply
  MaxModelCalls, MaxToolCallsPerRound, CallTimeout, TurnDeadline,   \* AdvisorBudget
  Grace,                \* a call is started only with more than this left (1000 ms)
  HistoryTurns,         \* earlier turns whose user messages the model sees (historyMessages / 2)
  MaxGroundedClaims     \* claims kept for later turns

ASSUME BudgetAssumption ==
  /\ MaxModelCalls \in Nat \ {0} /\ MaxToolCallsPerRound \in Nat \ {0}
  /\ CallTimeout \in Nat \ {0} /\ TurnDeadline \in Nat /\ Grace \in Nat
  /\ HistoryTurns \in Nat \ {0} /\ MaxGroundedClaims \in Nat \ {0}

ASSUME ClaimsAssumption ==
  /\ Drafts \subseteq Draft
  /\ ToolClaims \subseteq Claim /\ DocumentClaims \subseteq Claim

VARIABLES
  pc,            \* "idle", or what the turn does next: "ask" the model, or ask for the "rewrite"
  calls,         \* modelCalls of this turn
  elapsed,       \* Date.now() - started
  rounds,        \* tool calls run in this turn
  numbers,       \* the amounts in the current user message
  knowledge,     \* claimSourcesFromKnowledge: what the turn's document supplies
  toolClaims,    \* what the tools supplied in this turn
  said,          \* amounts in the user messages of the remembered turns, oldest first
  groundedClaims,\* the claims kept from earlier turns
  outcome,       \* how the last turn ended
  shown,         \* the answer the last turn delivered
  supplied       \* every claim ever supplied in this conversation (history)

input == <<numbers, knowledge>>
memory == <<said, groundedClaims>>
vars == <<pc, calls, elapsed, rounds, numbers, knowledge, toolClaims, said, groundedClaims,
          outcome, shown, supplied>>

Statuses == {"none", "ok", "unavailable", "withheld"}

Init ==
  /\ pc = "idle"
  /\ calls = 0 /\ elapsed = 0 /\ rounds = 0
  /\ numbers = {} /\ knowledge = {} /\ toolClaims = {}
  /\ said = <<>> /\ groundedClaims = <<>>
  /\ outcome = [status |-> "none", rewritten |-> FALSE]
  /\ shown = NoDraft
  /\ supplied = {}

\* What every amount may rest on: tools, the document, earlier turns, the user's own numbers.
Sources ==
  toolClaims \cup knowledge \cup ToSet(groundedClaims)
    \cup UserStated(numbers \cup UNION ToSet(said))

-----------------------------------------------------------------------------
(* advisor-turn.ts and what advisor.controller.ts keeps *)

\* s.slice(-n)
Latest(n, s) == SubSeq(s, IF Len(s) > n THEN Len(s) - n + 1 ELSE 1, Len(s))

remaining == TurnDeadline - elapsed
MayCall == remaining > Grace
\* Mutant of timeout: a call may take its full time, however little of the turn is left.
fullTimeout == CallTimeout

\* The abort of a call: its own timeout, or the end of the turn.
timeout == IF CallTimeout < remaining THEN CallTimeout ELSE remaining

\* The last call before the reserved rewrite: the model may not ask for tools any more.
lastCall == calls >= MaxModelCalls - 2

\* One model call that answers before its timeout.
Called ==
  /\ MayCall
  /\ calls' = calls + 1
  /\ \E d \in 0 .. (timeout - 1) : elapsed' = elapsed + d

\* The turn returns; what it held is gone.
Ends(status, rewritten) ==
  /\ pc' = "idle"
  /\ numbers' = {} /\ knowledge' = {} /\ toolClaims' = {}
  /\ outcome' = [status |-> status, rewritten |-> rewritten]

\* The turn reports a state instead of an answer; nothing of it is remembered.
Fails(status, rewritten) ==
  /\ Ends(status, rewritten)
  /\ UNCHANGED <<shown, supplied, rounds>> /\ UNCHANGED memory

\* A new user message, with what its document (if one is available now) supplies.
StartTurn ==
  /\ pc = "idle"
  /\ \E values \in SUBSET Values, document \in {{}, DocumentClaims} :
       /\ numbers' = values /\ knowledge' = document
       /\ supplied' = supplied \cup document \cup UserStated(values)
  /\ calls' = 0 /\ elapsed' = 0 /\ rounds' = 0 /\ toolClaims' = {}
  /\ pc' = "ask"
  /\ shown' = NoDraft /\ outcome' = [status |-> "none", rewritten |-> FALSE]
  /\ UNCHANGED memory

\* Mutant of DeadlinePassed: a rewrite that may not call any more is waited for.
DeadlineSeenAsking ==
  /\ pc # "idle" /\ ~MayCall
  /\ IF pc = "ask" THEN Fails("unavailable", FALSE) /\ UNCHANGED <<calls, elapsed>>
     ELSE UNCHANGED vars

\* call() refuses to start: too little of the turn is left.
DeadlinePassed ==
  /\ pc # "idle" /\ ~MayCall
  /\ Fails("unavailable", pc = "rewrite")
  /\ UNCHANGED <<calls, elapsed>>

\* The call is aborted at its timeout.
CallTimesOut ==
  /\ pc # "idle" /\ MayCall
  /\ calls' = calls + 1 /\ elapsed' = elapsed + timeout
  /\ Fails("unavailable", pc = "rewrite")

\* The provider fails.
CallFails ==
  /\ pc # "idle"
  /\ Called
  /\ Fails("unavailable", pc = "rewrite")

\* Which of the requested calls of one round run: those that name a tool, up to the cap.
Run(known) == {i \in known : i <= MaxToolCallsPerRound}

\* The model asks for tools (and may): those of Run run, the rest are refused; the model is asked again.
\* (It asks for at most one call more than the cap.)
RunTools ==
  /\ pc = "ask" /\ ~lastCall
  /\ Called
  /\ \E known \in SUBSET (1 .. MaxToolCallsPerRound + 1), results \in SUBSET ToolClaims :
       /\ Run(known) = {} => results = {}
       /\ rounds' = rounds + Cardinality(Run(known))
       /\ toolClaims' = toolClaims \cup results
       /\ supplied' = supplied \cup results
  /\ UNCHANGED <<pc, outcome, shown>> /\ UNCHANGED input /\ UNCHANGED memory

\* The answer is delivered; its message and the claims behind it are kept for the next turns.
Deliver(draft, rewritten) ==
  /\ Ends("ok", rewritten)
  /\ shown' = draft
  /\ said' = Latest(HistoryTurns, Append(said, numbers))
  /\ LET used == claimsUsed(draft, Sources)      \* in the order the draft mentions them
     IN \E claims \in BoundedSeq(used, Cardinality(used)) :
          /\ ToSet(claims) = used
          /\ groundedClaims' = Latest(MaxGroundedClaims, groundedClaims \o claims)
  /\ UNCHANGED <<supplied, rounds>>

\* The model writes an answer that passes the check, first or rewritten.
GoodDraft ==
  /\ pc # "idle"
  /\ Called
  /\ \E draft \in Drafts : Passes(draft, Sources) /\ Deliver(draft, pc = "rewrite")

\* The model writes nothing: first 'empty_answer', in the rewrite the answer is withheld.
EmptyDraft ==
  /\ pc # "idle"
  /\ Called
  /\ Fails(IF pc = "rewrite" THEN "withheld" ELSE "unavailable", pc = "rewrite")

\* The first draft has issues: one rewrite is asked for, if a call is left.
BadDraft ==
  /\ pc = "ask"
  /\ Called
  /\ \E draft \in Drafts : ~Passes(draft, Sources)
  /\ IF calls' >= MaxModelCalls
       THEN Fails("withheld", FALSE)
       ELSE /\ pc' = "rewrite"
            /\ UNCHANGED <<outcome, shown, supplied, toolClaims, rounds>>
            /\ UNCHANGED input /\ UNCHANGED memory

\* The rewrite still has issues: fail closed.
BadRewrite ==
  /\ pc = "rewrite"
  /\ Called
  /\ \E draft \in Drafts : ~Passes(draft, Sources)
  /\ Fails("withheld", TRUE)

Proceed ==
  \/ DeadlinePassed \/ CallTimesOut \/ CallFails \/ RunTools
  \/ GoodDraft \/ EmptyDraft \/ BadDraft \/ BadRewrite

Next == StartTurn \/ Proceed

Spec == Init /\ [][Next]_vars /\ WF_vars(Proceed)

-----------------------------------------------------------------------------
(* Properties *)

\* The variables keep their types, and the memory its caps.
TypeOK ==
  /\ pc \in {"idle", "ask", "rewrite"}
  /\ calls \in Nat /\ elapsed \in Nat /\ rounds \in Nat
  /\ numbers \in SUBSET Values
  /\ knowledge \in SUBSET Claim /\ toolClaims \in SUBSET Claim /\ supplied \in SUBSET Claim
  /\ said \in Seq(SUBSET Values) /\ Len(said) <= HistoryTurns
  /\ groundedClaims \in Seq(Claim) /\ Len(groundedClaims) <= MaxGroundedClaims
  /\ outcome \in [status : Statuses, rewritten : BOOLEAN]
  /\ shown \in Draft

\* Every amount the user is shown - first draft or rewrite, in this turn or built on an earlier one -
\* was supplied by a tool, a document or the user in this conversation, and is described as that
\* supply allows: no amount is the model's own, none is verified, an orientation alone is never gross,
\* net, a payout, a premium or a forecast, and no entitlement is asserted (claim-check.ts).
AnswersSupported ==
  /\ \A m \in shown.mentions : \E s \in supplied : Supports(s, m)
  /\ ~shown.entitlement

\* What a later turn may build on was really supplied, as the kind it is kept as: no amount turns into
\* another kind on its way through the remembered claims.
KindsKept == ToSet(groundedClaims) \subseteq supplied

\* The reserve of advisor-turn.ts: a turn spends at most its calls, and a first draft with issues is
\* withheld without its one rewrite only when the budget is a single call.
RewriteReserved ==
  /\ calls <= MaxModelCalls
  /\ outcome.status = "withheld" /\ ~outcome.rewritten => MaxModelCalls = 1

\* The turn ends inside its deadline, whatever the calls take (well inside the function limit).
TurnInTime == elapsed <= TurnDeadline

\* Tools run only in the calls before the last two, at most MaxToolCallsPerRound in each.
ToolsBounded ==
  rounds <= MaxToolCallsPerRound * (IF MaxModelCalls > 2 THEN MaxModelCalls - 2 ELSE 0)

\* The turn ends inside its deadline and its calls, whatever they take; a first draft with issues is withheld
\* without its one rewrite only when the budget is a single call; and tools run only before the last two.
BudgetKept == RewriteReserved /\ TurnInTime /\ ToolsBounded

\* The conversation is one of answers that only use what was supplied, each asked for once and each
\* asked turn ended (AdvisorPromise), whatever budget, tools, checks and rewrites stand in between.
Promise == INSTANCE AdvisorPromise WITH asking <- (pc # "idle")
PromiseKept == Promise!Spec

-----------------------------------------------------------------------------
(* The inductive invariant behind the safety properties. *)

\* User messages that were really said: each of their amounts is a supplied user statement.
SaidValues == {values \in SUBSET Values : UserStated(values) \subseteq supplied}

SourcesInv ==
  /\ toolClaims \subseteq supplied /\ knowledge \subseteq supplied /\ numbers \in SaidValues
  /\ groundedClaims \in Seq(supplied)
  /\ said \in Seq(SaidValues)

\* The reserve: while the model is asked, two calls are left (or none was made yet); a rewrite has one.
BudgetInv ==
  /\ pc = "ask" => calls = 0 \/ calls <= MaxModelCalls - 2
  /\ pc = "rewrite" => calls < MaxModelCalls
  /\ pc = "ask" => rounds <= MaxToolCallsPerRound * calls

IInv ==
  /\ TypeOK /\ SourcesInv /\ BudgetInv
  /\ AnswersSupported /\ RewriteReserved /\ TurnInTime /\ ToolsBounded

=============================================================================
