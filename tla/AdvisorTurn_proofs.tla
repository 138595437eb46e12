------------------------- MODULE AdvisorTurn_proofs -------------------------
(***************************************************************************)
(* Proofs about AdvisorTurn, for every budget, every set of answers the    *)
(* model may write, and every set of claims tools and documents supply.    *)
(***************************************************************************)
EXTENDS AdvisorTurn, FiniteSetTheorems, TLAPS

\* The latest n elements of a sequence are a sequence of the same elements, at most n of them.
LEMMA LatestType ==
  ASSUME NEW S, NEW s \in Seq(S), NEW n \in Nat \ {0}
  PROVE  Latest(n, s) \in Seq(S) /\ Len(Latest(n, s)) <= n
BY DEF Latest

\* At most MaxToolCallsPerRound of the requested calls run.
LEMMA RunBound ==
  ASSUME NEW known \in SUBSET (1 .. MaxToolCallsPerRound + 1)
  PROVE  Cardinality(Run(known)) \in 0 .. MaxToolCallsPerRound
<1>1. MaxToolCallsPerRound \in Nat
  BY BudgetAssumption
<1>2. IsFiniteSet(1 .. MaxToolCallsPerRound) /\ Cardinality(1 .. MaxToolCallsPerRound) = MaxToolCallsPerRound
  BY <1>1, FS_Interval
<1>3. Run(known) \subseteq 1 .. MaxToolCallsPerRound
  <2>1. SUFFICES ASSUME NEW i \in Run(known) PROVE i \in 1 .. MaxToolCallsPerRound
    OBVIOUS
  <2>2. i \in known /\ i <= MaxToolCallsPerRound
    BY DEF Run
  <2>3. i \in 1 .. (MaxToolCallsPerRound + 1)
    BY <2>2
  <2> QED
    BY <1>1, <2>2, <2>3
<1>4. IsFiniteSet(Run(known)) /\ Cardinality(Run(known)) <= MaxToolCallsPerRound
  <2>1. /\ IsFiniteSet(Run(known))
        /\ Cardinality(Run(known)) <= Cardinality(1 .. MaxToolCallsPerRound)
    BY <1>2, <1>3, FS_Subset
  <2> QED
    BY <1>2, <2>1
<1>5. Cardinality(Run(known)) \in Nat
  BY <1>4, FS_CardinalityType
<1> QED
  BY <1>1, <1>4, <1>5

\* More calls allow at least as many tool runs.
LEMMA TimesMonotone ==
  ASSUME NEW t \in Nat, NEW a \in Nat, NEW b \in Nat, a <= b
  PROVE  t * a <= t * b /\ t * (a + 1) = t * a + t /\ t * a \in Nat
OBVIOUS

\* The sources of a turn were all supplied in the conversation.
LEMMA SourcesSupplied == IInv => Sources \subseteq supplied
<1> SUFFICES ASSUME IInv PROVE Sources \subseteq supplied
  OBVIOUS
<1>1. ToSet(groundedClaims) \subseteq supplied
  BY DEF IInv, SourcesInv, ToSet
<1>2. ASSUME NEW v \in numbers \cup UNION ToSet(said) PROVE [value |-> v, kind |-> "user_stated"] \in supplied
  <2>1. PICK values \in SaidValues : v \in values
    BY DEF IInv, SourcesInv, ToSet
  <2> QED
    BY <2>1 DEF SaidValues, UserStated
<1>3. UserStated(numbers \cup UNION ToSet(said)) \subseteq supplied
  BY <1>2 DEF UserStated
<1> QED
  BY <1>1, <1>3 DEF IInv, SourcesInv, Sources

LEMMA InitIInv == Init => IInv
BY BudgetAssumption
DEF Init, IInv, TypeOK, SourcesInv, BudgetInv, AnswersSupported, RewriteReserved, TurnInTime,
    ToolsBounded, NoDraft, Draft, SaidValues, UserStated, Statuses

\* One model call stays inside the deadline.
LEMMA CallTime ==
  ASSUME IInv, MayCall
  PROVE  /\ timeout \in Nat /\ elapsed + timeout \in Nat /\ elapsed + timeout <= TurnDeadline
         /\ calls + 1 \in Nat
         /\ Called => elapsed' \in Nat /\ elapsed' <= TurnDeadline /\ calls' = calls + 1
BY BudgetAssumption DEF IInv, TypeOK, TurnInTime, MayCall, remaining, timeout, Called

\* A turn that fails keeps the conversation as it was.
LEMMA FailsStep ==
  ASSUME IInv, NEW status \in Statuses, NEW rewritten \in BOOLEAN, Fails(status, rewritten),
         calls' \in Nat, calls' <= MaxModelCalls,
         elapsed' \in Nat, elapsed' <= TurnDeadline,
         status = "withheld" /\ ~rewritten => MaxModelCalls = 1
  PROVE  IInv'
<1>1. TypeOK'
  BY DEF IInv, TypeOK, Fails, Ends, memory
<1>2. SourcesInv'
  BY DEF IInv, SourcesInv, SaidValues, UserStated, Fails, Ends, memory
<1>3. BudgetInv' /\ AnswersSupported' /\ RewriteReserved' /\ TurnInTime' /\ ToolsBounded'
  BY DEF IInv, BudgetInv, AnswersSupported, RewriteReserved, TurnInTime, ToolsBounded, Fails, Ends
<1> QED
  BY <1>1, <1>2, <1>3 DEF IInv

\* The calls the budget still allows where a call is made.
LEMMA CallsLeft ==
  ASSUME IInv, pc # "idle"
  PROVE  calls + 1 <= MaxModelCalls /\ (pc = "ask" /\ calls + 1 >= MaxModelCalls => MaxModelCalls = 1)
BY BudgetAssumption DEF IInv, TypeOK, BudgetInv, RewriteReserved

-----------------------------------------------------------------------------
(* One lemma per action. *)

LEMMA StartTurnStep == ASSUME IInv, StartTurn PROVE IInv'
<1>1. PICK values \in SUBSET Values, document \in {{}, DocumentClaims} :
        /\ numbers' = values /\ knowledge' = document
        /\ supplied' = supplied \cup document \cup UserStated(values)
  BY DEF StartTurn
<1>2. document \in SUBSET Claim /\ UserStated(values) \in SUBSET Claim
  BY ClaimsAssumption DEF UserStated, Claim, Kinds
<1>3. TypeOK'
  BY <1>1, <1>2 DEF IInv, TypeOK, StartTurn, memory, NoDraft, Draft, Statuses
<1>4. SourcesInv'
  <2>1. groundedClaims' \in Seq(supplied')
    BY <1>1 DEF IInv, SourcesInv, StartTurn, memory
  <2>2. SaidValues \subseteq SaidValues' /\ values \in SaidValues'
    BY <1>1 DEF SaidValues
  <2>3. said' \in Seq(SaidValues')
    BY <2>2 DEF IInv, SourcesInv, StartTurn, memory
  <2> QED
    BY <1>1, <2>1, <2>2, <2>3 DEF SourcesInv, StartTurn
<1>5. BudgetInv' /\ AnswersSupported' /\ RewriteReserved' /\ TurnInTime' /\ ToolsBounded'
  BY BudgetAssumption
  DEF BudgetInv, AnswersSupported, RewriteReserved, TurnInTime, ToolsBounded, StartTurn, NoDraft
<1> QED
  BY <1>3, <1>4, <1>5 DEF IInv

LEMMA DeadlinePassedStep == ASSUME IInv, DeadlinePassed PROVE IInv'
BY FailsStep DEF DeadlinePassed, IInv, TypeOK, RewriteReserved, TurnInTime, Statuses

LEMMA CallTimesOutStep == ASSUME IInv, CallTimesOut PROVE IInv'
BY FailsStep, CallTime, CallsLeft DEF CallTimesOut, Statuses

LEMMA CallFailsStep == ASSUME IInv, CallFails PROVE IInv'
<1>1. MayCall /\ Called /\ pc # "idle" /\ Fails("unavailable", pc = "rewrite")
  BY DEF CallFails, Called
<1> QED
  BY <1>1, FailsStep, CallTime, CallsLeft DEF Statuses

LEMMA EmptyDraftStep == ASSUME IInv, EmptyDraft PROVE IInv'
<1>1. MayCall /\ Called /\ pc # "idle"
  BY DEF EmptyDraft, Called
<1>2. CASE pc = "rewrite" /\ Fails("withheld", TRUE)
  BY <1>1, <1>2, FailsStep, CallTime, CallsLeft DEF Statuses
<1>3. CASE pc # "rewrite" /\ Fails("unavailable", FALSE)
  BY <1>1, <1>3, FailsStep, CallTime, CallsLeft DEF Statuses
<1> QED
  BY <1>2, <1>3 DEF EmptyDraft

LEMMA BadRewriteStep == ASSUME IInv, BadRewrite PROVE IInv'
<1>1. MayCall /\ Called /\ pc # "idle" /\ Fails("withheld", TRUE)
  BY DEF BadRewrite, Called
<1> QED
  BY <1>1, FailsStep, CallTime, CallsLeft DEF Statuses

LEMMA BadDraftStep == ASSUME IInv, BadDraft PROVE IInv'
<1>1. MayCall /\ Called /\ pc = "ask"
  BY DEF BadDraft, Called
<1>2. calls' = calls + 1 /\ calls' \in Nat /\ calls' <= MaxModelCalls /\ elapsed' \in Nat
      /\ elapsed' <= TurnDeadline /\ (calls' >= MaxModelCalls => MaxModelCalls = 1)
  BY <1>1, CallTime, CallsLeft
<1>3. CASE calls' >= MaxModelCalls
  <2>1. Fails("withheld", FALSE)
    BY <1>3 DEF BadDraft
  <2> QED
    BY <1>2, <1>3, <2>1, FailsStep DEF Statuses
<1>4. CASE ~(calls' >= MaxModelCalls)
  <2>1. /\ pc' = "rewrite" /\ UNCHANGED <<outcome, shown, supplied, toolClaims, rounds>>
        /\ UNCHANGED <<numbers, knowledge, said, groundedClaims>>
    BY <1>4 DEF BadDraft, input, memory
  <2>2. TypeOK' /\ SourcesInv'
    BY <1>2, <2>1 DEF IInv, TypeOK, SourcesInv, SaidValues, UserStated
  <2>3. BudgetInv'
    BY <1>2, <1>4, <2>1, BudgetAssumption DEF BudgetInv
  <2>4. AnswersSupported' /\ RewriteReserved' /\ TurnInTime' /\ ToolsBounded'
    BY <1>2, <2>1 DEF IInv, AnswersSupported, RewriteReserved, TurnInTime, ToolsBounded
  <2> QED
    BY <2>2, <2>3, <2>4 DEF IInv
<1> QED
  BY <1>3, <1>4

LEMMA RunToolsStep == ASSUME IInv, RunTools PROVE IInv'
<1>1. PICK known \in SUBSET (1 .. MaxToolCallsPerRound + 1), results \in SUBSET ToolClaims :
        /\ rounds' = rounds + Cardinality(Run(known))
        /\ toolClaims' = toolClaims \cup results
        /\ supplied' = supplied \cup results
  BY DEF RunTools
<1>2. /\ pc = "ask" /\ ~lastCall /\ MayCall /\ Called
      /\ UNCHANGED <<pc, outcome, shown, numbers, knowledge, said, groundedClaims>>
  BY DEF RunTools, Called, input, memory
<1>3. calls' = calls + 1 /\ calls' \in Nat /\ calls' <= MaxModelCalls /\ elapsed' \in Nat
      /\ elapsed' <= TurnDeadline
  BY <1>2, CallTime, CallsLeft
<1>4. results \in SUBSET Claim
  BY ClaimsAssumption
<1>5. PICK n \in 0 .. MaxToolCallsPerRound : rounds' = rounds + n
  BY <1>1, RunBound
<1>6. TypeOK'
  BY <1>1, <1>2, <1>3, <1>4, <1>5, BudgetAssumption DEF IInv, TypeOK
<1>7. SourcesInv'
  <2>1. groundedClaims' \in Seq(supplied')
    BY <1>1, <1>2 DEF IInv, SourcesInv
  <2>2. SaidValues \subseteq SaidValues'
    BY <1>1 DEF SaidValues
  <2>3. said' \in Seq(SaidValues')
    BY <1>2, <2>2 DEF IInv, SourcesInv
  <2> QED
    BY <1>1, <1>2, <2>1, <2>2, <2>3 DEF IInv, SourcesInv
<1>8. calls' <= MaxModelCalls - 2 /\ MaxModelCalls - 2 \in Nat /\ MaxModelCalls > 2 /\ calls \in Nat
  BY <1>2, <1>3, BudgetAssumption DEF lastCall, IInv, TypeOK
<1>9. rounds' <= MaxToolCallsPerRound * calls'
      /\ MaxToolCallsPerRound * calls' <= MaxToolCallsPerRound * (MaxModelCalls - 2)
  <2>1. rounds <= MaxToolCallsPerRound * calls /\ rounds \in Nat /\ MaxToolCallsPerRound \in Nat
    BY <1>2, BudgetAssumption DEF IInv, BudgetInv, TypeOK
  <2>2. MaxToolCallsPerRound * (calls + 1) = MaxToolCallsPerRound * calls + MaxToolCallsPerRound
        /\ MaxToolCallsPerRound * calls \in Nat
    BY <1>8, <2>1, TimesMonotone
  <2>3. MaxToolCallsPerRound * calls' <= MaxToolCallsPerRound * (MaxModelCalls - 2)
    BY <1>3, <1>8, <2>1, TimesMonotone
  <2>4. rounds' <= MaxToolCallsPerRound * calls + MaxToolCallsPerRound
    BY <1>5, <2>1, <2>2
  <2> QED
    BY <1>3, <2>2, <2>3, <2>4
<1>10. ToolsBounded'
  <2>1. rounds' \in Nat
    BY <1>6 DEF TypeOK
  <2>2. MaxToolCallsPerRound * calls' \in Nat /\ MaxToolCallsPerRound * (MaxModelCalls - 2) \in Nat
    BY <1>3, <1>8, TimesMonotone, BudgetAssumption
  <2> QED
    BY <1>8, <1>9, <2>1, <2>2 DEF ToolsBounded
<1>11. BudgetInv' /\ AnswersSupported' /\ RewriteReserved' /\ TurnInTime'
  BY <1>1, <1>2, <1>3, <1>8, <1>9
  DEF IInv, BudgetInv, AnswersSupported, RewriteReserved, TurnInTime
<1> QED
  BY <1>6, <1>7, <1>10, <1>11 DEF IInv

LEMMA GoodDraftStep == ASSUME IInv, GoodDraft PROVE IInv'
<1>1. PICK draft \in Drafts : Passes(draft, Sources) /\ Deliver(draft, pc = "rewrite")
  BY DEF GoodDraft
<1>2. MayCall /\ Called /\ pc # "idle"
  BY DEF GoodDraft, Called
<1>3. calls' = calls + 1 /\ calls' \in Nat /\ calls' <= MaxModelCalls /\ elapsed' \in Nat
      /\ elapsed' <= TurnDeadline
  BY <1>2, CallTime, CallsLeft
<1>4. /\ pc' = "idle" /\ numbers' = {} /\ knowledge' = {} /\ toolClaims' = {}
      /\ outcome' = [status |-> "ok", rewritten |-> (pc = "rewrite")]
      /\ shown' = draft /\ supplied' = supplied /\ rounds' = rounds
      /\ said' = Latest(HistoryTurns, Append(said, numbers))
  BY <1>1 DEF Deliver, Ends
<1>5. draft \in Draft /\ Sources \subseteq supplied /\ supplied \subseteq Claim
  BY ClaimsAssumption, SourcesSupplied DEF IInv, TypeOK
<1>6. said' \in Seq(SaidValues) /\ Len(said') <= HistoryTurns
  <2>1. Append(said, numbers) \in Seq(SaidValues)
    BY DEF IInv, SourcesInv
  <2> QED
    BY <1>4, <2>1, LatestType, BudgetAssumption
<1>7. groundedClaims' \in Seq(supplied) /\ Len(groundedClaims') <= MaxGroundedClaims
  <2> DEFINE used == claimsUsed(draft, Sources)
  <2>1. PICK claims \in BoundedSeq(used, Cardinality(used)) :
          /\ ToSet(claims) = used
          /\ groundedClaims' = Latest(MaxGroundedClaims, groundedClaims \o claims)
    BY <1>1 DEF Deliver
  <2>2. used \subseteq supplied
    BY <1>5 DEF claimsUsed
  <2> HIDE DEF used
  <2>3. claims \in Seq(supplied)
    <3>1. PICK m \in 0 .. Cardinality(used) : claims \in [1 .. m -> used]
      BY <2>1 DEF BoundedSeq, SeqOf
    <3> QED
      BY <2>2, <3>1
  <2>4. groundedClaims \o claims \in Seq(supplied)
    BY <2>3 DEF IInv, SourcesInv
  <2> QED
    BY <2>1, <2>4, LatestType, BudgetAssumption
<1>8. TypeOK'
  BY <1>3, <1>4, <1>5, <1>6, <1>7 DEF IInv, TypeOK, SaidValues, Statuses
<1>9. SourcesInv'
  BY <1>4, <1>6, <1>7 DEF SourcesInv, SaidValues, UserStated
<1>10. AnswersSupported'
  BY <1>1, <1>4, <1>5 DEF AnswersSupported, Passes
<1>11. BudgetInv' /\ RewriteReserved' /\ TurnInTime' /\ ToolsBounded'
  BY <1>3, <1>4 DEF IInv, BudgetInv, RewriteReserved, TurnInTime, ToolsBounded
<1> QED
  BY <1>8, <1>9, <1>10, <1>11 DEF IInv

-----------------------------------------------------------------------------
(* The theorems. *)

LEMMA StepIInv == IInv /\ [Next]_vars => IInv'
<1> SUFFICES ASSUME IInv, [Next]_vars PROVE IInv'
  OBVIOUS
<1>1. CASE UNCHANGED vars
  BY <1>1
  DEF vars, IInv, TypeOK, SourcesInv, SaidValues, BudgetInv, AnswersSupported, RewriteReserved,
      TurnInTime, ToolsBounded
<1>2. CASE Next
  BY <1>2, StartTurnStep, DeadlinePassedStep, CallTimesOutStep, CallFailsStep, RunToolsStep,
     GoodDraftStep, EmptyDraftStep, BadDraftStep, BadRewriteStep
  DEF Next, Proceed
<1> QED
  BY <1>1, <1>2

\* The inductive invariant of a conversation: budget, sources and answers.
THEOREM Invariant == Spec => []IInv
BY InitIInv, StepIInv, PTL DEF Spec

\* Every variable keeps its type and the remembered turns their caps.
THEOREM TypeCorrect == Spec => []TypeOK
<1>1. IInv => TypeOK
  BY DEF IInv
<1> QED
  BY <1>1, Invariant, PTL

\* No answer ever shows an amount, a description or an entitlement nothing supplied supports.
THEOREM Supported == Spec => []AnswersSupported
<1>1. IInv => AnswersSupported
  BY DEF IInv
<1> QED
  BY <1>1, Invariant, PTL

\* No amount changes its kind between turns.
THEOREM Kinds_Kept == Spec => []KindsKept
<1>1. IInv => KindsKept
  BY DEF IInv, SourcesInv, KindsKept, ToSet
<1> QED
  BY <1>1, Invariant, PTL

\* For every budget of at least one call: never more calls than allowed, and the reserve holds.
THEOREM Reserve == Spec => []RewriteReserved
<1>1. IInv => RewriteReserved
  BY DEF IInv
<1> QED
  BY <1>1, Invariant, PTL

\* The deadline of the turn, its reserve and the tool budget hold for every value of the limits.
THEOREM Limits == Spec => []BudgetKept
<1>1. IInv => BudgetKept
  BY DEF IInv, BudgetKept
<1> QED
  BY <1>1, Invariant, PTL

\* The turns implement the safety part of the advisor's promise.
THEOREM Implements == Spec => Promise!Safety
<1>1. Init => Promise!Init
  BY DEF Init, Promise!Init, NoDraft, Promise!NoDraft
<1>2. ASSUME IInv, [Next]_vars PROVE [Promise!Next]_(Promise!pvars)
  <2>1. CASE UNCHANGED vars
    BY <2>1 DEF vars, Promise!pvars
  <2>2. CASE StartTurn
    <3>1. StartTurn => pc' = "ask" /\ pc = "idle" /\ shown' = NoDraft /\ supplied \subseteq supplied'
      BY DEF StartTurn
    <3>2. IInv'
      BY <1>2, <2>2, StartTurnStep
    <3> QED
      BY <2>2, <3>1, <3>2
      DEF IInv, TypeOK, Promise!Next, Promise!Ask, Promise!Learns, NoDraft, Promise!NoDraft,
          Claim, Kinds, Promise!Claim, Promise!Kinds
  <2>3. ASSUME NEW status, NEW rewritten, Fails(status, rewritten), pc # "idle"
        PROVE  Promise!Next
    BY <2>3 DEF Fails, Ends, Promise!Next, Promise!GiveUp
  <2>4. CASE RunTools
    <3>1. RunTools => pc' = pc /\ pc # "idle" /\ shown' = shown /\ supplied \subseteq supplied'
      BY DEF RunTools
    <3>2. IInv'
      BY <1>2, <2>4, RunToolsStep
    <3> QED
      BY <2>4, <3>1, <3>2
      DEF IInv, TypeOK, Promise!Next, Promise!Learn, Promise!Learns, Claim, Kinds, Promise!Claim,
          Promise!Kinds
  <2>5. CASE GoodDraft
    <3>1. PICK draft \in Drafts : Passes(draft, Sources) /\ Deliver(draft, pc = "rewrite")
      BY <2>5 DEF GoodDraft
    <3>2. pc # "idle" /\ pc' = "idle" /\ shown' = draft /\ supplied' = supplied
      BY <2>5, <3>1 DEF GoodDraft, Deliver, Ends
    <3>3. Sources \subseteq supplied /\ draft \in Draft
      BY <1>2, SourcesSupplied, ClaimsAssumption
    <3>4. Promise!Honest(draft)
      BY <3>1, <3>3
      DEF Passes, Promise!Honest, Draft, Mention, Descriptions, Promise!Draft, Promise!Mention,
          Promise!Descriptions, Supports, Unsupported, Promise!Supports, Promise!Unsupported
    <3> QED
      BY <3>2, <3>4 DEF Promise!Next, Promise!Answer
  <2>6. CASE BadDraft
    <3>1. CASE calls' >= MaxModelCalls
      BY <2>3, <2>6, <3>1 DEF BadDraft
    <3>2. CASE ~(calls' >= MaxModelCalls)
      BY <2>6, <3>2 DEF BadDraft, Promise!pvars
    <3> QED
      BY <3>1, <3>2
  <2> QED
    BY <1>2, <2>1, <2>2, <2>3, <2>4, <2>5, <2>6
    DEF Next, Proceed, DeadlinePassed, CallTimesOut, CallFails, EmptyDraft, BadRewrite
<1> QED
  BY <1>1, <1>2, Invariant, PTL DEF Spec, Promise!Safety

=============================================================================
