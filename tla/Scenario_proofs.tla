---------------------------- MODULE Scenario_proofs ----------------------------
(***************************************************************************)
(* What the scenario keeps, for every set of values, documents and         *)
(* assumptions. First one field over a conversation                        *)
(* (ConversationScenario): the lemmas follow a turn, the check, the merge, *)
(* the patch. Then the whole scenario and the engine that prices it        *)
(* (ScenarioEngine, ScenarioDialogue): sums, the week in cells, the lines  *)
(* and their tax, a sound scenario as the engine's input, the variants of  *)
(* an uncertain one, the evaluation, the question to ask, the dialogue.    *)
(***************************************************************************)
EXTENDS ConversationScenario, ScenarioDialogue, FiniteSetTheorems, SequenceTheorems, WellFoundedInduction, TLAPS

(***************************************************************************)
(* One field of the scenario over a conversation                           *)
(***************************************************************************)
\* The three kinds of origin are told apart by their source.
LEMMA OriginKinds ==
  ASSUME NEW k
  PROVE  /\ \A o \in Origins(k) : o.source = "document" <=> o \in DocumentOrigins
         /\ \A o \in Origins(k) : o.source = "user" <=> o \in UserOrigins
         /\ \A o \in DocumentOrigins \cup {Says(v) : v \in Values} : o.value \in Values
         /\ \A o \in UserOrigins : o.value \in Values \cup {Span}
  BY DEF Origins, DocumentOrigins, UserOrigins, Printed, Says, Overrides, Assumed

\* A field of any kind takes values, and at most one assumption.
LEMMA KindFacts ==
  ASSUME NEW k
  PROVE  /\ Allowed(k) \subseteq Values
         /\ \A u, v \in CatalogueOf(k) : u = v
  BY AnswersAreValues, AtMostOneAssumed DEF Allowed, CatalogueOf

\* Only a document value or a plain statement can be part of a conflict.
LEMMA ConflictMembers ==
  ASSUME NEW k, NEW n, Node(n, k), IsConflict(n), NEW o \in n
  PROVE  o \in DocumentOrigins \cup {Says(v) : v \in Values}
  BY DEF Node, IsConflict

\* The values a node holds as the user's.
UserValues(n) == {o.value : o \in userCandidates(n)}

LEMMA UserValuesAre ==
  ASSUME NEW n, NEW o \in n, o.source = "user", o.value # Span
  PROVE  o.value \in UserValues(n)
<1>1. Says(o.value) \in userCandidates(n)
  BY DEF userCandidates
<1>2. Says(o.value).value = o.value
  BY DEF Says
<1> QED BY <1>1, <1>2 DEF UserValues

\* The merge keeps a node a node, adds only what the documents say as verified, and
\* nothing as the user's.
LEMMA Merge ==
  ASSUME NEW k, NEW n, Node(n, k), NEW F, Fact(F), findUnbackedVerifiedValues(n, F) = {}
  PROVE  LET m == mergeTrustedContext(n, F)
         IN  Node(m, k) /\ verified(m) \subseteq F /\ UserValues(m) \subseteq UserValues(n)
<1> DEFINE m == mergeTrustedContext(n, F)
<1> DEFINE S == {u \in userCandidates(n) : u.value \notin ValuesOf(F)}
<1>1. m = n \/ m = F \cup S
  BY DEF mergeTrustedContext
<1>2. CASE m = n
  BY <1>2 DEF findUnbackedVerifiedValues
<1>3. CASE m = F \cup S
  <2>1. S \subseteq {Says(v) : v \in Values}
    BY OriginKinds DEF Node, userCandidates, UserOrigins, Origins
  <2>2. F \subseteq DocumentOrigins
    BY DEF Fact
  <2>3. Node(m, k)
    BY <1>3, <2>1, <2>2 DEF Node, Origins, UserOrigins
  <2>4. verified(m) \subseteq F
    BY <1>3, <2>1 DEF verified, Says
  <2>5. \A o \in F : o.source # "user"
    BY <2>2 DEF DocumentOrigins, Printed
  <2>6. UserValues(m) \subseteq UserValues(n)
    BY <1>3, <2>5 DEF UserValues, userCandidates, Says
  <2> QED BY <2>3, <2>4, <2>6
<1> QED BY <1>1, <1>2, <1>3

\* An operation that is not refused keeps a node a node, adds no verified value, and
\* as a number of the user's only what the message states or what was the user's before.
LEMMA Patch ==
  ASSUME NEW k, NEW n, Node(n, k), NEW op \in Ops(n, k), NEW offered \in BOOLEAN, ~Refused(op, n, k, offered),
         NEW request \in Messages, NEW standing,
         Deterministic(op, k, request, standing) \/ guardModelPatch(op, k, request)
  PROVE  LET w == Written(op, n, k)
         IN  /\ Node(w, k)
             /\ verified(w) \subseteq verified(n)
             /\ k = "number" => UserValues(w) \subseteq UserValues(n) \cup request.states
<1> DEFINE w == Written(op, n, k)
<1>1. CASE op.op = "set"
  <2>1. /\ op.value \in Values
        /\ k = "number" => op.value \in request.states
    BY <1>1, KindFacts DEF Ops, Deterministic, guardModelPatch
  <2>2. w = n \/ w = verified(n) \cup {Says(op.value)}
    BY <1>1 DEF Written, SetValue
  <2>3. CASE w = n
    BY <2>3
  <2>4. CASE w = verified(n) \cup {Says(op.value)}
    <3>1. verified(n) \subseteq DocumentOrigins
      BY OriginKinds DEF Node, verified
    <3>2. Node(w, k)
      BY <2>1, <2>4, <3>1 DEF Node, Origins, UserOrigins
    <3>3. verified(w) \subseteq verified(n)
      BY <2>4 DEF verified, Says
    <3>4. UserValues(w) \subseteq {op.value}
      BY <2>4 DEF UserValues, userCandidates, verified, Says
    <3> QED BY <3>2, <3>3, <3>4, <2>1
  <2> QED BY <2>2, <2>3, <2>4
<1>2. CASE op.op = "set_conflict"
  <2>1. /\ w = {Says(v) : v \in op.values} /\ op.values \subseteq Values
        /\ k = "number" => op.values \subseteq request.states
    BY <1>2, KindFacts DEF Ops, Deterministic, guardModelPatch, Written
  <2>2. Node(w, k)
    BY <2>1 DEF Node, Origins, UserOrigins
  <2>3. verified(w) = {}
    BY <2>1 DEF verified, Says
  <2>4. UserValues(w) \subseteq op.values
    BY <2>1 DEF UserValues, userCandidates, Says
  <2> QED BY <2>1, <2>2, <2>3, <2>4
<1>3. CASE op.op = "set_range"
  <2>1. w = {Says(Span)}
    BY <1>3 DEF Written
  <2>2. verified(w) = {} /\ UserValues(w) = {}
    BY <2>1 DEF verified, UserValues, userCandidates, Says
  <2>3. Node(w, k)
    BY <2>1 DEF Node, Origins, UserOrigins, Says
  <2> QED BY <2>2, <2>3
<1>4. CASE op.op \in {"set_unknown", "remove"}
  <2>1. w = {}
    BY <1>4 DEF Written
  <2> QED BY <2>1 DEF Node, verified, UserValues, userCandidates
<1>5. CASE op.op = "accept_assumption"
  <2>1. w = {Assumed(v) : v \in CatalogueOf(k)}
    BY <1>5 DEF Written
  <2>2. \A u, v \in CatalogueOf(k) : u = v
    BY KindFacts
  <2>3. Node(w, k) /\ verified(w) = {} /\ UserValues(w) = {}
    BY <2>1, <2>2 DEF Node, Origins, verified, UserValues, userCandidates, Assumed
  <2> QED BY <2>3
<1>6. CASE op.op = "resolve_conflict"
  <2>1. op.pick \in n /\ IsConflict(n) /\ w = Resolved(op.pick, n)
    BY <1>6 DEF Ops, Refused, Written
  <2>2. op.pick \in DocumentOrigins \cup {Says(v) : v \in Values}
    BY <2>1, ConflictMembers
  <2>3. CASE op.pick.source = "document"
    <3>1. w = {op.pick}
      BY <2>1, <2>3 DEF Resolved
    <3> QED BY <2>1, <2>3, <3>1 DEF Node, verified, UserValues, userCandidates
  <2>4. CASE op.pick.source # "document"
    <3>1. op.pick.source = "user" /\ op.pick.value \in Values /\ op.pick.value # Span
      BY <2>2, <2>4, MarksAreDistinct DEF DocumentOrigins, Printed, Says
    <3>2. w = {Overrides(op.pick.value)} \/ w = {Says(op.pick.value)}
      BY <2>1, <2>4 DEF Resolved
    <3>3. Node(w, k) /\ verified(w) = {}
      BY <3>1, <3>2 DEF Node, Origins, UserOrigins, verified, Overrides, Says
    <3>4. UserValues(w) \subseteq {op.pick.value}
      BY <3>2 DEF UserValues, userCandidates, Overrides, Says
    <3>5. op.pick.value \in UserValues(n)
      BY <2>1, <3>1, UserValuesAre
    <3> QED BY <3>3, <3>4, <3>5
  <2> QED BY <2>3, <2>4
<1> QED BY <1>1, <1>2, <1>3, <1>4, <1>5, <1>6 DEF Ops

-----------------------------------------------------------------------------
(* A whole turn.                                                           *)

\* What an operation of a turn is: not refused, and read from the message or let through.
Applied(op, n, k, request) ==
  /\ op \in Ops(n, k)
  /\ \E standing : /\ ~Refused(op, n, k, standing = "offer_assumption")
                   /\ Deterministic(op, k, request, standing) \/ guardModelPatch(op, k, request)

Names == {"none", "set", "set_conflict", "set_range", "set_unknown", "remove",
          "accept_assumption", "resolve_conflict"}

\* A turn is refused for an unbacked or forged value, or it leaves the merged node,
\* or it writes one operation on the merged node.
LEMMA TurnResult ==
  ASSUME NEW k, NEW n, NEW F, NEW request, NEW r \in runConversationTurn(n, k, F, request)
  PROVE  LET m == mergeTrustedContext(n, F)
             clean == findUnbackedVerifiedValues(n, F) = {} /\ findForgedAssumptions(n, k) = {}
         IN  /\ r.op.op \in Names
             /\ r.status \in {"updated", "unchanged"} /\ r.op.op # "none" => Applied(r.op, m, k, request)
             /\ \/ ~clean /\ r.status = "refused" /\ r.node = n
                \/ clean /\ r.status \in {"rejected", "unchanged"} /\ r.node = m
                \/ /\ clean /\ r.status = "updated"
                   /\ Applied(r.op, m, k, request) /\ r.node = Written(r.op, m, k)
<1> DEFINE m == mergeTrustedContext(n, F)
           clean == findUnbackedVerifiedValues(n, F) = {} /\ findForgedAssumptions(n, k) = {}
<1>1. CASE ~clean
  <2>1. r = Result("refused", NoOp, n)
    BY <1>1 DEF runConversationTurn
  <2> QED BY <1>1, <2>1 DEF Result, NoOp, Names
<1>2. CASE clean
  <2>1. PICK q \in Questions(m, k) : r \in Interpreted(m, k, request, q)
    BY <1>2 DEF runConversationTurn
  <2>2. \/ r = Result("unchanged", NoOp, m)
        \/ \E op \in Ops(m, k) : /\ Deterministic(op, k, request, q) \/ guardModelPatch(op, k, request)
                              /\ r \in applyScenarioPatch(op, m, k, q = "offer_assumption")
    BY <2>1 DEF Interpreted
  <2>3. CASE r = Result("unchanged", NoOp, m)
    BY <1>2, <2>3 DEF Result, NoOp, Names
  <2>4. ASSUME NEW op \in Ops(m, k), Deterministic(op, k, request, q) \/ guardModelPatch(op, k, request),
               r \in applyScenarioPatch(op, m, k, q = "offer_assumption")
        PROVE  /\ r.op.op \in Names
               /\ \/ r.status = "rejected" /\ r.node = m
                  \/ r.status = "unchanged" /\ Applied(r.op, m, k, request) /\ r.node = m
                  \/ /\ r.status = "updated" /\ Applied(r.op, m, k, request)
                     /\ r.node = Written(r.op, m, k)
    <3>1. op.op \in Names
      BY DEF Ops, Names
    <3>2. \/ r = Result("rejected", op, m)
          \/ /\ ~Refused(op, m, k, q = "offer_assumption")
             /\ r = Result("updated", op, Written(op, m, k)) \/ r = Result("unchanged", op, m)
      BY <2>4 DEF applyScenarioPatch
    <3>3. CASE r = Result("rejected", op, m)
      BY <3>1, <3>3 DEF Result
    <3>4. CASE /\ ~Refused(op, m, k, q = "offer_assumption")
               /\ r = Result("updated", op, Written(op, m, k)) \/ r = Result("unchanged", op, m)
      <4>1. Applied(op, m, k, request)
        BY <2>4, <3>4 DEF Applied
      <4>2. /\ r.op = op
            /\ \/ r.status = "updated" /\ r.node = Written(op, m, k)
               \/ r.status = "unchanged" /\ r.node = m
        BY <3>4 DEF Result
      <4> QED BY <3>1, <4>1, <4>2
    <3> QED BY <3>2, <3>3, <3>4
  <2> QED BY <1>2, <2>2, <2>3, <2>4
<1> QED BY <1>1, <1>2

\* The patch lemma for an operation of a turn.
LEMMA AppliedPatch ==
  ASSUME NEW k, NEW n, Node(n, k), NEW request \in Messages, NEW op, Applied(op, n, k, request)
  PROVE  LET w == Written(op, n, k)
         IN  /\ Node(w, k)
             /\ verified(w) \subseteq verified(n)
             /\ k = "number" => UserValues(w) \subseteq UserValues(n) \cup request.states
<1>1. PICK standing : /\ ~Refused(op, n, k, standing = "offer_assumption")
                      /\ Deterministic(op, k, request, standing) \/ guardModelPatch(op, k, request)
  BY DEF Applied
<1>2. (standing = "offer_assumption") \in BOOLEAN
  OBVIOUS
<1>3. op \in Ops(n, k)
  BY DEF Applied
<1> QED BY <1>1, <1>2, <1>3, Patch

\* A choice in a conflict with a document is a document value or a marked one.
LEMMA ChoiceShape ==
  ASSUME NEW k, NEW n, Node(n, k), NEW request, NEW op, Applied(op, n, k, request),
         op.op = "resolve_conflict", verified(n) # {}
  PROVE  \/ \E v \in Values : Written(op, n, k) = {Overrides(v)}
         \/ \E d \in DocumentOrigins : Written(op, n, k) = {d}
<1>1. op \in Ops(n, k) /\ \E offered : ~Refused(op, n, k, offered)
  BY DEF Applied
<1>2. op.pick \in n /\ IsConflict(n) /\ Written(op, n, k) = Resolved(op.pick, n)
  BY <1>1 DEF Ops, Refused, Written
<1>3. op.pick \in DocumentOrigins \cup {Says(v) : v \in Values}
  BY <1>2, ConflictMembers
<1>4. CASE op.pick \in DocumentOrigins
  BY <1>2, <1>4 DEF Resolved, DocumentOrigins, Printed
<1>5. CASE op.pick \in {Says(v) : v \in Values}
  BY <1>2, <1>5 DEF Resolved, Says
<1> QED BY <1>3, <1>4, <1>5
-----------------------------------------------------------------------------
(* The inductive invariant.                                                *)

LEMMA InitIInv ==
  ASSUME Init
  PROVE  IInv
<1>1. Fact(facts) /\ Fact({}) /\ Node({}, kind)
  BY DEF Init, Facts, Fact, Node
<1>2. TypeOK
  BY <1>1 DEF Init, TypeOK, NoTurn
<1>3. verified({}) = {} /\ userCandidates({}) = {}
  BY DEF verified, userCandidates
<1> QED BY <1>2, <1>3 DEF Init, IInv, VerifiedIsTrusted, UserValuesWereStated, DecisionStands, PickedInv

\* The invariant on the user's values, as a set.
LEMMA UserValuesStated ==
  UserValuesWereStated <=> (kind = "number" => UserValues(node) \subseteq stated)
  BY DEF UserValuesWereStated, UserValues

LEMMA UserValuesStatedNext ==
  UserValuesWereStated' <=> (kind' = "number" => UserValues(node') \subseteq stated')
  BY DEF UserValuesWereStated, UserValues

\* The merge leaves a chosen value as it stands.
LEMMA MergeKeepsChoice ==
  ASSUME NEW n, n # {}, NEW F, findUnbackedVerifiedValues(n, F) = {},
         \/ \E v \in Values : n = {Overrides(v)}
         \/ \E d \in DocumentOrigins : n = {d}
  PROVE  mergeTrustedContext(n, F) = n
<1>1. CASE \E v \in Values : n = {Overrides(v)}
  BY <1>1 DEF mergeTrustedContext
<1>2. CASE \E d \in DocumentOrigins : n = {d}
  <2>1. PICK d \in DocumentOrigins : n = {d}
    BY <1>2
  <2>2. d \in verified(n)
    BY <2>1 DEF verified, DocumentOrigins, Printed
  <2>3. d \in F
    BY <2>2 DEF findUnbackedVerifiedValues
  <2>4. n \cap F # {}
    BY <2>1, <2>3
  <2> QED BY <2>4 DEF mergeTrustedContext
<1> QED BY <1>1, <1>2

LEMMA TurnKeeps ==
  ASSUME IInv, NEW request \in Messages, Turn(request)
  PROVE  IInv'
<1> DEFINE m == mergeTrustedContext(node, facts)
<1>1. PICK r \in runConversationTurn(node, kind, facts, request) :
        /\ node' = r.node
        /\ backing' = IF r.status = "refused" THEN backing ELSE facts
        /\ stated' = stated \cup request.states
        /\ last' = [status |-> r.status, op |-> r.op.op]
        /\ picked' = CASE r.status # "updated" -> picked
                       [] r.status = "updated" ->
                            IF r.op.op = "resolve_conflict" /\ verified(m) # {}
                            THEN r.node ELSE {}
        /\ UNCHANGED <<kind, facts>>
  BY DEF Turn
<1>2. kind \in FieldKinds /\ Node(node, kind) /\ Node(picked, kind) /\ Fact(facts) /\ Fact(backing)
      /\ stated \subseteq Values
  BY DEF IInv, TypeOK
<1>3. r.op.op \in Names
  BY TurnResult
<1>4. request.states \subseteq Values
  BY DEF Messages
<1>5. kind = "number" => UserValues(node) \subseteq stated
  BY UserValuesStated DEF IInv
<1>6. verified(node) \subseteq backing
  BY DEF IInv, VerifiedIsTrusted
<1>7. stated' \subseteq Values /\ Fact(facts') /\ Fact(backing')
  BY <1>1, <1>2, <1>4
<1>8. ASSUME r.status \in {"refused", "rejected", "unchanged", "updated"}
      PROVE  last' \in Turns
  BY <1>1, <1>3, <1>8 DEF Turns, Names
<1>9. CASE r.status = "refused" /\ r.node = node
  <2>1. kind' = kind /\ node' = node /\ backing' = backing /\ picked' = picked
    BY <1>1, <1>9
  <2>2. TypeOK'
    BY <2>1, <1>2, <1>7, <1>8, <1>9 DEF TypeOK
  <2>3. UserValuesWereStated'
    BY <2>1, <1>1, <1>5, UserValuesStatedNext
  <2> QED BY <2>1, <2>2, <2>3 DEF IInv, VerifiedIsTrusted, DecisionStands, PickedInv
<1>10. ASSUME findUnbackedVerifiedValues(node, facts) = {}
       PROVE  /\ Node(m, kind) /\ verified(m) \subseteq facts
              /\ kind = "number" => UserValues(m) \subseteq stated
  BY <1>10, <1>2, <1>5, Merge
<1>11. CASE /\ findUnbackedVerifiedValues(node, facts) = {}
            /\ r.status \in {"rejected", "unchanged"} /\ r.node = m
  <2>1. kind' = kind /\ node' = m /\ backing' = facts /\ picked' = picked
    BY <1>1, <1>11
  <2>2. TypeOK'
    BY <2>1, <1>2, <1>7, <1>8, <1>10, <1>11 DEF TypeOK
  <2>3. VerifiedIsTrusted'
    BY <2>1, <1>10, <1>11 DEF VerifiedIsTrusted
  <2>4. UserValuesWereStated'
    BY <2>1, <1>1, <1>10, <1>11, UserValuesStatedNext
  <2>5. PickedInv'
    BY <2>1 DEF IInv, PickedInv
  <2>6. DecisionStands'
    BY <2>1, <1>11, MergeKeepsChoice DEF IInv, DecisionStands, PickedInv
  <2> QED BY <2>2, <2>3, <2>4, <2>5, <2>6 DEF IInv
<1>12. CASE /\ findUnbackedVerifiedValues(node, facts) = {}
            /\ r.status = "updated"
            /\ Applied(r.op, m, kind, request) /\ r.node = Written(r.op, m, kind)
  <2>1. kind' = kind /\ node' = Written(r.op, m, kind) /\ backing' = facts
    BY <1>1, <1>12
  <2>3. picked' = IF r.op.op = "resolve_conflict" /\ verified(m) # {} THEN node' ELSE {}
    BY <1>1, <1>12
  <2>4. /\ Node(m, kind) /\ verified(m) \subseteq facts
        /\ kind = "number" => UserValues(m) \subseteq stated
    BY <1>10, <1>12
  <2>5. /\ Node(node', kind)
        /\ verified(node') \subseteq verified(m)
        /\ kind = "number" => UserValues(node') \subseteq UserValues(m) \cup request.states
    BY <1>12, <2>1, <2>4, AppliedPatch
  <2>7. Node(picked', kind)
    BY <2>3, <2>5 DEF Node
  <2>8. TypeOK'
    BY <1>2, <2>1, <2>5, <2>7, <1>7, <1>8, <1>12 DEF TypeOK
  <2>9. VerifiedIsTrusted'
    BY <2>1, <2>4, <2>5 DEF VerifiedIsTrusted
  <2>10. UserValuesWereStated'
    BY <1>1, <2>4, <2>5, UserValuesStatedNext
  <2>11. DecisionStands'
    BY <2>3 DEF DecisionStands
  <2>12. PickedInv'
    BY <1>12, <2>1, <2>3, <2>4, ChoiceShape DEF PickedInv
  <2> QED BY <2>8, <2>9, <2>10, <2>11, <2>12 DEF IInv
<1> QED BY <1>9, <1>11, <1>12, TurnResult

LEMMA ContextLostKeeps ==
  ASSUME IInv, ContextLost
  PROVE  IInv'
<1>1. /\ facts' = {} /\ node' = node \ verified(node) /\ picked' = picked \ verified(picked)
      /\ last' = NoTurn /\ UNCHANGED <<kind, backing, stated>>
  BY DEF ContextLost, withoutDocumentValues
<1>2. TypeOK'
  BY <1>1 DEF IInv, TypeOK, Node, Fact
<1>3. VerifiedIsTrusted'
  BY <1>1 DEF VerifiedIsTrusted, verified
<1>4. UserValuesWereStated'
  BY <1>1 DEF IInv, UserValuesWereStated, userCandidates
<1>5. DecisionStands'
  BY <1>1 DEF IInv, DecisionStands
<1>6. picked' # {} => picked' = picked
  BY <1>1 DEF IInv, PickedInv
<1>7. PickedInv'
  BY <1>6 DEF IInv, PickedInv
<1> QED BY <1>2, <1>3, <1>4, <1>5, <1>7 DEF IInv

LEMMA ResolveKeeps ==
  ASSUME IInv, NEW F \in Facts(kind), Resolve(F)
  PROVE  IInv'
<1>1. Fact(F)
  BY DEF Facts
<1> QED BY <1>1 DEF Resolve, IInv, TypeOK, VerifiedIsTrusted, UserValuesWereStated,
           DecisionStands, PickedInv

LEMMA NextIInv ==
  ASSUME IInv, [Next]_vars
  PROVE  IInv'
<1>1. CASE \E m \in Messages : Turn(m)
  BY <1>1, TurnKeeps
<1>2. CASE \E F \in Facts(kind) : Resolve(F)
  BY <1>2, ResolveKeeps
<1>3. CASE ContextLost
  BY <1>3, ContextLostKeeps
<1>4. CASE UNCHANGED vars
  BY <1>4 DEF vars, IInv, TypeOK, VerifiedIsTrusted, UserValuesWereStated, DecisionStands, PickedInv
<1> QED BY <1>1, <1>2, <1>3, <1>4 DEF Next

\* The conjunction the four theorems below take their property from.
THEOREM Inductive == Spec => []IInv
<1>1. Init => IInv
  BY InitIInv
<1>2. IInv /\ [Next]_vars => IInv'
  BY NextIInv
<1> QED BY <1>1, <1>2, PTL DEF Spec

\* The field is always a node with the origins the server can write.
THEOREM TypeCorrect == Spec => []TypeOK
<1>1. IInv => TypeOK
  BY DEF IInv
<1> QED BY <1>1, Inductive, PTL

\* A verified value is one the documents of an accepted turn printed.
THEOREM Trusted == Spec => []VerifiedIsTrusted
<1>1. IInv => VerifiedIsTrusted
  BY DEF IInv
<1> QED BY <1>1, Inductive, PTL

\* A number held as the user's was stated by the user in some message.
THEOREM OnlyStated == Spec => []UserValuesWereStated
<1>1. IInv => UserValuesWereStated
  BY DEF IInv
<1> QED BY <1>1, Inductive, PTL

\* A choice made in a conflict with a document is never raised again by a merge.
THEOREM Decided == Spec => []DecisionStands
<1>1. IInv => DecisionStands
  BY DEF IInv
<1> QED BY <1>1, Inductive, PTL
-----------------------------------------------------------------------------
(* What a turn may never do.                                               *)

\* A node the server wrote holds no assumption that is not Loonto's own.
LEMMA NothingForged ==
  ASSUME NEW k, NEW n, Node(n, k)
  PROVE  findForgedAssumptions(n, k) = {}
<1>1. SUFFICES ASSUME NEW o \in n, o.source = "assumption"
               PROVE  ~IsConflict(n) /\ o.value \in CatalogueOf(k) /\ o.ref = NoRef
  BY DEF findForgedAssumptions
<1>2. o \in Origins(k)
  BY DEF Node
<1>3. PICK v \in CatalogueOf(k) : o = Assumed(v)
  BY <1>1, <1>2 DEF Origins, UserOrigins, DocumentOrigins, Says, Overrides, Printed
<1>4. o \notin DocumentOrigins \cup {Says(v0) : v0 \in Values}
  BY <1>1 DEF DocumentOrigins, Printed, Says
<1> QED BY <1>3, <1>4, ConflictMembers DEF Assumed

\* The merge drops no verified value and no value of the user.
LEMMA MergeDropsNothing ==
  ASSUME NEW n, NEW F, findUnbackedVerifiedValues(n, F) = {}
  PROVE  LET m == mergeTrustedContext(n, F)
         IN  /\ verified(n) \subseteq verified(m)
             /\ \A o \in userCandidates(n) : o.value \in ValuesOf(m)
<1> DEFINE m == mergeTrustedContext(n, F)
           S == {u \in userCandidates(n) : u.value \notin ValuesOf(F)}
<1>1. m = n \/ m = F \cup S
  BY DEF mergeTrustedContext
<1>2. verified(n) \subseteq F
  BY DEF findUnbackedVerifiedValues
<1>3. verified(n) \subseteq verified(m)
  BY <1>1, <1>2 DEF verified
<1>4. ASSUME NEW o \in userCandidates(n)
      PROVE  o.value \in ValuesOf(m)
  <2>1. PICK u \in n : o = Says(u.value)
    BY <1>4 DEF userCandidates
  <2>2. o.value = u.value
    BY <2>1 DEF Says
  <2>3. CASE m = n
    BY <2>2, <2>3 DEF ValuesOf
  <2>4. CASE m = F \cup S
    <3>1. CASE o.value \in ValuesOf(F)
      BY <2>4, <3>1 DEF ValuesOf
    <3>2. CASE o \in S
      BY <2>4, <3>2 DEF ValuesOf
    <3> QED BY <3>1, <3>2
  <2> QED BY <1>1, <2>3, <2>4
<1> QED BY <1>3, <1>4

\* Only a choice writes over a verified value.
LEMMA PatchKeepsVerified ==
  ASSUME NEW k, NEW n, NEW request, NEW op, Applied(op, n, k, request), op.op # "resolve_conflict"
  PROVE  verified(n) \subseteq Written(op, n, k)
<1>1. op \in Ops(n, k) /\ \E offered : ~Refused(op, n, k, offered)
  BY DEF Applied
<1>2. CASE op.op = "set"
  <2>1. Written(op, n, k) = n \/ Written(op, n, k) = verified(n) \cup {Says(op.value)}
    BY <1>2 DEF Written, SetValue
  <2> QED BY <2>1 DEF verified
<1>3. CASE op.op \in {"set_range", "set_conflict", "set_unknown", "remove"}
  BY <1>1, <1>3 DEF Refused
<1>4. CASE op.op = "accept_assumption"
  BY <1>1, <1>4 DEF Refused, verified
<1> QED BY <1>1, <1>2, <1>3, <1>4 DEF Ops

LEMMA TurnPromises ==
  ASSUME IInv, NEW request \in Messages, Turn(request)
  PROVE  /\ last'.status # "updated"
              => \A o \in userCandidates(node) : o.value \in ValuesOf(node')
         /\ ~(verified(node) \subseteq node') => last'.op = "resolve_conflict"
         /\ facts = backing => last'.status # "refused"
<1> DEFINE m == mergeTrustedContext(node, facts)
<1>1. PICK r \in runConversationTurn(node, kind, facts, request) :
        /\ node' = r.node
        /\ last' = [status |-> r.status, op |-> r.op.op]
  BY DEF Turn
<1>2. last'.status = r.status /\ last'.op = r.op.op
  BY <1>1
<1>3. CASE r.status = "refused" /\ r.node = node
           /\ ~(findUnbackedVerifiedValues(node, facts) = {} /\ findForgedAssumptions(node, kind) = {})
  <2>1. node' = node
    BY <1>1, <1>3
  <2>2. facts # backing
    BY <1>3, NothingForged
      DEF IInv, TypeOK, VerifiedIsTrusted, findUnbackedVerifiedValues
  <2>3. \A o \in userCandidates(node) : o.value \in ValuesOf(node)
    BY DEF userCandidates, ValuesOf, Says
  <2> QED BY <2>1, <2>2, <2>3 DEF verified
<1>4. CASE /\ findUnbackedVerifiedValues(node, facts) = {}
           /\ r.status \in {"rejected", "unchanged"} /\ r.node = m
  <2>1. node' = m
    BY <1>1, <1>4
  <2> QED BY <1>2, <1>4, <2>1, MergeDropsNothing DEF verified
<1>5. CASE /\ findUnbackedVerifiedValues(node, facts) = {}
           /\ r.status = "updated"
           /\ Applied(r.op, m, kind, request) /\ r.node = Written(r.op, m, kind)
  <2>1. verified(node) \subseteq verified(m)
    BY <1>5, MergeDropsNothing
  <2>2. r.op.op = "resolve_conflict" \/ verified(m) \subseteq node'
    BY <1>1, <1>5, PatchKeepsVerified
  <2> QED BY <1>2, <1>5, <2>1, <2>2
<1> QED BY <1>3, <1>4, <1>5, TurnResult

\* A step that is no turn is not constrained.
LEMMA StepPromises ==
  ASSUME IInv, [Next]_vars
  PROVE  \/ UNCHANGED vars
         \/ last' = NoTurn
         \/ \E request \in Messages : Turn(request)
  BY DEF Next, Resolve, ContextLost

\* A turn that changes nothing loses nothing the user stated, whatever the merge adds.
THEOREM Survives == Spec => StatementSurvivesTurn
<1>1. IInv /\ [Next]_vars
        => [last' # NoTurn /\ last'.status # "updated"
              => \A o \in userCandidates(node) : o.value \in ValuesOf(node')]_vars
  BY TurnPromises, StepPromises
<1> QED BY <1>1, Inductive, PTL DEF Spec, StatementSurvivesTurn

\* A document's value leaves the field in a turn only by a choice in a conflict.
THEOREM ErasedByChoice == Spec => DocumentErasedByChoice
<1>1. IInv /\ [Next]_vars
        => [last' # NoTurn /\ ~(verified(node) \subseteq node') => last'.op = "resolve_conflict"]_vars
  BY TurnPromises, StepPromises
<1> QED BY <1>1, Inductive, PTL DEF Spec, DocumentErasedByChoice

\* The scenario a turn answered with is accepted by the next one under the same documents.
THEOREM EchoIsAccepted == Spec => EchoAccepted
<1>1. IInv /\ [Next]_vars
        => [last' # NoTurn /\ facts = backing => last'.status # "refused"]_vars
  BY TurnPromises, StepPromises
<1> QED BY <1>1, Inductive, PTL DEF Spec, EchoAccepted

\* A set of numbers with an element has a least one.
LEMMA NatMin ==
  ASSUME NEW T \in SUBSET Nat, NEW x \in T
  PROVE  \E m \in T : \A y \in T : m <= y
<1>1. PICK R : R = OpToRel(<, Nat)
  OBVIOUS
<1>2. \A a, b \in Nat : <<a, b>> \in R <=> a < b
  BY <1>1 DEF OpToRel
<1>3. IsWellFoundedOn(R, Nat)
  BY <1>1, NatLessThanWellFounded
<1>4. PICK m \in T : \A y \in T : ~(<<y, m>> \in R)
  BY <1>3, WFMin
<1>5. \A y \in T : y \in Nat
  OBVIOUS
<1>6. \A y \in T : m <= y
  <2> TAKE y \in T
  <2>1. y \in Nat /\ m \in Nat
    BY <1>5
  <2>2. ~(y < m)
    BY <1>2, <1>4, <2>1, Zenon
  <2> QED
    BY <2>1, <2>2
<1> QED
  BY <1>6

\* c takes an element of every subset.
Takes(c, S) == \A s \in (SUBSET S) \ {{}} : c[s] \in s

\* ... and leaves the rest.
Rest(s, c) == s \ {c[s]}

\* g folds h over the subsets of S in the order c takes them.
Folds(g, S, base, h, c) == \A s \in SUBSET S : g[s] = IF s = {} THEN base ELSE h[c[s]][g[Rest(s, c)]]

\* A subset of a finite set is finite and no larger.
LEMMA Subcard ==
  ASSUME NEW S, IsFiniteSet(S), NEW s \in SUBSET S
  PROVE  IsFiniteSet(s) /\ Cardinality(s) \in Nat /\ Cardinality(s) <= Cardinality(S) /\ (Cardinality(s) = 0 <=> s = {})
BY FS_Subset, FS_CardinalityType, FS_EmptySet

\* Taking one element away leaves one fewer.
LEMMA OneLess ==
  ASSUME NEW S, IsFiniteSet(S), NEW s \in SUBSET S, NEW c, Takes(c, S), s # {}
  PROVE  Rest(s, c) \in SUBSET S /\ Cardinality(Rest(s, c)) \in Nat /\ Cardinality(s) = Cardinality(Rest(s, c)) + 1
<1>1. PICK x \in s : x = c[s]
  BY DEF Takes
<1>2. IsFiniteSet(s) /\ Cardinality(s) \in Nat
  BY Subcard
<1>3. PICK t : t = s \ {x}
  OBVIOUS
<1>4. Rest(s, c) = t
  BY <1>1, <1>3 DEF Rest
<1>5. Cardinality(t) = Cardinality(s) - 1
  BY <1>2, <1>3, FS_RemoveElement
<1>6. t \in SUBSET S
  BY <1>3
<1>7. Cardinality(t) \in Nat
  BY <1>6, Subcard
<1> QED
  BY <1>2, <1>4, <1>5, <1>6, <1>7

\* A fold exists.
LEMMA FoldExists ==
  ASSUME NEW S, IsFiniteSet(S), NEW T, NEW base \in T, NEW h \in [S -> [T -> T]], NEW c, Takes(c, S)
  PROVE  \E g \in [SUBSET S -> T] : Folds(g, S, base, h, c)
<1> DEFINE Unfolds(g, s) == g[s] = IF s = {} THEN base ELSE h[c[s]][g[Rest(s, c)]]
           Upto(k) == \E g \in [SUBSET S -> T] : \A s \in SUBSET S : Cardinality(s) <= k => Unfolds(g, s)
           later == {k \in Nat : ~Upto(k)}
<1>2. Upto(0)
  <2>1. PICK g \in [SUBSET S -> T] : g = [s \in SUBSET S |-> base]
    OBVIOUS
  <2>2. ASSUME NEW s \in SUBSET S, Cardinality(s) <= 0
        PROVE  Unfolds(g, s)
    <3>1. s = {}
      BY <2>2, Subcard
    <3> QED
      BY <2>1, <3>1
  <2> QED
    BY <2>2
<1>3. ASSUME NEW k \in Nat, Upto(k)
      PROVE  Upto(k + 1)
  <2>1. PICK g \in [SUBSET S -> T] : \A s \in SUBSET S : Cardinality(s) <= k => Unfolds(g, s)
    BY <1>3
  <2>2. PICK f : f = [s \in SUBSET S |-> IF s = {} THEN base ELSE h[c[s]][g[Rest(s, c)]]]
    OBVIOUS
  <2>3. f \in [SUBSET S -> T]
    <3>1. ASSUME NEW s \in SUBSET S, s # {}
          PROVE  h[c[s]][g[Rest(s, c)]] \in T
      <4>1. c[s] \in S
        BY <3>1 DEF Takes
      <4>2. g[Rest(s, c)] \in T
        BY DEF Rest
      <4> QED
        BY <4>1, <4>2
    <3> QED
      BY <2>2, <3>1
  <2>4. \A s \in SUBSET S : Cardinality(s) <= k => f[s] = g[s]
    BY <2>1, <2>2
  <2>5. ASSUME NEW s \in SUBSET S, Cardinality(s) <= k + 1
        PROVE  Unfolds(f, s)
    <3>1. CASE s = {}
      BY <2>2, <3>1
    <3>2. CASE s # {}
      <4>1. PICK t : t = Rest(s, c)
        OBVIOUS
      <4>2. t \in SUBSET S /\ Cardinality(t) \in Nat /\ Cardinality(s) = Cardinality(t) + 1
        BY <3>2, <4>1, OneLess
      <4>3. Cardinality(t) <= k
        BY <2>5, <4>2
      <4>4. f[t] = g[t]
        BY <2>4, <4>2, <4>3
      <4>5. f[s] = h[c[s]][g[t]]
        BY <2>2, <3>2, <4>1
      <4> QED
        BY <3>2, <4>1, <4>4, <4>5
    <3> QED
      BY <3>1, <3>2
  <2> QED
    BY <2>3, <2>5
<1> HIDE DEF Upto
<1>4. \A k \in Nat : Upto(k)
  <2> SUFFICES ASSUME NEW k \in Nat, ~Upto(k)
               PROVE  FALSE
    OBVIOUS
  <2>1. PICK m \in later : \A y \in later : m <= y
    BY NatMin
  <2>2. m # 0 /\ m \in Nat /\ ~Upto(m)
    BY <1>2, <2>1
  <2>3. m - 1 \in Nat /\ (m - 1) + 1 = m /\ ~(m <= m - 1)
    BY <2>2
  <2>4. Upto(m - 1)
    BY <2>1, <2>3
  <2> QED
    BY <1>3, <2>2, <2>3, <2>4
<1>5. Cardinality(S) \in Nat /\ \A s \in SUBSET S : Cardinality(s) <= Cardinality(S)
  BY Subcard
<1>6. PICK g \in [SUBSET S -> T] : \A s \in SUBSET S : Cardinality(s) <= Cardinality(S) => Unfolds(g, s)
  BY <1>4, <1>5 DEF Upto
<1> QED
  BY <1>5, <1>6 DEF Folds

\* What holds of the empty set, and of a set whenever it holds of it less any of its elements, holds of every subset.
LEMMA EverySubset ==
  ASSUME NEW S, IsFiniteSet(S), NEW Q, {} \in Q, \A s \in (SUBSET S) \ {{}} : (\A x \in s : s \ {x} \in Q) => s \in Q
  PROVE  SUBSET S \subseteq Q
<1> DEFINE Upto(k) == \A s \in SUBSET S : Cardinality(s) = k => s \in Q
           later == {k \in Nat : ~Upto(k)}
<1>1. Upto(0)
  BY Subcard
<1>2. ASSUME NEW k \in Nat, Upto(k)
      PROVE  Upto(k + 1)
  <2> SUFFICES ASSUME NEW s \in SUBSET S, Cardinality(s) = k + 1
               PROVE  s \in Q
    OBVIOUS
  <2>1. s # {} /\ IsFiniteSet(s)
    BY Subcard
  <2>2. ASSUME NEW x \in s
        PROVE  s \ {x} \in Q
    <3>1. Cardinality(s \ {x}) = Cardinality(s) - 1
      BY <2>1, FS_RemoveElement
    <3>2. Cardinality(s \ {x}) = k
      BY <3>1
    <3> QED
      BY <1>2, <3>2
  <2> QED
    BY <2>1, <2>2
<1> HIDE DEF Upto
<1>3. \A k \in Nat : Upto(k)
  <2> SUFFICES ASSUME NEW k \in Nat, ~Upto(k)
               PROVE  FALSE
    OBVIOUS
  <2>1. PICK m \in later : \A y \in later : m <= y
    BY NatMin
  <2>2. m # 0 /\ m \in Nat /\ ~Upto(m)
    BY <1>1, <2>1
  <2>3. m - 1 \in Nat /\ (m - 1) + 1 = m /\ ~(m <= m - 1)
    BY <2>2
  <2>4. Upto(m - 1)
    BY <2>1, <2>3
  <2> QED
    BY <1>2, <2>2, <2>3, <2>4
<1>4. ASSUME NEW s \in SUBSET S
      PROVE  s \in Q
  <2>1. Cardinality(s) \in Nat
    BY Subcard
  <2> QED
    BY <1>3, <2>1 DEF Upto
<1> QED
  BY <1>4

(***************************************************************************)
(* Sums                                                                    *)
(***************************************************************************)
First(s) == CHOOSE x \in s : TRUE
SumOver(f, S) == SumFunctionOnSet(f, S)
Numbers(f, S) == IsFiniteSet(S) /\ \A x \in S : f[x] \in Int

\* g adds up f over the subsets of S.
AddsUp(g, f, S) == g = [s \in SUBSET S |-> IF s = {} THEN 0 ELSE f[First(s)] + g[s \ {First(s)}]]

LEMMA FirstIsElement ==
  ASSUME NEW s, s # {}
  PROVE  First(s) \in s
BY DEF First

LEMMA SumExists ==
  ASSUME NEW f, NEW S, Numbers(f, S)
  PROVE  \E g \in [SUBSET S -> Int] : AddsUp(g, f, S)
<1>1. PICK c : c = [s \in (SUBSET S) \ {{}} |-> First(s)]
  OBVIOUS
<1>2. \A s \in (SUBSET S) \ {{}} : c[s] = First(s) /\ First(s) \in s
  BY <1>1, FirstIsElement
<1>3. Takes(c, S)
  BY <1>2 DEF Takes
<1>4. PICK h : h = [x \in S |-> [n \in Int |-> f[x] + n]]
  OBVIOUS
<1>5. h \in [S -> [Int -> Int]]
  <2>1. \A x \in S : [n \in Int |-> f[x] + n] \in [Int -> Int]
    BY DEF Numbers
  <2> QED
    BY <1>4, <2>1
<1>6. PICK g \in [SUBSET S -> Int] : Folds(g, S, 0, h, c)
  <2>1. IsFiniteSet(S) /\ 0 \in Int
    BY DEF Numbers
  <2> QED
    BY <1>3, <1>5, <2>1, FoldExists
<1>7. ASSUME NEW s \in SUBSET S, s # {}
      PROVE  g[s] = f[First(s)] + g[s \ {First(s)}]
  <2>1. Rest(s, c) = s \ {First(s)} /\ c[s] \in S /\ c[s] = First(s)
    BY <1>2, <1>7 DEF Rest
  <2>2. g[s] = h[c[s]][g[Rest(s, c)]]
    BY <1>6, <1>7 DEF Folds
  <2>3. g[Rest(s, c)] \in Int
    BY <2>1
  <2> QED
    BY <1>4, <2>1, <2>2, <2>3
<1>8. g[{}] = 0
  BY <1>6 DEF Folds
<1>9. g = [s \in SUBSET S |-> IF s = {} THEN 0 ELSE f[First(s)] + g[s \ {First(s)}]]
  BY <1>7, <1>8
<1> QED
  BY <1>9 DEF AddsUp

LEMMA SumsAgree ==
  ASSUME NEW f, NEW S, NEW T \in SUBSET S, IsFiniteSet(T), NEW g, AddsUp(g, f, S), NEW k, AddsUp(k, f, T)
  PROVE  g[T] = k[T]
<1> DEFINE Q == {s \in SUBSET T : g[s] = k[s]}
<1>1. {} \in Q
  BY DEF AddsUp
<1>2. ASSUME NEW s \in (SUBSET T) \ {{}}, \A x \in s : s \ {x} \in Q
      PROVE  s \in Q
  <2>1. First(s) \in s
    BY FirstIsElement
  <2>2. g[s \ {First(s)}] = k[s \ {First(s)}]
    BY <1>2, <2>1
  <2>3. g[s] = f[First(s)] + g[s \ {First(s)}] /\ k[s] = f[First(s)] + k[s \ {First(s)}]
    BY DEF AddsUp
  <2> QED
    BY <2>2, <2>3
<1> HIDE DEF Q
<1>3. SUBSET T \subseteq Q
  BY <1>1, <1>2, EverySubset
<1> QED
  BY <1>3 DEF Q

LEMMA SumIsFold ==
  ASSUME NEW f, NEW S, Numbers(f, S)
  PROVE  \E g \in [SUBSET S -> Int] : AddsUp(g, f, S) /\ SumOver(f, S) = g[S]
<1> DEFINE iter == CHOOSE g : AddsUp(g, f, S)
<1>1. SumOver(f, S) = iter[S]
  BY DEF SumOver, SumFunctionOnSet, FoldFunctionOnSet, MapThenFoldSet, AddsUp, First
<1>2. PICK g \in [SUBSET S -> Int] : AddsUp(g, f, S)
  BY SumExists
<1>3. AddsUp(iter, f, S)
  BY <1>2
<1> HIDE DEF iter
<1>4. iter[S] = g[S]
  BY <1>2, <1>3, SumsAgree DEF Numbers
<1> QED
  BY <1>1, <1>2, <1>4

LEMMA SumFirst ==
  ASSUME NEW f, NEW S, Numbers(f, S)
  PROVE  /\ SumOver(f, S) \in Int
         /\ S = {} => SumOver(f, S) = 0
         /\ S # {} => SumOver(f, S) = f[First(S)] + SumOver(f, S \ {First(S)})
<1>1. PICK g \in [SUBSET S -> Int] : AddsUp(g, f, S) /\ SumOver(f, S) = g[S]
  BY SumIsFold
<1>2. S = {} => g[S] = 0
  BY <1>1 DEF AddsUp
<1>3. ASSUME S # {}
      PROVE  g[S] = f[First(S)] + SumOver(f, S \ {First(S)})
  <2>1. PICK T : T = S \ {First(S)}
    OBVIOUS
  <2>2. Numbers(f, T) /\ T \in SUBSET S /\ IsFiniteSet(T)
    BY <2>1, FS_Subset DEF Numbers
  <2>3. PICK k \in [SUBSET T -> Int] : AddsUp(k, f, T) /\ SumOver(f, T) = k[T]
    BY <2>2, SumIsFold
  <2>4. k[T] = g[T]
    BY <1>1, <2>2, <2>3, SumsAgree
  <2> QED
    BY <1>1, <1>3, <2>1, <2>3, <2>4 DEF AddsUp
<1> QED
  BY <1>1, <1>2, <1>3

\* Any element may be added last.
LEMMA SumTake ==
  ASSUME NEW f, NEW S, Numbers(f, S), NEW x \in S
  PROVE  SumOver(f, S) = f[x] + SumOver(f, S \ {x}) /\ Numbers(f, S \ {x})
<1> DEFINE Q == {s \in SUBSET S : \A y \in s : SumOver(f, s) = f[y] + SumOver(f, s \ {y})}
<1>1. \A s \in SUBSET S : Numbers(f, s)
  BY FS_Subset DEF Numbers
<1>2. {} \in Q
  OBVIOUS
<1>3. ASSUME NEW s \in (SUBSET S) \ {{}}, \A y \in s : s \ {y} \in Q
      PROVE  s \in Q
  <2> SUFFICES ASSUME NEW y \in s
               PROVE  SumOver(f, s) = f[y] + SumOver(f, s \ {y})
    OBVIOUS
  <2>1. PICK z : z = First(s)
    OBVIOUS
  <2>2. z \in s
    BY <2>1, FirstIsElement
  <2>3. SumOver(f, s) = f[z] + SumOver(f, s \ {z})
    BY <1>1, <2>1, SumFirst
  <2>4. CASE y = z
    BY <2>3, <2>4
  <2>5. CASE y # z
    <3>1. PICK u : u = (s \ {z}) \ {y}
      OBVIOUS
    <3>2. u = (s \ {y}) \ {z} /\ u \in SUBSET S
      BY <3>1
    <3>3. SumOver(f, s \ {z}) = f[y] + SumOver(f, u)
      BY <1>3, <2>2, <2>5, <3>1
    <3>4. SumOver(f, s \ {y}) = f[z] + SumOver(f, u)
      BY <1>3, <2>2, <2>5, <3>2
    <3>5. SumOver(f, u) \in Int /\ f[y] \in Int /\ f[z] \in Int
      BY <1>1, <2>2, <3>2, SumFirst DEF Numbers
    <3> QED
      BY <2>3, <3>3, <3>4, <3>5
  <2> QED
    BY <2>4, <2>5
<1> HIDE DEF Q
<1>4. SUBSET S \subseteq Q
  BY <1>2, <1>3, EverySubset DEF Numbers
<1> QED
  BY <1>1, <1>4 DEF Q

LEMMA SumAdd ==
  ASSUME NEW f, NEW S, NEW x, x \notin S, Numbers(f, S \cup {x})
  PROVE  SumOver(f, S \cup {x}) = f[x] + SumOver(f, S) /\ Numbers(f, S)
<1>1. (S \cup {x}) \ {x} = S
  OBVIOUS
<1> QED
  BY <1>1, SumTake

\* A sum of nothing but zeros is zero, and one of no negative number is not negative.
LEMMA SumSign ==
  ASSUME NEW f, NEW S, Numbers(f, S)
  PROVE  /\ (\A x \in S : f[x] = 0) => SumOver(f, S) = 0
         /\ (\A x \in S : f[x] >= 0) => SumOver(f, S) >= 0
<1> DEFINE Q == {s \in SUBSET S : /\ (\A x \in S : f[x] = 0) => SumOver(f, s) = 0
                                  /\ (\A x \in S : f[x] >= 0) => SumOver(f, s) >= 0}
<1>1. \A s \in SUBSET S : Numbers(f, s)
  BY FS_Subset DEF Numbers
<1>2. {} \in Q
  <2>1. Numbers(f, {})
    BY <1>1
  <2>2. SumOver(f, {}) = 0
    BY <2>1, SumFirst
  <2> QED
    BY <2>2
<1>3. ASSUME NEW s \in (SUBSET S) \ {{}}, \A y \in s : s \ {y} \in Q
      PROVE  s \in Q
  <2>1. PICK y \in s : TRUE
    OBVIOUS
  <2>2. Numbers(f, s) /\ f[y] \in Int
    BY <1>1 DEF Numbers
  <2>3. SumOver(f, s) = f[y] + SumOver(f, s \ {y}) /\ Numbers(f, s \ {y})
    BY <2>2, SumTake
  <2>4. SumOver(f, s \ {y}) \in Int
    BY <2>3, SumFirst
  <2>5. s \ {y} \in Q /\ y \in S
    BY <1>3
  <2> QED
    BY <2>2, <2>3, <2>4, <2>5
<1> HIDE DEF Q
<1>4. SUBSET S \subseteq Q
  BY <1>2, <1>3, EverySubset DEF Numbers
<1> QED
  BY <1>4 DEF Q

LEMMA SumIs ==
  ASSUME NEW f
  PROVE  Sum(f) = SumOver(f, DOMAIN f)
BY DEF Sum, SumFunction, SumOver

LEMMA SumPut ==
  ASSUME NEW f, NEW S, Numbers(f, S), NEW x, x \notin S, f[x] \in Int, NEW T, T = S \cup {x}
  PROVE  Numbers(f, T) /\ SumOver(f, T) = SumOver(f, S) + f[x] /\ SumOver(f, S) \in Int
<1>1. Numbers(f, S \cup {x})
  BY FS_AddElement DEF Numbers
<1>2. SumOver(f, S) \in Int
  BY SumFirst
<1> QED
  BY <1>1, <1>2, SumAdd

Totals(f, S, n) == Numbers(f, S) /\ SumOver(f, S) = n

LEMMA TotalOfNone ==
  ASSUME NEW f
  PROVE  Totals(f, {}, 0)
BY FS_EmptySet, SumFirst DEF Numbers, Totals

LEMMA TotalWith ==
  ASSUME NEW f, NEW S, NEW n, Totals(f, S, n), NEW x, x \notin S, f[x] \in Int
  PROVE  Totals(f, S \cup {x}, n + f[x])
BY SumPut DEF Totals

LEMMA SumHours ==
  ASSUME NEW f, DOMAIN f = HoursFields, \A x \in HoursFields : f[x] \in Int
  PROVE  Sum(f) = f["work.regularWeekdayHours"] + f["work.overtimeHours"] + f["work.saturdayHours"] + f["work.sundayHours"] + f["work.publicHolidayHours"]
<1>1. HoursFields = {} \cup {"work.regularWeekdayHours"} \cup {"work.overtimeHours"} \cup {"work.saturdayHours"} \cup {"work.sundayHours"} \cup {"work.publicHolidayHours"}
  BY DEF HoursFields
<1>2. f["work.regularWeekdayHours"] \in Int /\ f["work.overtimeHours"] \in Int /\ f["work.saturdayHours"] \in Int /\ f["work.sundayHours"] \in Int /\ f["work.publicHolidayHours"] \in Int
  BY <1>1
<1>3. /\ "work.regularWeekdayHours" \notin {}
      /\ "work.overtimeHours" \notin {} \cup {"work.regularWeekdayHours"}
      /\ "work.saturdayHours" \notin {} \cup {"work.regularWeekdayHours"} \cup {"work.overtimeHours"}
      /\ "work.sundayHours" \notin {} \cup {"work.regularWeekdayHours"} \cup {"work.overtimeHours"} \cup {"work.saturdayHours"}
      /\ "work.publicHolidayHours" \notin {} \cup {"work.regularWeekdayHours"} \cup {"work.overtimeHours"} \cup {"work.saturdayHours"} \cup {"work.sundayHours"}
  OBVIOUS
<1>4. Totals(f, {} \cup {"work.regularWeekdayHours"} \cup {"work.overtimeHours"} \cup {"work.saturdayHours"} \cup {"work.sundayHours"} \cup {"work.publicHolidayHours"},
             0 + f["work.regularWeekdayHours"] + f["work.overtimeHours"] + f["work.saturdayHours"] + f["work.sundayHours"] + f["work.publicHolidayHours"])
  BY <1>2, <1>3, TotalOfNone, TotalWith, Zenon
<1>5. Totals(f, HoursFields, 0 + f["work.regularWeekdayHours"] + f["work.overtimeHours"] + f["work.saturdayHours"] + f["work.sundayHours"] + f["work.publicHolidayHours"])
  BY <1>1, <1>4, Zenon
<1> QED
  BY <1>2, <1>5, SumIs DEF Totals

LEMMA SumDays ==
  ASSUME NEW f, DOMAIN f = WEEK_DAYS, \A x \in WEEK_DAYS : f[x] \in Int
  PROVE  Sum(f) = f["mon"] + f["tue"] + f["wed"] + f["thu"] + f["fri"] + f["sat"] + f["sun"]
<1>1. WEEK_DAYS = {} \cup {"mon"} \cup {"tue"} \cup {"wed"} \cup {"thu"} \cup {"fri"} \cup {"sat"} \cup {"sun"}
  BY DEF WEEK_DAYS
<1>2. f["mon"] \in Int /\ f["tue"] \in Int /\ f["wed"] \in Int /\ f["thu"] \in Int /\ f["fri"] \in Int /\ f["sat"] \in Int /\ f["sun"] \in Int
  BY <1>1
<1>3. /\ "mon" \notin {}
      /\ "tue" \notin {} \cup {"mon"}
      /\ "wed" \notin {} \cup {"mon"} \cup {"tue"}
      /\ "thu" \notin {} \cup {"mon"} \cup {"tue"} \cup {"wed"}
      /\ "fri" \notin {} \cup {"mon"} \cup {"tue"} \cup {"wed"} \cup {"thu"}
      /\ "sat" \notin {} \cup {"mon"} \cup {"tue"} \cup {"wed"} \cup {"thu"} \cup {"fri"}
      /\ "sun" \notin {} \cup {"mon"} \cup {"tue"} \cup {"wed"} \cup {"thu"} \cup {"fri"} \cup {"sat"}
  OBVIOUS
<1>4. Totals(f, {} \cup {"mon"} \cup {"tue"} \cup {"wed"} \cup {"thu"} \cup {"fri"} \cup {"sat"} \cup {"sun"},
             0 + f["mon"] + f["tue"] + f["wed"] + f["thu"] + f["fri"] + f["sat"] + f["sun"])
  BY <1>2, <1>3, TotalOfNone, TotalWith, Zenon
<1>5. Totals(f, WEEK_DAYS, 0 + f["mon"] + f["tue"] + f["wed"] + f["thu"] + f["fri"] + f["sat"] + f["sun"])
  BY <1>1, <1>4, Zenon
<1> QED
  BY <1>2, <1>5, SumIs DEF Totals

LEMMA CategoriesAre ==
  ToSet(Categories) = {"regular", "overtime_tier_1", "overtime_tier_2", "saturday", "sunday", "holiday"}
BY DEF ToSet, Categories

LEMMA SumCategories ==
  ASSUME NEW f, DOMAIN f = ToSet(Categories), \A x \in ToSet(Categories) : f[x] \in Int
  PROVE  Sum(f) = f["regular"] + f["overtime_tier_1"] + f["overtime_tier_2"] + f["saturday"] + f["sunday"] + f["holiday"]
<1>1. ToSet(Categories) = {} \cup {"regular"} \cup {"overtime_tier_1"} \cup {"overtime_tier_2"} \cup {"saturday"} \cup {"sunday"} \cup {"holiday"}
  BY CategoriesAre
<1>2. f["regular"] \in Int /\ f["overtime_tier_1"] \in Int /\ f["overtime_tier_2"] \in Int /\ f["saturday"] \in Int /\ f["sunday"] \in Int /\ f["holiday"] \in Int
  BY <1>1
<1>3. /\ "regular" \notin {}
      /\ "overtime_tier_1" \notin {} \cup {"regular"}
      /\ "overtime_tier_2" \notin {} \cup {"regular"} \cup {"overtime_tier_1"}
      /\ "saturday" \notin {} \cup {"regular"} \cup {"overtime_tier_1"} \cup {"overtime_tier_2"}
      /\ "sunday" \notin {} \cup {"regular"} \cup {"overtime_tier_1"} \cup {"overtime_tier_2"} \cup {"saturday"}
      /\ "holiday" \notin {} \cup {"regular"} \cup {"overtime_tier_1"} \cup {"overtime_tier_2"} \cup {"saturday"} \cup {"sunday"}
  OBVIOUS
<1>4. Totals(f, {} \cup {"regular"} \cup {"overtime_tier_1"} \cup {"overtime_tier_2"} \cup {"saturday"} \cup {"sunday"} \cup {"holiday"},
             0 + f["regular"] + f["overtime_tier_1"] + f["overtime_tier_2"] + f["saturday"] + f["sunday"] + f["holiday"])
  BY <1>2, <1>3, TotalOfNone, TotalWith, Zenon
<1>5. Totals(f, ToSet(Categories), 0 + f["regular"] + f["overtime_tier_1"] + f["overtime_tier_2"] + f["saturday"] + f["sunday"] + f["holiday"])
  BY <1>1, <1>4, Zenon
<1> QED
  BY <1>2, <1>5, SumIs DEF Totals

LEMMA WeekdayNumbersAre == WeekdayNumbers = {1, 2, 3, 4, 5}
BY DEF WeekdayNumbers, Weekdays

LEMMA SumWeekdays ==
  ASSUME NEW f, DOMAIN f = WeekdayNumbers, \A x \in WeekdayNumbers : f[x] \in Int
  PROVE  Sum(f) = f[1] + f[2] + f[3] + f[4] + f[5]
<1>1. WeekdayNumbers = {} \cup {1} \cup {2} \cup {3} \cup {4} \cup {5}
  BY WeekdayNumbersAre
<1>2. f[1] \in Int /\ f[2] \in Int /\ f[3] \in Int /\ f[4] \in Int /\ f[5] \in Int
  BY <1>1
<1>3. /\ 1 \notin {}
      /\ 2 \notin {} \cup {1}
      /\ 3 \notin {} \cup {1} \cup {2}
      /\ 4 \notin {} \cup {1} \cup {2} \cup {3}
      /\ 5 \notin {} \cup {1} \cup {2} \cup {3} \cup {4}
  OBVIOUS
<1>4. Totals(f, {} \cup {1} \cup {2} \cup {3} \cup {4} \cup {5},
             0 + f[1] + f[2] + f[3] + f[4] + f[5])
  BY <1>2, <1>3, TotalOfNone, TotalWith, Zenon
<1>5. Totals(f, WeekdayNumbers, 0 + f[1] + f[2] + f[3] + f[4] + f[5])
  BY <1>1, <1>4, Zenon
<1> QED
  BY <1>2, <1>5, SumIs DEF Totals

LEMMA SumWeeks ==
  ASSUME NEW f
  PROVE  /\ DOMAIN f = {1} /\ f[1] \in Int => Sum(f) = f[1]
         /\ DOMAIN f = {1, 2} /\ f[1] \in Int /\ f[2] \in Int => Sum(f) = f[1] + f[2]
<1>1. {} \cup {1} = {1} /\ {} \cup {1} \cup {2} = {1, 2} /\ 1 \notin {} /\ 2 \notin {} \cup {1}
  OBVIOUS
<1>2. ASSUME f[1] \in Int
      PROVE  SumOver(f, {1}) = f[1] /\ Totals(f, {} \cup {1}, 0 + f[1])
  <2>1. Totals(f, {} \cup {1}, 0 + f[1])
    BY <1>1, <1>2, TotalOfNone, TotalWith, Zenon
  <2> QED
    BY <1>1, <1>2, <2>1 DEF Totals
<1>3. ASSUME f[1] \in Int, f[2] \in Int
      PROVE  SumOver(f, {1, 2}) = f[1] + f[2]
  <2>1. Totals(f, {} \cup {1} \cup {2}, 0 + f[1] + f[2])
    BY <1>1, <1>2, <1>3, TotalWith, Zenon
  <2>2. SumOver(f, {1, 2}) = 0 + f[1] + f[2]
    BY <1>1, <2>1, Zenon DEF Totals
  <2> QED
    BY <1>3, <2>2
<1> QED
  BY <1>2, <1>3, SumIs

(***************************************************************************)
(* The hours of a week, over its days and by category                      *)
(***************************************************************************)
WorkedCells == [regular : Nat, overtime : Nat, holiday : {FALSE}]
FlatCells(holiday) == [regular : Nat, overtime : {0}, holiday : {holiday}]
WorkingDays == WEEK_DAYS \ {"sat", "sun"}

\* Overtime can be placed: its threshold is known.
Placeable(overtime, threshold) == overtime > 0 => \E t \in Nat : threshold = {t}

LEMMA TheOnly ==
  ASSUME NEW v
  PROVE  The({v}) = v
BY DEF The

LEMMA SplitEvenly ==
  ASSUME NEW total \in Nat, NEW parts \in WeekdayNumbers
  PROVE  LET s == splitEvenly(total, parts)
         IN  DOMAIN s = WeekdayNumbers /\ (\A i \in WeekdayNumbers : s[i] \in Nat) /\ s[1] + s[2] + s[3] + s[4] + s[5] = total
<1>1. PICK s : s = splitEvenly(total, parts)
  OBVIOUS
<1>2. PICK q \in Nat, r \in Nat : total = parts * q + r /\ r < parts /\ q = total \div parts /\ r = total % parts
  BY WeekdayNumbersAre
<1>3. DOMAIN s = WeekdayNumbers /\ \A i \in WeekdayNumbers : s[i] = IF i > parts THEN 0 ELSE q + (IF i <= r THEN 1 ELSE 0)
  BY <1>1, <1>2 DEF splitEvenly
<1>4. \A i \in WeekdayNumbers : s[i] \in Nat
  BY <1>2, <1>3
<1>5. /\ s[1] = q + (IF 1 <= r THEN 1 ELSE 0)
      /\ s[2] = IF 2 > parts THEN 0 ELSE q + (IF 2 <= r THEN 1 ELSE 0)
      /\ s[3] = IF 3 > parts THEN 0 ELSE q + (IF 3 <= r THEN 1 ELSE 0)
      /\ s[4] = IF 4 > parts THEN 0 ELSE q + (IF 4 <= r THEN 1 ELSE 0)
      /\ s[5] = IF 5 > parts THEN 0 ELSE q + (IF 5 <= r THEN 1 ELSE 0)
  BY <1>3, WeekdayNumbersAre
<1>6. s[1] + s[2] + s[3] + s[4] + s[5] = total
  <2>1. CASE parts = 1
    <3>1. total = 1 * q + r /\ r < 1
      BY <1>2, <2>1
    <3>2. s[1] = q /\ s[2] = 0 /\ s[3] = 0 /\ s[4] = 0 /\ s[5] = 0
      BY <1>5, <2>1, <3>1
    <3> QED
      BY <3>1, <3>2
  <2>2. CASE parts = 2
    <3>1. total = 2 * q + r /\ r < 2
      BY <1>2, <2>2
    <3>2. s[1] = q + (IF 1 <= r THEN 1 ELSE 0) /\ s[2] = q /\ s[3] = 0 /\ s[4] = 0 /\ s[5] = 0
      BY <1>5, <2>2, <3>1
    <3> QED
      BY <3>1, <3>2
  <2>3. CASE parts = 3
    <3>1. total = 3 * q + r /\ r < 3
      BY <1>2, <2>3
    <3>2. s[1] = q + (IF 1 <= r THEN 1 ELSE 0) /\ s[2] = q + (IF 2 <= r THEN 1 ELSE 0) /\ s[3] = q /\ s[4] = 0 /\ s[5] = 0
      BY <1>5, <2>3, <3>1
    <3> QED
      BY <3>1, <3>2
  <2>4. CASE parts = 4
    <3>1. total = 4 * q + r /\ r < 4
      BY <1>2, <2>4
    <3>2. s[1] = q + (IF 1 <= r THEN 1 ELSE 0) /\ s[2] = q + (IF 2 <= r THEN 1 ELSE 0) /\ s[3] = q + (IF 3 <= r THEN 1 ELSE 0) /\ s[4] = q /\ s[5] = 0
      BY <1>5, <2>4, <3>1
    <3> QED
      BY <3>1, <3>2
  <2>5. CASE parts = 5
    <3>1. total = 5 * q + r /\ r < 5
      BY <1>2, <2>5
    <3>2. s[1] = q + (IF 1 <= r THEN 1 ELSE 0) /\ s[2] = q + (IF 2 <= r THEN 1 ELSE 0) /\ s[3] = q + (IF 3 <= r THEN 1 ELSE 0) /\ s[4] = q + (IF 4 <= r THEN 1 ELSE 0) /\ s[5] = q
      BY <1>5, <2>5, <3>1
    <3> QED
      BY <3>1, <3>2
  <2> QED
    BY <2>1, <2>2, <2>3, <2>4, <2>5, WeekdayNumbersAre
<1> QED
  BY <1>1, <1>3, <1>4, <1>6

\* The overtime's distribution is one that the validator let pass for this many hours.
Distributes(distribution, overtime) ==
  \E d \in Distributions :
    /\ distribution = {d}
    /\ d.kind = "even" => d.days \in WeekdayNumbers
    /\ d.kind = "explicit" => (\A i \in WeekdayNumbers : d.byDay[i] >= 0) /\ Sum(d.byDay) = overtime

LEMMA CellsOfWeek ==
  ASSUME NEW regular \in Nat, NEW overtime \in Nat, NEW distribution, overtime > 0 => Distributes(distribution, overtime)
  PROVE  LET cells == expandWeekdayHours(regular, overtime, distribution)
         IN  /\ \A i \in WeekdayNumbers : cells[i] \in WorkedCells
             /\ cells[1].regular + cells[2].regular + cells[3].regular + cells[4].regular + cells[5].regular = regular
             /\ cells[1].overtime + cells[2].overtime + cells[3].overtime + cells[4].overtime + cells[5].overtime = overtime
<1>1. PICK r : r = splitEvenly(regular, 5)
  OBVIOUS
<1>2. (\A i \in WeekdayNumbers : r[i] \in Nat) /\ r[1] + r[2] + r[3] + r[4] + r[5] = regular
  BY <1>1, SplitEvenly, WeekdayNumbersAre
<1>3. PICK s : s = IF overtime = 0 \/ distribution = {} THEN [i \in WeekdayNumbers |-> 0]
                   ELSE IF The(distribution).kind = "even" THEN splitEvenly(overtime, The(distribution).days)
                   ELSE The(distribution).byDay
  OBVIOUS
<1>4. (\A i \in WeekdayNumbers : s[i] \in Nat) /\ s[1] + s[2] + s[3] + s[4] + s[5] = overtime
  <2>1. CASE overtime = 0
    BY <1>3, <2>1, WeekdayNumbersAre
  <2>2. CASE overtime # 0
    <3>1. PICK d \in Distributions :
            /\ distribution = {d}
            /\ d.kind = "even" => d.days \in WeekdayNumbers
            /\ d.kind = "explicit" => (\A i \in WeekdayNumbers : d.byDay[i] >= 0) /\ Sum(d.byDay) = overtime
      BY <2>2 DEF Distributes
    <3>2. s = IF d.kind = "even" THEN splitEvenly(overtime, d.days) ELSE d.byDay
      <4>1. {d} # {} /\ The({d}) = d
        BY TheOnly
      <4> QED
        BY <1>3, <2>2, <3>1, <4>1
    <3>3. CASE d.kind = "even"
      BY <3>1, <3>2, <3>3, SplitEvenly
    <3>4. CASE d.kind # "even"
      <4>1. d.kind = "explicit" /\ d.byDay \in [WeekdayNumbers -> Int]
        BY <3>4 DEF Distributions
      <4>2. Sum(d.byDay) = d.byDay[1] + d.byDay[2] + d.byDay[3] + d.byDay[4] + d.byDay[5]
        BY <4>1, SumWeekdays
      <4> QED
        BY <3>1, <3>2, <3>4, <4>1, <4>2
    <3> QED
      BY <3>3, <3>4
  <2> QED
    BY <2>1, <2>2
<1>5. expandWeekdayHours(regular, overtime, distribution)
        = [i \in WeekdayNumbers |-> [regular |-> r[i], overtime |-> s[i], holiday |-> FALSE]]
  BY <1>1, <1>3 DEF expandWeekdayHours, Weekdays
<1> QED
  BY <1>2, <1>4, <1>5, WeekdayNumbersAre DEF WorkedCells

\* The hours of a working day are of the regular category and, split at the threshold, of the overtime's two.
LEMMA HoursOfWorkingDay ==
  ASSUME NEW day \in WorkingDays, NEW cell \in WorkedCells, NEW threshold, Placeable(cell.overtime, threshold)
  PROVE  /\ ~DayNeedsThreshold(day, cell, threshold)
         /\ HoursOfDay(day, cell, threshold, "regular") = cell.regular
         /\ HoursOfDay(day, cell, threshold, "overtime_tier_1") \in Nat
         /\ HoursOfDay(day, cell, threshold, "overtime_tier_2") \in Nat
         /\ HoursOfDay(day, cell, threshold, "overtime_tier_1") + HoursOfDay(day, cell, threshold, "overtime_tier_2") = cell.overtime
         /\ \A c \in {"saturday", "sunday", "holiday"} : HoursOfDay(day, cell, threshold, c) = 0
<1>1. FlatCategory(day, cell) = {} /\ cell.regular \in Nat /\ cell.overtime \in Nat
  BY DEF FlatCategory, WorkedCells, WorkingDays, WEEK_DAYS
<1>2. CASE cell.overtime = 0
  BY <1>1, <1>2 DEF DayNeedsThreshold, HoursOfDay
<1>3. CASE cell.overtime > 0
  <2>1. PICK t \in Nat : threshold = {t}
    BY <1>3 DEF Placeable
  <2>2. The(threshold) = t
    BY <2>1, TheOnly
  <2> QED
    BY <1>1, <1>3, <2>1, <2>2 DEF DayNeedsThreshold, HoursOfDay, Lesser, NotNegative
<1> QED
  BY <1>1, <1>2, <1>3

\* A day paid flat has all its hours in one category.
LEMMA HoursOfFlatDay ==
  ASSUME NEW day, NEW cell, cell.overtime = 0, cell.regular \in Nat, NEW threshold,
         NEW flat, FlatCategory(day, cell) = {flat}
  PROVE  /\ ~DayNeedsThreshold(day, cell, threshold)
         /\ \A c : HoursOfDay(day, cell, threshold, c) = IF c = flat THEN cell.regular ELSE 0
BY DEF DayNeedsThreshold, HoursOfDay

HoursOf(grid, threshold, c) ==
  [day \in WEEK_DAYS |-> IF DayNeedsThreshold(day, grid[day], threshold) THEN 0 ELSE HoursOfDay(day, grid[day], threshold, c)]

LEMMA LinesOfGrid ==
  ASSUME NEW grid, NEW threshold, NEW c \in ToSet(Categories), \A day \in WEEK_DAYS : HoursOf(grid, threshold, c)[day] \in Int
  PROVE  LET f == HoursOf(grid, threshold, c)
         IN  convertHourGridToLines(grid, threshold).hours[c]
               = f["mon"] + f["tue"] + f["wed"] + f["thu"] + f["fri"] + f["sat"] + f["sun"]
<1>1. PICK f : f = HoursOf(grid, threshold, c)
  OBVIOUS
<1>2. DOMAIN f = WEEK_DAYS
  BY <1>1 DEF HoursOf
<1>3. convertHourGridToLines(grid, threshold).hours[c] = Sum(f)
  BY <1>1 DEF convertHourGridToLines, HoursOf
<1> QED
  BY <1>1, <1>2, <1>3, SumDays

\* A week without holidays.
LEMMA LinesOfWeek ==
  ASSUME NEW grid, NEW threshold, \A day \in WorkingDays : grid[day] \in WorkedCells /\ Placeable(grid[day].overtime, threshold),
         \A day \in {"sat", "sun"} : grid[day] \in FlatCells(FALSE)
  PROVE  LET lines == convertHourGridToLines(grid, threshold)
         IN  /\ lines.blocked = {}
             /\ \A c \in ToSet(Categories) : lines.hours[c] \in Nat
             /\ lines.hours["regular"] = grid["mon"].regular + grid["tue"].regular + grid["wed"].regular
                                           + grid["thu"].regular + grid["fri"].regular
             /\ lines.hours["overtime_tier_1"] + lines.hours["overtime_tier_2"]
                  = grid["mon"].overtime + grid["tue"].overtime + grid["wed"].overtime + grid["thu"].overtime + grid["fri"].overtime
             /\ lines.hours["saturday"] = grid["sat"].regular
             /\ lines.hours["sunday"] = grid["sun"].regular
             /\ lines.hours["holiday"] = 0
<1> DEFINE H(c) == convertHourGridToLines(grid, threshold).hours[c]
           D(day, c) == HoursOfDay(day, grid[day], threshold, c)
<1>1. \A day \in WorkingDays :
        /\ ~DayNeedsThreshold(day, grid[day], threshold)
        /\ D(day, "regular") = grid[day].regular
        /\ D(day, "overtime_tier_1") \in Nat /\ D(day, "overtime_tier_2") \in Nat
        /\ D(day, "overtime_tier_1") + D(day, "overtime_tier_2") = grid[day].overtime
        /\ D(day, "saturday") = 0 /\ D(day, "sunday") = 0 /\ D(day, "holiday") = 0
  BY HoursOfWorkingDay
<1>2. /\ ~DayNeedsThreshold("sat", grid["sat"], threshold)
      /\ \A c : D("sat", c) = IF c = "saturday" THEN grid["sat"].regular ELSE 0
  <2>1. /\ grid["sat"].overtime = 0 /\ grid["sat"].regular \in Nat
        /\ FlatCategory("sat", grid["sat"]) = {"saturday"}
    BY DEF FlatCategory, FlatCells
  <2> QED
    BY <2>1, HoursOfFlatDay
<1>3. /\ ~DayNeedsThreshold("sun", grid["sun"], threshold)
      /\ \A c : D("sun", c) = IF c = "sunday" THEN grid["sun"].regular ELSE 0
  <2>1. /\ grid["sun"].overtime = 0 /\ grid["sun"].regular \in Nat
        /\ FlatCategory("sun", grid["sun"]) = {"sunday"}
    BY DEF FlatCategory, FlatCells
  <2> QED
    BY <2>1, HoursOfFlatDay
<1>4. WEEK_DAYS = WorkingDays \cup {"sat", "sun"} /\ WorkingDays = {"mon", "tue", "wed", "thu", "fri"}
  BY DEF WorkingDays, WEEK_DAYS
<1>5. convertHourGridToLines(grid, threshold).blocked = {}
  BY <1>1, <1>2, <1>3, <1>4 DEF convertHourGridToLines
<1>6. /\ \A day \in WorkingDays : grid[day].regular \in Nat /\ grid[day].overtime \in Nat
      /\ grid["sat"].regular \in Nat /\ grid["sun"].regular \in Nat
  BY DEF WorkedCells, FlatCells
<1> HIDE DEF D
<1>7. ASSUME NEW c \in ToSet(Categories)
      PROVE  /\ \A day \in WEEK_DAYS : D(day, c) \in Nat
             /\ H(c) = D("mon", c) + D("tue", c) + D("wed", c) + D("thu", c) + D("fri", c) + D("sat", c) + D("sun", c)
  <2>1. \A day \in WEEK_DAYS : D(day, c) \in Nat
    BY <1>1, <1>2, <1>3, <1>4, <1>6, CategoriesAre
  <2>2. \A day \in WEEK_DAYS : HoursOf(grid, threshold, c)[day] = D(day, c)
    BY <1>1, <1>2, <1>3, <1>4 DEF HoursOf, D
  <2> QED
    BY <1>4, <2>1, <2>2, LinesOfGrid
<1> HIDE DEF H
<1>8. \A c \in ToSet(Categories) : H(c) \in Nat
  BY <1>4, <1>7
<1>9. H("regular") = grid["mon"].regular + grid["tue"].regular + grid["wed"].regular + grid["thu"].regular + grid["fri"].regular
  BY <1>1, <1>2, <1>3, <1>4, <1>6, <1>7, CategoriesAre
<1>10. H("overtime_tier_1") + H("overtime_tier_2")
         = grid["mon"].overtime + grid["tue"].overtime + grid["wed"].overtime + grid["thu"].overtime + grid["fri"].overtime
  BY <1>1, <1>2, <1>3, <1>4, <1>6, <1>7, CategoriesAre
<1>11. H("saturday") = grid["sat"].regular /\ H("sunday") = grid["sun"].regular /\ H("holiday") = 0
  BY <1>1, <1>2, <1>3, <1>4, <1>6, <1>7, CategoriesAre
<1> QED
  BY <1>5, <1>8, <1>9, <1>10, <1>11 DEF H

\* A week of holidays, which holds as many hours as a week has.
HolidayGrid(hours) == [day \in WEEK_DAYS |-> holidayDayCells(hours)[dayNumber[day]]]

LEMMA LinesOfHolidayWeek ==
  ASSUME NEW hours \in Nat, hours <= 168 * TicksPerHour, NEW threshold
  PROVE  LET lines == convertHourGridToLines(HolidayGrid(hours), threshold)
         IN  /\ lines.blocked = {}
             /\ lines.hours["holiday"] = hours
             /\ \A c \in ToSet(Categories) \ {"holiday"} : lines.hours[c] = 0
<1> DEFINE grid == HolidayGrid(hours)
           H(c) == convertHourGridToLines(grid, threshold).hours[c]
           R(day) == grid[day].regular
           Part(n) == Lesser(24 * TicksPerHour, NotNegative(hours - n * 24 * TicksPerHour))
<1>1. PICK D : D = 24 * TicksPerHour
  OBVIOUS
<1>2. D \in Nat /\ D > 0 /\ hours <= 7 * D
  BY <1>1, HourAssumption
<1>3. \A n \in 0 .. 6 : Part(n) = Lesser(D, NotNegative(hours - n * D))
  <2> TAKE n \in 0 .. 6
  <2>1. n * 24 * TicksPerHour = n * D
    BY <1>1, HourAssumption
  <2> QED
    BY <1>1, <2>1
<1> HIDE DEF Part
<1>4. /\ Part(0) = Lesser(D, NotNegative(hours)) /\ Part(1) = Lesser(D, NotNegative(hours - D))
      /\ Part(2) = Lesser(D, NotNegative(hours - 2 * D)) /\ Part(3) = Lesser(D, NotNegative(hours - 3 * D))
      /\ Part(4) = Lesser(D, NotNegative(hours - 4 * D)) /\ Part(5) = Lesser(D, NotNegative(hours - 5 * D))
      /\ Part(6) = Lesser(D, NotNegative(hours - 6 * D))
  BY <1>2, <1>3
<1>5. Part(0) + Part(1) + Part(2) + Part(3) + Part(4) + Part(5) + Part(6) = hours
  BY <1>2, <1>4 DEF Lesser, NotNegative
<1>6. \A n \in {0, 1, 2, 3, 4, 5, 6} : Part(n) \in Nat
  BY <1>2, <1>4 DEF Lesser, NotNegative
<1>7. /\ DOMAIN grid = WEEK_DAYS
      /\ \A day \in WEEK_DAYS : grid[day] = [regular |-> Part(dayNumber[day] - 1), overtime |-> 0, holiday |-> TRUE]
  <2>1. \A day \in WEEK_DAYS : dayNumber[day] \in 1 .. 7
    BY DEF WEEK_DAYS, dayNumber
  <2>2. \A i \in 1 .. 7 : holidayDayCells(hours)[i] = [regular |-> Part(i - 1), overtime |-> 0, holiday |-> TRUE]
    BY DEF holidayDayCells, Part
  <2> QED
    BY <2>1, <2>2 DEF HolidayGrid
<1>8. /\ R("mon") = Part(0) /\ R("tue") = Part(1) /\ R("wed") = Part(2) /\ R("thu") = Part(3) /\ R("fri") = Part(4)
      /\ R("sat") = Part(5) /\ R("sun") = Part(6)
  BY <1>7 DEF WEEK_DAYS, dayNumber
<1>9. \A day \in WEEK_DAYS : R(day) \in Nat /\ grid[day].overtime = 0 /\ FlatCategory(day, grid[day]) = {"holiday"}
  BY <1>6, <1>7, <1>8 DEF FlatCategory, WEEK_DAYS
<1>10. \A day \in WEEK_DAYS : /\ ~DayNeedsThreshold(day, grid[day], threshold)
                              /\ \A c : HoursOfDay(day, grid[day], threshold, c) = IF c = "holiday" THEN R(day) ELSE 0
  <2> TAKE day \in WEEK_DAYS
  <2>1. PICK cell : cell = grid[day]
    OBVIOUS
  <2>2. PICK flat : flat = "holiday"
    OBVIOUS
  <2>3. cell.overtime = 0 /\ cell.regular \in Nat /\ FlatCategory(day, cell) = {flat} /\ R(day) = cell.regular
    BY <1>9, <2>1, <2>2
  <2> HIDE DEF R
  <2>4. /\ ~DayNeedsThreshold(day, cell, threshold)
        /\ \A c : HoursOfDay(day, cell, threshold, c) = IF c = flat THEN cell.regular ELSE 0
    BY <2>3, HoursOfFlatDay, ZenonT(30)
  <2> QED
    BY <2>1, <2>2, <2>3, <2>4
<1>11. convertHourGridToLines(grid, threshold).blocked = {}
  BY <1>10 DEF convertHourGridToLines
<1> HIDE DEF R, grid
<1>12. ASSUME NEW c \in ToSet(Categories)
       PROVE  H(c) = IF c = "holiday" THEN R("mon") + R("tue") + R("wed") + R("thu") + R("fri") + R("sat") + R("sun") ELSE 0
  <2>1. \A day \in WEEK_DAYS : HoursOf(grid, threshold, c)[day] = IF c = "holiday" THEN R(day) ELSE 0
    BY <1>10 DEF HoursOf
  <2>2. \A day \in WEEK_DAYS : HoursOf(grid, threshold, c)[day] \in Int
    BY <1>9, <2>1
  <2>3. PICK f : f = HoursOf(grid, threshold, c)
    OBVIOUS
  <2>4. H(c) = f["mon"] + f["tue"] + f["wed"] + f["thu"] + f["fri"] + f["sat"] + f["sun"]
    BY <2>2, <2>3, LinesOfGrid
  <2> QED
    BY <2>1, <2>3, <2>4 DEF WEEK_DAYS
<1> HIDE DEF H
<1>13. H("holiday") = hours
  BY <1>5, <1>8, <1>12, CategoriesAre
<1>14. \A c \in ToSet(Categories) \ {"holiday"} : H(c) = 0
  BY <1>12
<1> QED
  BY <1>11, <1>13, <1>14 DEF H, grid

\* The hours the engine is given can all be placed: the overtime's terms are known, and a week holds the holidays.
Placed(hours, distribution, threshold) ==
  /\ hours \in [HoursFields -> Nat] /\ hours["work.publicHolidayHours"] <= 168 * TicksPerHour
  /\ hours["work.overtimeHours"] > 0 => Distributes(distribution, hours["work.overtimeHours"])
  /\ Placeable(hours["work.overtimeHours"], threshold)

LEMMA GridsAre ==
  ASSUME NEW hours, NEW distribution, NEW threshold, Placed(hours, distribution, threshold)
  PROVE  \E week : /\ WeekGrids(hours, distribution) = IF hours["work.publicHolidayHours"] > 0
                                                       THEN <<week, HolidayGrid(hours["work.publicHolidayHours"])>> ELSE <<week>>
                   /\ LET lines == convertHourGridToLines(week, threshold)
                      IN  /\ lines.blocked = {}
                          /\ \A c \in ToSet(Categories) : lines.hours[c] \in Nat
                          /\ lines.hours["regular"] = hours["work.regularWeekdayHours"]
                          /\ lines.hours["overtime_tier_1"] + lines.hours["overtime_tier_2"] = hours["work.overtimeHours"]
                          /\ lines.hours["saturday"] = hours["work.saturdayHours"]
                          /\ lines.hours["sunday"] = hours["work.sundayHours"]
                          /\ lines.hours["holiday"] = 0
<1>1. PICK cells : cells = expandWeekdayHours(hours["work.regularWeekdayHours"], hours["work.overtimeHours"], distribution)
  OBVIOUS
<1>2. \A h \in HoursFields : hours[h] \in Nat
  BY DEF Placed
<1>3. /\ \A i \in WeekdayNumbers : cells[i] \in WorkedCells
      /\ cells[1].regular + cells[2].regular + cells[3].regular + cells[4].regular + cells[5].regular = hours["work.regularWeekdayHours"]
      /\ cells[1].overtime + cells[2].overtime + cells[3].overtime + cells[4].overtime + cells[5].overtime = hours["work.overtimeHours"]
  <2>1. hours["work.regularWeekdayHours"] \in Nat /\ hours["work.overtimeHours"] \in Nat
    BY <1>2 DEF HoursFields
  <2> QED
    BY <1>1, <2>1, CellsOfWeek DEF Placed
<1>4. PICK week : week = [day \in WEEK_DAYS |->
                            IF day = "sat" THEN [emptyHourGrid[day] EXCEPT !.regular = hours["work.saturdayHours"]]
                            ELSE IF day = "sun" THEN [emptyHourGrid[day] EXCEPT !.regular = hours["work.sundayHours"]]
                            ELSE cells[dayNumber[day]]]
  OBVIOUS
<1>5. /\ week["mon"] = cells[1] /\ week["tue"] = cells[2] /\ week["wed"] = cells[3] /\ week["thu"] = cells[4] /\ week["fri"] = cells[5]
      /\ week["sat"] = [regular |-> hours["work.saturdayHours"], overtime |-> 0, holiday |-> FALSE]
      /\ week["sun"] = [regular |-> hours["work.sundayHours"], overtime |-> 0, holiday |-> FALSE]
  BY <1>4 DEF WEEK_DAYS, dayNumber, emptyHourGrid
<1>6. WorkingDays = {"mon", "tue", "wed", "thu", "fri"}
  BY DEF WorkingDays, WEEK_DAYS
<1>7. \A i \in WeekdayNumbers : cells[i].regular \in Nat /\ cells[i].overtime \in Nat /\ cells[i].overtime <= hours["work.overtimeHours"]
  <2>1. \A i \in WeekdayNumbers : cells[i].regular \in Nat /\ cells[i].overtime \in Nat
    BY <1>3 DEF WorkedCells
  <2>2. hours["work.overtimeHours"] \in Nat
    BY <1>2 DEF HoursFields
  <2> QED
    BY <1>3, <2>1, <2>2, WeekdayNumbersAre
<1>8. \A i \in WeekdayNumbers : Placeable(cells[i].overtime, threshold)
  <2>1. hours["work.overtimeHours"] \in Nat
    BY <1>2 DEF HoursFields
  <2>2. \A i \in WeekdayNumbers : cells[i].overtime > 0 => hours["work.overtimeHours"] > 0
    BY <1>7, <2>1
  <2> QED
    BY <2>2 DEF Placeable, Placed
<1>9. \A day \in WorkingDays : week[day] \in WorkedCells /\ Placeable(week[day].overtime, threshold)
  BY <1>3, <1>5, <1>6, <1>8, WeekdayNumbersAre
<1>10. \A day \in {"sat", "sun"} : week[day] \in FlatCells(FALSE)
  <2>1. hours["work.saturdayHours"] \in Nat /\ hours["work.sundayHours"] \in Nat
    BY <1>2 DEF HoursFields
  <2>2. week["sat"] \in FlatCells(FALSE)
    BY <1>5, <2>1 DEF FlatCells
  <2>3. week["sun"] \in FlatCells(FALSE)
    BY <1>5, <2>1 DEF FlatCells
  <2> QED
    BY <2>2, <2>3
<1>11. WeekGrids(hours, distribution) = IF hours["work.publicHolidayHours"] > 0
                                        THEN <<week, HolidayGrid(hours["work.publicHolidayHours"])>> ELSE <<week>>
  BY <1>1, <1>4 DEF WeekGrids, HolidayGrid
<1>12. LET lines == convertHourGridToLines(week, threshold)
       IN  /\ lines.blocked = {}
           /\ \A c \in ToSet(Categories) : lines.hours[c] \in Nat
           /\ lines.hours["regular"] = week["mon"].regular + week["tue"].regular + week["wed"].regular
                                         + week["thu"].regular + week["fri"].regular
           /\ lines.hours["overtime_tier_1"] + lines.hours["overtime_tier_2"]
                = week["mon"].overtime + week["tue"].overtime + week["wed"].overtime + week["thu"].overtime + week["fri"].overtime
           /\ lines.hours["saturday"] = week["sat"].regular
           /\ lines.hours["sunday"] = week["sun"].regular
           /\ lines.hours["holiday"] = 0
  BY <1>9, <1>10, LinesOfWeek
<1> QED
  BY <1>3, <1>5, <1>11, <1>12

LEMMA RoundedIsInt ==
  ASSUME NEW a \in Int, NEW b \in Nat \ {0}
  PROVE  Rounded(a, b) \in Int
BY DEF Rounded

LEMMA LineAmountIsInt ==
  ASSUME NEW hours \in Int, NEW rate \in Int, NEW percent \in Int
  PROVE  LineAmount(hours, rate, percent) \in Int
<1>1. hours * rate * percent \in Int /\ 100 * TicksPerHour \in Nat \ {0}
  <2>1. hours * rate \in Int
    OBVIOUS
  <2> QED
    BY <2>1, HourAssumption
<1> QED
  BY <1>1, RoundedIsInt DEF LineAmount

LEMMA TheIsElement ==
  ASSUME NEW s, s # {}
  PROVE  The(s) \in s
BY DEF The

\* What the engine is given is made of numbers.
PricedInNumbers(input) == input.rate \in Int /\ \A c \in ToSet(Categories) : categoryPercent(c, input) \subseteq Int

\* A line of the ordinary rate.
Lines == [amount : Int, bt : {FALSE}]

\* A category was worked.
WorkedIn(hours, c) ==
  /\ c = "regular" => hours["work.regularWeekdayHours"] > 0
  /\ c \in {"overtime_tier_1", "overtime_tier_2"} => hours["work.overtimeHours"] > 0
  /\ c = "saturday" => hours["work.saturdayHours"] > 0
  /\ c = "sunday" => hours["work.sundayHours"] > 0
  /\ c = "holiday" => hours["work.publicHolidayHours"] > 0

\* The hours of the grid are those of its input, all of them and each once, and only a category that was worked can
\* lack its surcharge.
LEMMA HoursResolved ==
  ASSUME NEW input, NEW hours, NEW distribution, input.grids = WeekGrids(hours, distribution),
         Placed(hours, distribution, input.threshold), PricedInNumbers(input)
  PROVE  LET r == resolveTierAHourGrid(input)
         IN  /\ r.days = {}
             /\ r.hours_worked = Sum(hours) /\ r.hours_worked \in Nat
             /\ \A c \in r.categories : c \in ToSet(Categories) /\ categoryPercent(c, input) = {} /\ WorkedIn(hours, c)
             /\ r.categories = {} => r.hour_lines \in Seq(Lines)
<1> DEFINE threshold == resolveOvertimeTierThreshold({}, {}, input.threshold)
           weeks == [w \in DOMAIN input.grids |-> convertHourGridToLines(input.grids[w], threshold)]
           inWeeks(c) == [w \in DOMAIN weeks |-> weeks[w].hours[c]]
           total == [c \in ToSet(Categories) |-> NotNegative(Sum(inWeeks(c)))]
           days == UNION {weeks[w].blocked : w \in DOMAIN weeks}
           unpriced == {c \in ToSet(Categories) : total[c] > 0 /\ categoryPercent(c, input) = {}}
           Priced(c) == IF total[c] = 0 THEN 0 ELSE LineAmount(total[c], input.rate, 100 + The(categoryPercent(c, input)))
           holidays == hours["work.publicHolidayHours"]
<1>1. threshold = input.threshold
  BY DEF resolveOvertimeTierThreshold
<1>2. PICK week : /\ WeekGrids(hours, distribution) = IF holidays > 0 THEN <<week, HolidayGrid(holidays)>> ELSE <<week>>
                  /\ LET lines == convertHourGridToLines(week, input.threshold)
                     IN  /\ lines.blocked = {}
                         /\ \A c \in ToSet(Categories) : lines.hours[c] \in Nat
                         /\ lines.hours["regular"] = hours["work.regularWeekdayHours"]
                         /\ lines.hours["overtime_tier_1"] + lines.hours["overtime_tier_2"] = hours["work.overtimeHours"]
                         /\ lines.hours["saturday"] = hours["work.saturdayHours"]
                         /\ lines.hours["sunday"] = hours["work.sundayHours"]
                         /\ lines.hours["holiday"] = 0
  BY GridsAre
<1>3. PICK lines : lines = convertHourGridToLines(week, threshold)
  OBVIOUS
<1>4. PICK flat : flat = convertHourGridToLines(HolidayGrid(holidays), threshold)
  OBVIOUS
<1>5. \A h \in HoursFields : hours[h] \in Nat
  BY DEF Placed
<1>6. holidays \in Nat /\ holidays <= 168 * TicksPerHour
  BY <1>5 DEF Placed, HoursFields
<1>7. flat.blocked = {} /\ flat.hours["holiday"] = holidays /\ \A c \in ToSet(Categories) \ {"holiday"} : flat.hours[c] = 0
  BY <1>4, <1>6, LinesOfHolidayWeek
<1>8. /\ lines.blocked = {}
      /\ \A c \in ToSet(Categories) : lines.hours[c] \in Nat
      /\ lines.hours["regular"] = hours["work.regularWeekdayHours"]
      /\ lines.hours["overtime_tier_1"] + lines.hours["overtime_tier_2"] = hours["work.overtimeHours"]
      /\ lines.hours["saturday"] = hours["work.saturdayHours"]
      /\ lines.hours["sunday"] = hours["work.sundayHours"]
      /\ lines.hours["holiday"] = 0
  BY <1>1, <1>2, <1>3
<1>9. IF holidays > 0 THEN DOMAIN weeks = {1, 2} /\ weeks[1] = lines /\ weeks[2] = flat
      ELSE DOMAIN weeks = {1} /\ weeks[1] = lines
  <2>1. CASE holidays > 0
    <3>1. input.grids = <<week, HolidayGrid(holidays)>>
      BY <1>2, <2>1
    <3> HIDE DEF threshold
    <3> QED
      BY <1>3, <1>4, <2>1, <3>1
  <2>2. CASE ~(holidays > 0)
    <3>1. input.grids = <<week>>
      BY <1>2, <2>2
    <3> HIDE DEF threshold
    <3> QED
      BY <1>3, <2>2, <3>1
  <2> QED
    BY <2>1, <2>2
<1> HIDE DEF weeks, threshold
<1>10. days = {}
  BY <1>7, <1>8, <1>9
<1>11. \A c \in ToSet(Categories) : total[c] = IF c = "holiday" THEN holidays ELSE lines.hours[c]
  <2> SUFFICES ASSUME NEW c \in ToSet(Categories)
               PROVE  NotNegative(Sum(inWeeks(c))) = IF c = "holiday" THEN holidays ELSE lines.hours[c]
    OBVIOUS
  <2>1. PICK f : f = inWeeks(c)
    OBVIOUS
  <2>2. lines.hours[c] \in Nat /\ flat.hours[c] \in Nat /\ (c = "holiday" => lines.hours[c] = 0 /\ flat.hours[c] = holidays)
           /\ (c # "holiday" => flat.hours[c] = 0)
    BY <1>6, <1>7, <1>8
  <2>3. CASE holidays > 0
    <3>1. DOMAIN f = {1, 2} /\ f[1] = lines.hours[c] /\ f[2] = flat.hours[c]
      BY <1>9, <2>1, <2>3
    <3>2. Sum(f) = f[1] + f[2]
      BY <2>2, <3>1, SumWeeks
    <3> QED
      BY <2>1, <2>2, <3>1, <3>2 DEF NotNegative
  <2>4. CASE ~(holidays > 0)
    <3>1. DOMAIN f = {1} /\ f[1] = lines.hours[c] /\ holidays = 0
      BY <1>6, <1>9, <2>1, <2>4
    <3>2. Sum(f) = f[1]
      BY <2>2, <3>1, SumWeeks
    <3> QED
      BY <2>1, <2>2, <3>1, <3>2 DEF NotNegative
  <2> QED
    BY <2>3, <2>4
<1>12. PICK tot : tot = total
  OBVIOUS
<1>13. DOMAIN tot = ToSet(Categories) /\ \A c \in ToSet(Categories) : tot[c] \in Nat
  BY <1>6, <1>8, <1>11, <1>12
<1>14. Sum(tot) = Sum(hours) /\ Sum(hours) \in Nat
  <2>1. Sum(tot) = tot["regular"] + tot["overtime_tier_1"] + tot["overtime_tier_2"] + tot["saturday"] + tot["sunday"] + tot["holiday"]
    BY <1>13, SumCategories
  <2>2. DOMAIN hours = HoursFields
    BY DEF Placed
  <2>3. Sum(hours) = hours["work.regularWeekdayHours"] + hours["work.overtimeHours"] + hours["work.saturdayHours"]
                       + hours["work.sundayHours"] + holidays
    BY <1>5, <2>2, SumHours
  <2>4. /\ hours["work.regularWeekdayHours"] \in Nat /\ hours["work.overtimeHours"] \in Nat /\ hours["work.saturdayHours"] \in Nat
        /\ hours["work.sundayHours"] \in Nat
    BY <1>5 DEF HoursFields
  <2>5. /\ tot["regular"] = hours["work.regularWeekdayHours"] /\ tot["saturday"] = hours["work.saturdayHours"]
        /\ tot["sunday"] = hours["work.sundayHours"] /\ tot["holiday"] = holidays
        /\ tot["overtime_tier_1"] + tot["overtime_tier_2"] = hours["work.overtimeHours"]
    BY <1>8, <1>11, <1>12, CategoriesAre
  <2>6. tot["overtime_tier_1"] \in Nat /\ tot["overtime_tier_2"] \in Nat
    BY <1>13, CategoriesAre
  <2> QED
    BY <1>6, <2>1, <2>3, <2>4, <2>5, <2>6
<1>15. \A c \in ToSet(Categories) : tot[c] > 0 => WorkedIn(hours, c)
  <2>1. lines.hours["overtime_tier_1"] \in Nat /\ lines.hours["overtime_tier_2"] \in Nat
    BY <1>8, CategoriesAre
  <2>2. \A c \in {"overtime_tier_1", "overtime_tier_2"} : lines.hours[c] > 0 => hours["work.overtimeHours"] > 0
    BY <1>8, <2>1
  <2> QED
    BY <1>8, <1>11, <1>12, <2>2, CategoriesAre DEF WorkedIn
<1>16. PICK lack : lack = unpriced
  OBVIOUS
<1>17. \A c \in lack : c \in ToSet(Categories) /\ categoryPercent(c, input) = {} /\ WorkedIn(hours, c)
  BY <1>12, <1>15, <1>16
<1>18. \A c \in ToSet(Categories) : lack = {} => Priced(c) \in Int
  <2> SUFFICES ASSUME NEW c \in ToSet(Categories), lack = {}
               PROVE  Priced(c) \in Int
    OBVIOUS
  <2>1. CASE tot[c] = 0
    BY <1>12, <2>1
  <2>2. CASE tot[c] # 0
    <3>1. tot[c] > 0 /\ tot[c] \in Int
      BY <1>13, <2>2
    <3>2. categoryPercent(c, input) # {}
      BY <1>12, <1>16, <3>1
    <3>3. The(categoryPercent(c, input)) \in Int
      BY <3>2, TheIsElement DEF PricedInNumbers
    <3>4. 100 + The(categoryPercent(c, input)) \in Int /\ input.rate \in Int
      BY <3>3 DEF PricedInNumbers
    <3>5. LineAmount(tot[c], input.rate, 100 + The(categoryPercent(c, input))) \in Int
      BY <3>1, <3>4, LineAmountIsInt
    <3> QED
      BY <1>12, <2>2, <3>5
  <2> QED
    BY <2>1, <2>2
<1>19. resolveTierAHourGrid(input)
         = [days |-> days, categories |-> IF days = {} THEN unpriced ELSE {}, hours_worked |-> Sum(total),
            hour_lines |-> IF days \cup unpriced # {} THEN <<>>
                           ELSE [i \in DOMAIN Categories |-> [amount |-> Priced(Categories[i]), bt |-> FALSE]]]
  BY DEF resolveTierAHourGrid, threshold, weeks
<1>20. \A i \in DOMAIN Categories : Categories[i] \in ToSet(Categories)
  BY DEF ToSet
<1> HIDE DEF days, unpriced, total, Priced
<1>21. PICK r : r = resolveTierAHourGrid(input)
  OBVIOUS
<1>22. /\ r.days = days /\ r.categories = (IF days = {} THEN unpriced ELSE {}) /\ r.hours_worked = Sum(total)
       /\ r.hour_lines = (IF days \cup unpriced # {} THEN <<>>
                          ELSE [i \in DOMAIN Categories |-> [amount |-> Priced(Categories[i]), bt |-> FALSE]])
  BY <1>19, <1>21
<1>23. r.days = {} /\ r.hours_worked = Sum(hours) /\ r.hours_worked \in Nat /\ r.categories = lack
  BY <1>10, <1>12, <1>14, <1>16, <1>22
<1>24. ASSUME lack = {}
       PROVE  r.hour_lines \in Seq(Lines)
  <2>1. r.hour_lines = [i \in DOMAIN Categories |-> [amount |-> Priced(Categories[i]), bt |-> FALSE]]
    BY <1>10, <1>16, <1>22, <1>24
  <2>2. DOMAIN Categories = 1 .. 6
    BY DEF Categories
  <2>3. r.hour_lines \in [1 .. 6 -> Lines]
    BY <1>18, <1>20, <1>24, <2>1, <2>2 DEF Lines
  <2> QED
    BY <2>3, SeqDef
<1> QED
  BY <1>17, <1>21, <1>23, <1>24

(***************************************************************************)
(* A period whose every amount is known is complete                        *)
(***************************************************************************)
Known1 == {{v} : v \in Int}

LEMMA SumIsInt ==
  ASSUME NEW s \in Seq(Int)
  PROVE  Sum(s) \in Int
<1>1. DOMAIN s = 1 .. Len(s) /\ Len(s) \in Nat /\ \A i \in 1 .. Len(s) : s[i] \in Int
  BY LenProperties
<1>2. Numbers(s, DOMAIN s)
  BY <1>1, FS_Interval DEF Numbers
<1> QED
  BY <1>2, SumFirst, SumIs

LEMMA KnownSum ==
  ASSUME NEW s \in Seq(Known1)
  PROVE  \E n \in Int : sumKnownAmounts(s) = {n}
<1>1. DOMAIN s = 1 .. Len(s) /\ Len(s) \in Nat /\ \A i \in 1 .. Len(s) : s[i] \in Known1
  BY LenProperties
<1>2. PICK a : a = [i \in DOMAIN s |-> The(s[i])]
  OBVIOUS
<1>3. \A i \in DOMAIN s : s[i] # {} /\ The(s[i]) \in Int
  <2> SUFFICES ASSUME NEW i \in DOMAIN s
               PROVE  s[i] # {} /\ The(s[i]) \in Int
    OBVIOUS
  <2>1. PICK v \in Int : s[i] = {v}
    BY <1>1 DEF Known1
  <2> QED
    BY <2>1, TheOnly
<1>4. Numbers(a, DOMAIN a)
  BY <1>1, <1>2, <1>3, FS_Interval DEF Numbers
<1>5. Sum(a) \in Int
  BY <1>4, SumFirst, SumIs
<1>6. sumKnownAmounts(s) = {Sum(a)}
  BY <1>2, <1>3 DEF sumKnownAmounts
<1> QED
  BY <1>5, <1>6

LEMMA ProductIsInt ==
  ASSUME NEW a \in Int, NEW b \in Int
  PROVE  a * b \in Int
OBVIOUS

LEMMA TaxIsInt ==
  ASSUME NEW annual \in Int
  PROVE  progressiveTax(annual) \in Int
<1> DEFINE part(i) == LET b == Rates.brackets[i] IN IF annual <= b.from THEN 0 ELSE (Lesser(annual, b.to) - b.from) * b.percent
<1>1. PICK B : B = [from : Nat, to : Nat, percent : Nat]
  OBVIOUS
<1>2. DOMAIN Rates.brackets = 1 .. Len(Rates.brackets) /\ Len(Rates.brackets) \in Nat
         /\ \A i \in DOMAIN Rates.brackets : Rates.brackets[i] \in B
  <2>1. PICK brackets : brackets = Rates.brackets
    OBVIOUS
  <2>2. brackets \in Seq(B)
    BY <1>1, <2>1, RatesAssumption
  <2>3. DOMAIN brackets = 1 .. Len(brackets) /\ Len(brackets) \in Nat /\ \A i \in 1 .. Len(brackets) : brackets[i] \in B
    BY <2>2, LenProperties
  <2> QED
    BY <2>1, <2>3
<1>3. \A i \in DOMAIN Rates.brackets : part(i) \in Int
  <2> SUFFICES ASSUME NEW i \in DOMAIN Rates.brackets
               PROVE  part(i) \in Int
    OBVIOUS
  <2>1. PICK b : b = Rates.brackets[i]
    OBVIOUS
  <2>2. b.from \in Int /\ b.to \in Int /\ b.percent \in Int
    BY <1>1, <1>2, <2>1
  <2>3. Lesser(annual, b.to) - b.from \in Int
    BY <2>2 DEF Lesser
  <2>4. (Lesser(annual, b.to) - b.from) * b.percent \in Int
    BY <2>2, <2>3, ProductIsInt
  <2> QED
    BY <2>1, <2>4
<1>4. PICK f : f = [i \in DOMAIN Rates.brackets |-> part(i)]
  OBVIOUS
<1>5. progressiveTax(annual) = Sum(f)
  BY <1>4 DEF progressiveTax
<1> HIDE DEF part
<1>6. Numbers(f, DOMAIN f)
  BY <1>2, <1>3, <1>4, FS_Interval DEF Numbers
<1> QED
  BY <1>5, <1>6, SumFirst, SumIs

LEMMA CreditsAreInt ==
  ASSUME NEW annual \in Int
  PROVE  PhasedOut(Rates.algemene, annual) \in Int /\ arbeidskorting(annual) \in Int
<1>1. \A credit : credit.most \in Int /\ credit.start \in Int /\ credit.percent \in Int => PhasedOut(credit, annual) \in Int
  <2> SUFFICES ASSUME NEW credit, credit.most \in Int, credit.start \in Int, credit.percent \in Int
               PROVE  PhasedOut(credit, annual) \in Int
    OBVIOUS
  <2>1. (annual - credit.start) * credit.percent \in Int
    BY ProductIsInt
  <2>2. PICK n \in Int : n = (annual - credit.start) * credit.percent
    BY <2>1
  <2>3. credit.most * 100 - n \in Int
    OBVIOUS
  <2> QED
    BY <2>2, <2>3 DEF PhasedOut, NotNegative
<1>2. PICK r : r = Rates.arbeidskorting
  OBVIOUS
<1>3. r.most \in Int /\ r.start \in Int /\ r.percent \in Int /\ r.top \in Int /\ r.buildup \in Int
  BY <1>2, RatesAssumption
<1>4. PhasedOut(r, annual) \in Int
  BY <1>1, <1>3
<1>5. Lesser(NotNegative(annual), r.top) \in Int
  BY <1>3 DEF Lesser, NotNegative
<1>6. Lesser(NotNegative(annual), r.top) * r.buildup \in Int
  BY <1>3, <1>5, ProductIsInt
<1>7. arbeidskorting(annual) \in Int
  BY <1>2, <1>4, <1>6 DEF arbeidskorting
<1>8. PICK g : g = Rates.algemene
  OBVIOUS
<1>9. g.most \in Int /\ g.start \in Int /\ g.percent \in Int
  BY <1>8, RatesAssumption
<1> QED
  BY <1>1, <1>7, <1>8, <1>9

\* A period in which nothing is unknown and nothing is taxed at the special rate.
PlainPeriod(p) ==
  /\ p.hour_lines \in Seq(Lines) /\ p.pre_tax \in Seq(Known1) /\ p.post_tax \in Seq(Known1)
  /\ p.et = {} /\ p.bt_percent = {} /\ p.additions \in Seq(Int) /\ p.deductions = <<>> /\ p.adjustments = <<>>

LEMMA PeriodIsComplete ==
  ASSUME NEW p, PlainPeriod(p), NEW credit \in BOOLEAN
  PROVE  LET o == computePayslipPeriod(p, credit)
         IN  o.complete = TRUE /\ o.gross_total \in Int /\ o.payout \in Int
<1> DEFINE btGross == Sum([i \in DOMAIN p.hour_lines |-> IF p.hour_lines[i].bt THEN p.hour_lines[i].amount ELSE 0])
           preTax == IF PreTaxSum(p) = {} THEN 0 ELSE The(PreTaxSum(p))
           table == GrossTotal(p) - btGross - preTax - EtReduction(p)
           annual == table * Rates.multiplier
           PerPeriod(annualTax) == Rounded(annualTax, 100 * Rates.multiplier)
           korting == IF credit THEN PerPeriod(PhasedOut(Rates.algemene, annual)) + PerPeriod(arbeidskorting(annual)) ELSE 0
           tableTax == NotNegative(PerPeriod(progressiveTax(annual)) - korting)
           btTax == IF p.bt_percent # {} /\ btGross > 0 THEN Rounded(btGross * The(p.bt_percent), 100) ELSE 0
           base == table + btGross
           complete == PreTaxSum(p) # {} /\ PostTaxSum(p) # {} /\ ~(btGross > 0 /\ p.bt_percent = {})
           wageNet == base - tableTax - btTax - (IF complete THEN The(PostTaxSum(p)) ELSE 0)
           periodNet == wageNet + Sum(p.additions) + Sum(EtReimbursements(p)) - Sum(p.deductions)
<1>1. /\ DOMAIN p.hour_lines = 1 .. Len(p.hour_lines) /\ Len(p.hour_lines) \in Nat
      /\ \A i \in DOMAIN p.hour_lines : p.hour_lines[i].amount \in Int /\ p.hour_lines[i].bt = FALSE
  <2>1. \A l \in Lines : l.amount \in Int /\ l.bt = FALSE
    BY DEF Lines
  <2> QED
    BY <2>1, LenProperties DEF PlainPeriod
<1>2. btGross = 0
  <2>1. PICK f : f = [i \in DOMAIN p.hour_lines |-> IF p.hour_lines[i].bt THEN p.hour_lines[i].amount ELSE 0]
    OBVIOUS
  <2>2. \A i \in DOMAIN f : f[i] = 0
    BY <1>1, <2>1
  <2>3. DOMAIN f = 1 .. Len(p.hour_lines)
    BY <1>1, <2>1
  <2>4. IsFiniteSet(DOMAIN f)
    BY <1>1, <2>3, FS_Interval
  <2>5. Numbers(f, DOMAIN f)
    BY <2>2, <2>4 DEF Numbers
  <2> QED
    BY <2>1, <2>2, <2>5, SumSign, SumIs
<1>3. GrossTotal(p) \in Int
  <2>1. PICK f : f = AmountOf(p.hour_lines)
    OBVIOUS
  <2>2. DOMAIN f = 1 .. Len(p.hour_lines) /\ \A i \in DOMAIN f : f[i] \in Int
    BY <1>1, <2>1 DEF AmountOf
  <2>3. IsFiniteSet(DOMAIN f)
    BY <1>1, <2>2, FS_Interval
  <2>4. Numbers(f, DOMAIN f)
    BY <2>2, <2>3 DEF Numbers
  <2> QED
    BY <2>1, <2>4, SumFirst, SumIs DEF GrossTotal
<1>4. PICK pre \in Int : PreTaxSum(p) = {pre}
  BY KnownSum DEF PreTaxSum, PlainPeriod
<1>5. PICK post \in Int : PostTaxSum(p) = {post}
  BY KnownSum DEF PostTaxSum, PlainPeriod
<1>6. preTax = pre /\ The(PostTaxSum(p)) = post /\ {pre} # {} /\ {post} # {}
  BY <1>4, <1>5, TheOnly
<1>7. EtReduction(p) = 0 /\ EtReimbursements(p) = <<>>
  BY DEF EtReduction, EtReimbursements, PlainPeriod
<1> HIDE DEF btGross, preTax
<1>8. table \in Int
  BY <1>2, <1>3, <1>6, <1>7
<1> HIDE DEF table
<1>9. annual \in Int /\ 100 * Rates.multiplier \in Nat \ {0}
  <2>1. Rates.multiplier \in Nat \ {0}
    BY RatesAssumption
  <2> QED
    BY <1>8, <2>1, ProductIsInt
<1> HIDE DEF annual
<1>10. \A n \in Int : PerPeriod(n) \in Int
  BY <1>9, RoundedIsInt
<1>11. PerPeriod(PhasedOut(Rates.algemene, annual)) \in Int /\ PerPeriod(arbeidskorting(annual)) \in Int
          /\ PerPeriod(progressiveTax(annual)) \in Int
  BY <1>9, <1>10, CreditsAreInt, TaxIsInt
<1> HIDE DEF PerPeriod
<1>12. tableTax \in Int
  BY <1>11 DEF NotNegative
<1> HIDE DEF tableTax
<1>13. btTax = 0
  BY DEF PlainPeriod
<1> HIDE DEF btTax
<1>14. complete = TRUE
  BY <1>2, <1>4, <1>5, <1>6
<1> HIDE DEF complete
<1>15. wageNet \in Int
  BY <1>2, <1>6, <1>8, <1>12, <1>13, <1>14
<1> HIDE DEF wageNet
<1>16. Sum(p.additions) \in Int /\ Sum(EtReimbursements(p)) \in Int /\ Sum(p.deductions) \in Int /\ Sum(p.adjustments) \in Int
  BY <1>7, SumIsInt, EmptySeq DEF PlainPeriod
<1>17. periodNet \in Int
  BY <1>15, <1>16
<1> HIDE DEF periodNet
<1>18. LET o == computePayslipPeriod(p, credit)
       IN  o.complete = complete /\ o.gross_total = GrossTotal(p) /\ o.payout = periodNet + Sum(p.adjustments)
  BY DEF computePayslipPeriod, complete, periodNet, wageNet, btTax, tableTax, PerPeriod, annual, table, preTax, btGross
<1> QED
  BY <1>3, <1>14, <1>16, <1>17, <1>18

(***************************************************************************)
(* What the validator has checked of a field                               *)
(***************************************************************************)
LEMMA MaxIs ==
  ASSUME NEW S, S \subseteq Int, NEW m \in S, \A y \in S : m >= y
  PROVE  Max(S) = m
<1>1. \E x \in S : \A y \in S : x >= y
  OBVIOUS
<1>2. PICK n : n = Max(S)
  OBVIOUS
<1>3. n \in S /\ \A y \in S : n >= y
  BY <1>1, <1>2 DEF Max
<1>4. n \in Int /\ m \in Int /\ n >= m /\ m >= n
  BY <1>3
<1> QED
  BY <1>2, <1>4

LEMMA HighIs ==
  ASSUME NEW given
  PROVE  /\ given.state = "known" /\ given.value \in Int => High(given) = NotNegative(given.value)
         /\ given.state \in {"missing", "unknown", "alternatives"} => High(given) = 0
         /\ given.state = "range" /\ given.low \in Nat /\ given.high \in Nat /\ given.low <= given.high => High(given) = given.high
<1>1. ASSUME given.state = "known", given.value \in Int
      PROVE  High(given) = NotNegative(given.value)
  <2>1. PICK S : S = numericEndpoints(given) \cup {0}
    OBVIOUS
  <2>2. S = {given.value, 0}
    BY <1>1, <2>1 DEF numericEndpoints
  <2>3. NotNegative(given.value) \in S /\ S \subseteq Int /\ \A y \in S : NotNegative(given.value) >= y
    BY <1>1, <2>2 DEF NotNegative
  <2> QED
    BY <2>1, <2>3, MaxIs DEF High
<1>2. ASSUME given.state \in {"missing", "unknown", "alternatives"}
      PROVE  High(given) = 0
  <2>1. numericEndpoints(given) \cup {0} = {0}
    BY <1>2 DEF numericEndpoints
  <2> QED
    BY <2>1, MaxIs DEF High
<1>3. ASSUME given.state = "range", given.low \in Nat, given.high \in Nat, given.low <= given.high
      PROVE  High(given) = given.high
  <2>1. PICK S : S = numericEndpoints(given) \cup {0}
    OBVIOUS
  <2>2. S = {given.low, given.high, 0}
    BY <1>3, <2>1 DEF numericEndpoints
  <2>3. given.high \in S /\ S \subseteq Int /\ \A y \in S : given.high >= y
    BY <1>3, <2>2
  <2> QED
    BY <2>1, <2>3, MaxIs DEF High
<1> QED
  BY <1>1, <1>2, <1>3

LEMMA PercentFieldsAre ==
  PercentFields = {"pay.saturdayPremiumPercent", "pay.sundayPremiumPercent", "pay.publicHolidayPremiumPercent",
                   "pay.overtime.tier1Percent", "pay.overtime.tier2Percent"}
<1>1. {PremiumOf[h] : h \in DOMAIN PremiumOf}
        = {"pay.saturdayPremiumPercent", "pay.sundayPremiumPercent", "pay.publicHolidayPremiumPercent"}
  BY DEF PremiumOf
<1> QED
  BY <1>1 DEF PercentFields

LEMMA NumberPathsAre ==
  /\ NumberPaths = {"work.regularWeekdayHours", "work.overtimeHours", "work.saturdayHours", "work.sundayHours", "work.publicHolidayHours",
                    "pay.saturdayPremiumPercent", "pay.sundayPremiumPercent", "pay.publicHolidayPremiumPercent",
                    "pay.overtime.tier1Percent", "pay.overtime.tier2Percent",
                    "deductions.entered.pension", "deductions.entered.paww", "deductions.entered.sectorPremium",
                    "deductions.entered.postTaxOther", "pay.overtime.thresholdHoursPerDay", "pay.hourlyRate",
                    "extras.vakantiegeld.percent", "extras.travelAllowance"}
  /\ DOMAIN ChoiceFields = {"tax.loonheffingskorting", "deductions.mode", "extras.vakantiegeld.mode"}
  /\ "work.overtimeDistribution" \notin NumberPaths \cup DOMAIN ChoiceFields
  /\ \A p \in DOMAIN ChoiceFields : p \notin NumberPaths
<1>1. NumberPaths = {"work.regularWeekdayHours", "work.overtimeHours", "work.saturdayHours", "work.sundayHours", "work.publicHolidayHours",
                     "pay.saturdayPremiumPercent", "pay.sundayPremiumPercent", "pay.publicHolidayPremiumPercent",
                     "pay.overtime.tier1Percent", "pay.overtime.tier2Percent",
                     "deductions.entered.pension", "deductions.entered.paww", "deductions.entered.sectorPremium",
                     "deductions.entered.postTaxOther", "pay.overtime.thresholdHoursPerDay", "pay.hourlyRate",
                     "extras.vakantiegeld.percent", "extras.travelAllowance"}
  BY PercentFieldsAre DEF NumberPaths, HoursFields, EnteredFields, EnteredNeeded
<1>2. DOMAIN ChoiceFields = {"tax.loonheffingskorting", "deductions.mode", "extras.vakantiegeld.mode"}
  BY DEF ChoiceFields
<1> QED
  BY <1>1, <1>2

\* A node is of one of the five kinds, and has what its kind has.
LEMMA NodeShape ==
  ASSUME NEW p \in FieldPaths, NEW given \in NodesFor(p)
  PROVE  /\ given.state \in {"known", "unknown", "conflict", "range", "alternatives"}
         /\ given.state = "known" => given.value \in ValuesFor(p) /\ given.source \in SCENARIO_VALUE_SOURCES
         /\ given.state = "range" => p \in NumberPaths /\ given.low \in Int /\ given.high \in Int /\ given.source \in SCENARIO_VALUE_SOURCES
         /\ given.state = "alternatives" => p \notin NumberPaths /\ given.options \in Seq(ValuesFor(p)) /\ given.source \in SCENARIO_VALUE_SOURCES
<1>1. PICK V : V = ValuesFor(p)
  OBVIOUS
<1>2. CASE p \in NumberPaths
  <2>1. given \in [state : {"known"}, value : V, source : SCENARIO_VALUE_SOURCES] \cup [state : {"unknown"}]
                 \cup [state : {"conflict"}, candidates : SUBSET [value : V, source : SCENARIO_VALUE_SOURCES]]
                 \cup [state : {"range"}, low : Int, high : Int, source : SCENARIO_VALUE_SOURCES]
    BY <1>1, <1>2 DEF NodesFor
  <2> QED
    BY <1>1, <1>2, <2>1
<1>3. CASE p \notin NumberPaths
  <2>1. given \in [state : {"known"}, value : V, source : SCENARIO_VALUE_SOURCES] \cup [state : {"unknown"}]
                 \cup [state : {"conflict"}, candidates : SUBSET [value : V, source : SCENARIO_VALUE_SOURCES]]
                 \cup [state : {"alternatives"}, options : Seq(V), source : SCENARIO_VALUE_SOURCES]
    BY <1>1, <1>3 DEF NodesFor
  <2> QED
    BY <1>1, <1>3, <2>1
<1> QED
  BY <1>2, <1>3

\* A value within the limits of its field.
SoundValue(p, x) ==
  IF p \in NumberPaths THEN x \in Nat /\ x <= NumberFields[p].most
  ELSE IF p = "work.overtimeDistribution" THEN
    /\ x \in Distributions
    /\ x.kind = "even" => x.days \in WeekdayNumbers
    /\ x.kind = "explicit" => \A i \in WeekdayNumbers : x.byDay[i] >= 0
  ELSE x \in ChoiceFields[p]

LEMMA CheckedNumber ==
  ASSUME NEW p \in NumberPaths, NEW x \in Int, checkNumber(p, x) = {}
  PROVE  SoundValue(p, x)
<1>1. x >= 0 /\ x <= NumberFields[p].most /\ ~(p = "pay.hourlyRate" /\ x = 0)
  BY DEF checkNumber
<1> QED
  BY <1>1 DEF SoundValue

LEMMA CheckedDistribution ==
  ASSUME NEW p, p = "work.overtimeDistribution", NEW x \in Distributions, checkDistribution(p, x) = {}
  PROVE  SoundValue(p, x)
<1>1. x.kind = "even" => x.days \in WeekdayNumbers
  BY DEF checkDistribution
<1>2. ASSUME x.kind = "explicit", NEW i \in WeekdayNumbers, ~(x.byDay[i] >= 0)
      PROVE  FALSE
  <2>1. x.byDay[i] \in Int
    BY <1>2 DEF Distributions
  <2>2. x.byDay[i] < 0
    BY <1>2, <2>1
  <2>3. Issue("negative_hours", p, <<i, x.byDay[i]>>) \in checkDistribution(p, x)
    BY <1>2, <2>2 DEF checkDistribution
  <2> QED
    BY <2>3
<1>3. p \notin NumberPaths
  BY NumberPathsAre
<1> QED
  BY <1>1, <1>2, <1>3 DEF SoundValue

LEMMA CheckedValue ==
  ASSUME NEW p \in FieldPaths, NEW x \in ValuesFor(p), checkValue(p, x) = {}
  PROVE  SoundValue(p, x)
<1>1. DOMAIN NumberFields = NumberPaths
  BY DEF NumberFields
<1>2. CASE p \in NumberPaths
  BY <1>1, <1>2, CheckedNumber DEF checkValue, ValuesFor
<1>3. CASE p = "work.overtimeDistribution"
  BY <1>1, <1>3, NumberPathsAre, CheckedDistribution DEF checkValue, ValuesFor
<1>4. CASE p \in DOMAIN ChoiceFields
  <2>1. p \notin NumberPaths /\ p # "work.overtimeDistribution"
    BY <1>4, NumberPathsAre
  <2>2. checkValue(p, x) = When(x \notin ChoiceFields[p], Issue("invalid_choice_value", p, <<>>))
    BY <1>1, <2>1 DEF checkValue
  <2> QED
    BY <2>1, <2>2 DEF When, SoundValue
<1> QED
  BY <1>2, <1>3, <1>4 DEF FieldPaths

LEMMA CheckedField ==
  ASSUME NEW p \in FieldPaths, NEW given \in NodesFor(p), checkField(p, given) = {}
  PROVE  /\ given.state = "known" => SoundValue(p, given.value)
         /\ given.state = "range" => SoundValue(p, given.low) /\ SoundValue(p, given.high) /\ given.low <= given.high
         /\ given.state = "alternatives" =>
              /\ Len(given.options) \in Nat /\ Len(given.options) >= 2 /\ DOMAIN given.options = 1 .. Len(given.options)
              /\ \A i \in DOMAIN given.options : SoundValue(p, given.options[i])
<1>1. ASSUME given.state = "known"
      PROVE  SoundValue(p, given.value)
  <2>1. checkValue(p, given.value) = {}
    BY <1>1 DEF checkField
  <2> QED
    BY <1>1, <2>1, NodeShape, CheckedValue
<1>2. ASSUME given.state = "range"
      PROVE  SoundValue(p, given.low) /\ SoundValue(p, given.high) /\ given.low <= given.high
  <2>1. checkNumber(p, given.low) = {} /\ checkNumber(p, given.high) = {}
           /\ When(given.low > given.high, Issue("range_inverted", p, <<given.low, given.high>>)) = {}
    BY <1>2 DEF checkField
  <2>2. p \in NumberPaths /\ given.low \in Int /\ given.high \in Int
    BY <1>2, NodeShape
  <2>3. ~(given.low > given.high)
    BY <2>1 DEF When
  <2> QED
    BY <2>1, <2>2, <2>3, CheckedNumber
<1>3. ASSUME given.state = "alternatives"
      PROVE  /\ Len(given.options) \in Nat /\ Len(given.options) >= 2 /\ DOMAIN given.options = 1 .. Len(given.options)
             /\ \A i \in DOMAIN given.options : SoundValue(p, given.options[i])
  <2>1. PICK options : options = given.options
    OBVIOUS
  <2>2. options \in Seq(ValuesFor(p))
    BY <1>3, <2>1, NodeShape
  <2>3. Len(options) \in Nat /\ DOMAIN options = 1 .. Len(options) /\ \A i \in DOMAIN options : options[i] \in ValuesFor(p)
    BY <2>2, LenProperties
  <2>4. checkField(p, given) = IF Len(options) < 2 THEN {Issue("alternatives_too_few", p, <<>>)}
                              ELSE UNION {checkValue(p, v) : v \in ToSet(options)}
    BY <1>3, <2>1 DEF checkField
  <2>5. ~(Len(options) < 2) /\ UNION {checkValue(p, v) : v \in ToSet(options)} = {}
    BY <2>4
  <2>6. ASSUME NEW i \in DOMAIN options
        PROVE  SoundValue(p, options[i])
    <3>1. options[i] \in ToSet(options)
      BY DEF ToSet
    <3>2. checkValue(p, options[i]) = {}
      BY <2>5, <3>1
    <3> QED
      BY <2>3, <3>2, CheckedValue
  <2> QED
    BY <2>1, <2>3, <2>5, <2>6
<1> QED
  BY <1>1, <1>2, <1>3

\* What a scenario with no issue is: each of its fields is sound, and what is worked over is what is spread over the days.
LEMMA CheckedScenario ==
  ASSUME NEW s, IsScenario(s), IssuesOf(s) = {}
  PROVE  /\ DOMAIN s.fields \subseteq FieldPaths
         /\ \A p \in DOMAIN s.fields : s.fields[p] \in NodesFor(p) /\ checkField(p, s.fields[p]) = {}
         /\ \A d \in knownDistribution(s) :
              d.kind = "explicit" /\ At(s, "work.overtimeHours").state = "known" => Sum(d.byDay) = At(s, "work.overtimeHours").value
<1>1. FieldIssues(s) = {} /\ crossChecks(s) = {}
  BY DEF IssuesOf, IssuesBeside
<1>2. DOMAIN s.fields \subseteq FieldPaths /\ \A p \in DOMAIN s.fields : s.fields[p] \in NodesFor(p)
  BY DEF IsScenario, WellWritten
<1>3. \A p \in DOMAIN s.fields : checkField(p, s.fields[p]) = {}
  BY <1>1 DEF FieldIssues
<1>4. ASSUME NEW d \in knownDistribution(s), d.kind = "explicit", At(s, "work.overtimeHours").state = "known",
             Sum(d.byDay) # At(s, "work.overtimeHours").value
      PROVE  FALSE
  <2>1. Issue("overtime_distribution_mismatch", "work.overtimeDistribution", <<Sum(d.byDay), At(s, "work.overtimeHours").value>>)
          \in crossChecks(s)
    BY <1>4 DEF crossChecks
  <2> QED
    BY <1>1, <2>1
<1> QED
  BY <1>2, <1>3, <1>4

(***************************************************************************)
(* The engine input made of a sound scenario                               *)
(***************************************************************************)
Sound(v) == IsScenario(v) /\ IssuesOf(v) = {}
Mapped(v) == Unmet(v, NeededByEngine(v)) = {} /\ Unread(v, ReadByEngine(v)) = {}
HoursRead(v) == [h \in HoursFields |-> OrZero(Read(v, h))]
ReadFor(v, h, path) == IF HoursRead(v)[h] > 0 THEN Read(v, path) ELSE {}

LEMMA MappedReads ==
  ASSUME NEW v, Mapped(v)
  PROVE  /\ \A p \in NeededByEngine(v) : At(v, p).state = "known"
         /\ \A p \in ReadByEngine(v) : At(v, p).state \in {"missing", "known"}
<1>1. \A paths : Unread(v, paths) = {} => \A p \in paths : At(v, p).state \in {"missing", "known"}
  BY DEF Unread
<1>2. \A paths : Unmet(v, paths) = {} => \A p \in paths : At(v, p).state = "known"
  BY <1>1 DEF Unmet
<1> QED
  BY <1>1, <1>2 DEF Mapped

LEMMA SoundRead ==
  ASSUME NEW v, Sound(v), NEW p \in FieldPaths
  PROVE  /\ At(v, p).state = "known" => Read(v, p) = {At(v, p).value} /\ SoundValue(p, At(v, p).value) /\ p \in DOMAIN v.fields
         /\ At(v, p).state # "known" => Read(v, p) = {}
         /\ \A x \in Read(v, p) : At(v, p).state = "known" /\ At(v, p).value = x /\ Read(v, p) = {x} /\ SoundValue(p, x)
<1>1. ASSUME At(v, p).state = "known"
      PROVE  Read(v, p) = {At(v, p).value} /\ SoundValue(p, At(v, p).value) /\ p \in DOMAIN v.fields
  <2>1. p \in DOMAIN v.fields
    BY <1>1 DEF At
  <2>2. PICK given : given = v.fields[p]
    OBVIOUS
  <2>3. At(v, p) = given
    BY <2>1, <2>2 DEF At
  <2>4. given \in NodesFor(p) /\ checkField(p, given) = {}
    BY <2>1, <2>2, CheckedScenario DEF Sound
  <2>5. SoundValue(p, given.value)
    BY <1>1, <2>3, <2>4, CheckedField
  <2> QED
    BY <1>1, <2>1, <2>3, <2>5 DEF Read
<1>2. At(v, p).state # "known" => Read(v, p) = {}
  BY DEF Read
<1> QED
  BY <1>1, <1>2

LEMMA NumberRead ==
  ASSUME NEW v, Sound(v), NEW p \in NumberPaths
  PROVE  /\ Read(v, p) \subseteq Nat
         /\ OrZero(Read(v, p)) \in Nat /\ OrZero(Read(v, p)) <= NumberFields[p].most
         /\ OrZero(Read(v, p)) > 0 <=> \E x \in Read(v, p) : x > 0
         /\ At(v, p).state \in {"missing", "known"} => OrZero(Read(v, p)) = High(At(v, p))
<1>1. p \in FieldPaths
  BY DEF FieldPaths
<1>2. 0 <= NumberFields[p].most /\ NumberFields[p].most \in Nat
  BY HourAssumption DEF NumberFields
<1>3. CASE Read(v, p) = {}
  <2>1. OrZero(Read(v, p)) = 0
    BY <1>3 DEF OrZero
  <2>2. At(v, p).state # "known"
    BY <1>1, <1>3, SoundRead
  <2> QED
    BY <1>2, <1>3, <2>1, <2>2, HighIs
<1>4. CASE Read(v, p) # {}
  <2>1. PICK x \in Read(v, p) : TRUE
    BY <1>4
  <2>2. At(v, p).state = "known" /\ At(v, p).value = x /\ Read(v, p) = {x} /\ SoundValue(p, x)
    BY <1>1, <2>1, SoundRead
  <2>3. x \in Nat /\ x <= NumberFields[p].most
    BY <2>2 DEF SoundValue
  <2>4. OrZero(Read(v, p)) = x
    BY <2>2, TheOnly DEF OrZero
  <2>5. High(At(v, p)) = x
    BY <2>2, <2>3, HighIs DEF NotNegative
  <2> QED
    BY <2>2, <2>3, <2>4, <2>5
<1> QED
  BY <1>3, <1>4

LEMMA InputIs ==
  ASSUME NEW v
  PROVE  LET input == EngineInput(v)
         IN  /\ input.rate = The(Read(v, "pay.hourlyRate"))
             /\ input.grids = WeekGrids(HoursRead(v), ReadFor(v, "work.overtimeHours", "work.overtimeDistribution"))
             /\ input.threshold = ReadFor(v, "work.overtimeHours", "pay.overtime.thresholdHoursPerDay")
             /\ input.tier1 = ReadFor(v, "work.overtimeHours", "pay.overtime.tier1Percent")
             /\ input.tier2 = ReadFor(v, "work.overtimeHours", "pay.overtime.tier2Percent")
             /\ input.saturday = ReadFor(v, "work.saturdayHours", "pay.saturdayPremiumPercent")
             /\ input.sunday = ReadFor(v, "work.sundayHours", "pay.sundayPremiumPercent")
             /\ input.holiday = ReadFor(v, "work.publicHolidayHours", "pay.publicHolidayPremiumPercent")
             /\ input.surcharges = <<>>
             /\ input.credit = (Read(v, "tax.loonheffingskorting") = {"applied"})
             /\ input.travel = OrZero(Read(v, "extras.travelAllowance"))
             /\ input.vakantiegeld.mode \in {"accruing", "none"}
             /\ input.deductions.mode = The(Read(v, "deductions.mode"))
<1>1. /\ PremiumOf["work.saturdayHours"] = "pay.saturdayPremiumPercent"
      /\ PremiumOf["work.sundayHours"] = "pay.sundayPremiumPercent"
      /\ PremiumOf["work.publicHolidayHours"] = "pay.publicHolidayPremiumPercent"
  BY DEF PremiumOf
<1> QED
  BY <1>1 DEF EngineInput, HoursRead, ReadFor

\* What is worked is needed with its terms.
LEMMA NeedsOfHours ==
  ASSUME NEW v
  PROVE  /\ {"pay.hourlyRate", "tax.loonheffingskorting", "deductions.mode"} \subseteq NeededByEngine(v)
         /\ \A h \in DOMAIN PremiumOf : (\E x \in Read(v, h) : x > 0) => PremiumOf[h] \in NeededByEngine(v)
         /\ (\E x \in Read(v, "work.overtimeHours") : x > 0) => OvertimeTerms \subseteq NeededByEngine(v)
BY DEF NeededByEngine

LEMMA HoursAreRead ==
  ASSUME NEW v, Sound(v), Mapped(v)
  PROVE  /\ HoursRead(v) \in [HoursFields -> Nat]
         /\ \A h \in HoursFields : HoursRead(v)[h] = High(At(v, h)) /\ (HoursRead(v)[h] > 0 => \E x \in Read(v, h) : x > 0)
         /\ HoursRead(v)["work.publicHolidayHours"] <= 168 * TicksPerHour
<1>1. HoursFields \subseteq NumberPaths /\ HoursFields \subseteq ReadByEngine(v)
  BY DEF NumberPaths, ReadByEngine
<1>2. \A h \in HoursFields : At(v, h).state \in {"missing", "known"}
  BY <1>1, MappedReads
<1>3. \A h \in HoursFields : /\ OrZero(Read(v, h)) \in Nat /\ OrZero(Read(v, h)) <= NumberFields[h].most
                             /\ OrZero(Read(v, h)) = High(At(v, h))
                             /\ OrZero(Read(v, h)) > 0 => \E x \in Read(v, h) : x > 0
  BY <1>1, <1>2, NumberRead
<1>4. "work.publicHolidayHours" \in HoursFields /\ NumberFields["work.publicHolidayHours"].most = 168 * TicksPerHour
  BY <1>1 DEF HoursFields, NumberFields
<1> QED
  BY <1>3, <1>4 DEF HoursRead

LEMMA OvertimeIsPlaced ==
  ASSUME NEW v, Sound(v), Mapped(v), HoursRead(v)["work.overtimeHours"] > 0
  PROVE  /\ Distributes(Read(v, "work.overtimeDistribution"), HoursRead(v)["work.overtimeHours"])
         /\ \E t \in Nat : Read(v, "pay.overtime.thresholdHoursPerDay") = {t}
         /\ Read(v, "pay.overtime.tier1Percent") # {}
<1> DEFINE overtime == HoursRead(v)["work.overtimeHours"]
<1>1. "work.overtimeHours" \in HoursFields /\ "work.overtimeHours" \in NumberPaths
  BY DEF HoursFields, NumberPaths
<1>2. PICK x \in Read(v, "work.overtimeHours") : x > 0
  BY <1>1, HoursAreRead
<1>3. At(v, "work.overtimeHours").state = "known" /\ At(v, "work.overtimeHours").value = x
         /\ Read(v, "work.overtimeHours") = {x}
  BY <1>1, SoundRead DEF FieldPaths
<1>4. overtime = x
  BY <1>1, <1>2, <1>3, TheOnly DEF HoursRead, OrZero
<1>5. \A p \in OvertimeTerms : At(v, p).state = "known"
  BY <1>2, NeedsOfHours, MappedReads
<1>6. OvertimeTerms \subseteq FieldPaths /\ "pay.overtime.thresholdHoursPerDay" \in NumberPaths
  BY NumberPathsAre DEF OvertimeTerms, FieldPaths
<1>7. \A p \in OvertimeTerms : Read(v, p) = {At(v, p).value} /\ SoundValue(p, At(v, p).value)
  BY <1>5, <1>6, SoundRead
<1>8. PICK d : d = At(v, "work.overtimeDistribution").value
  OBVIOUS
<1>9. Read(v, "work.overtimeDistribution") = {d} /\ SoundValue("work.overtimeDistribution", d)
         /\ At(v, "work.overtimeDistribution").state = "known"
  BY <1>5, <1>7, <1>8 DEF OvertimeTerms
<1>10. d \in Distributions /\ (d.kind = "even" => d.days \in WeekdayNumbers)
          /\ (d.kind = "explicit" => \A i \in WeekdayNumbers : d.byDay[i] >= 0)
  BY <1>9, NumberPathsAre DEF SoundValue
<1>11. d \in knownDistribution(v)
  BY <1>8, <1>9 DEF knownDistribution
<1>12. d.kind = "explicit" => Sum(d.byDay) = overtime
  BY <1>3, <1>4, <1>11, CheckedScenario DEF Sound
<1>13. \E t \in Nat : Read(v, "pay.overtime.thresholdHoursPerDay") = {t}
  <2>1. Read(v, "pay.overtime.thresholdHoursPerDay") \subseteq Nat
    BY <1>6, NumberRead
  <2> QED
    BY <1>7, <2>1 DEF OvertimeTerms
<1>14. Read(v, "pay.overtime.tier1Percent") # {}
  BY <1>7 DEF OvertimeTerms
<1> QED
  BY <1>9, <1>10, <1>12, <1>13, <1>14 DEF Distributes

LEMMA PremiumIsRead ==
  ASSUME NEW v, Sound(v), Mapped(v), NEW h \in DOMAIN PremiumOf, HoursRead(v)[h] > 0
  PROVE  Read(v, PremiumOf[h]) # {}
<1>1. h \in HoursFields
  BY DEF PremiumOf, HoursFields
<1>2. \E x \in Read(v, h) : x > 0
  BY <1>1, HoursAreRead
<1>3. At(v, PremiumOf[h]).state = "known"
  BY <1>2, NeedsOfHours, MappedReads
<1> QED
  BY <1>3 DEF Read

LEMMA InputIsPlaced ==
  ASSUME NEW v, Sound(v), Mapped(v)
  PROVE  /\ Placed(HoursRead(v), ReadFor(v, "work.overtimeHours", "work.overtimeDistribution"), EngineInput(v).threshold)
         /\ PricedInNumbers(EngineInput(v))
<1>1. HoursRead(v) \in [HoursFields -> Nat] /\ HoursRead(v)["work.publicHolidayHours"] <= 168 * TicksPerHour
  BY HoursAreRead
<1>2. PICK overtime : overtime = HoursRead(v)["work.overtimeHours"]
  OBVIOUS
<1>3. overtime > 0 => Distributes(ReadFor(v, "work.overtimeHours", "work.overtimeDistribution"), overtime)
  BY <1>2, OvertimeIsPlaced DEF ReadFor
<1>4. Placeable(overtime, ReadFor(v, "work.overtimeHours", "pay.overtime.thresholdHoursPerDay"))
  BY <1>2, OvertimeIsPlaced DEF ReadFor, Placeable
<1>5. Placed(HoursRead(v), ReadFor(v, "work.overtimeHours", "work.overtimeDistribution"), EngineInput(v).threshold)
  BY <1>1, <1>2, <1>3, <1>4, InputIs DEF Placed
<1>6. \A h, p : p \in NumberPaths => ReadFor(v, h, p) \subseteq Int
  BY NumberRead DEF ReadFor
<1>7. EngineInput(v).rate \in Int
  <2>1. "pay.hourlyRate" \in NumberPaths /\ At(v, "pay.hourlyRate").state = "known"
    BY NumberPathsAre, NeedsOfHours, MappedReads
  <2>2. Read(v, "pay.hourlyRate") # {} /\ Read(v, "pay.hourlyRate") \subseteq Nat
    BY <2>1, NumberRead DEF Read
  <2>3. The(Read(v, "pay.hourlyRate")) \in Nat
    BY <2>2, TheIsElement
  <2> QED
    BY <2>3, InputIs
<1>8. \A c \in ToSet(Categories) : categoryPercent(c, EngineInput(v)) \subseteq Int
  <2>1. PICK input : input = EngineInput(v)
    OBVIOUS
  <2>2. input.tier1 \subseteq Int /\ input.tier2 \subseteq Int /\ input.saturday \subseteq Int /\ input.sunday \subseteq Int
           /\ input.holiday \subseteq Int
    BY <1>6, <2>1, InputIs, NumberPathsAre
  <2>3. \A c \in ToSet(Categories) : categoryPercent(c, input) \in {{0}, input.tier1, input.tier2, input.saturday, input.sunday, input.holiday}
    BY CategoriesAre DEF categoryPercent
  <2> QED
    BY <2>1, <2>2, <2>3
<1> QED
  BY <1>5, <1>7, <1>8 DEF PricedInNumbers

(***************************************************************************)
(* A run of the engine on a sound scenario                                 *)
(***************************************************************************)
LEMMA EnteredIsKnown ==
  ASSUME NEW v, Sound(v), NEW key
  PROVE  Entered(EngineInput(v).deductions.entered, key) \in Seq(Known1)
<1> DEFINE Entry(path) == IF Read(v, path) = {} THEN {} ELSE {EnteredKey[path]}
           keys == UNION {Entry(path) : path \in EnteredFields}
           entered == [k \in keys |-> The(Read(v, CHOOSE path \in EnteredFields : EnteredKey[path] = k))]
<1>1. EngineInput(v).deductions.entered = entered
  BY DEF EngineInput
<1>2. ASSUME key \in keys
      PROVE  entered[key] \in Int
  <2>1. PICK path \in EnteredFields : key \in Entry(path)
    BY <1>2
  <2>2. Read(v, path) # {} /\ EnteredKey[path] = key
    BY <2>1
  <2>3. \A p, q \in EnteredFields : EnteredKey[p] = EnteredKey[q] => p = q
    BY DEF EnteredFields, EnteredNeeded, EnteredKey
  <2>4. (CHOOSE p \in EnteredFields : EnteredKey[p] = key) = path
    BY <2>2, <2>3
  <2>5. path \in NumberPaths
    BY DEF NumberPaths
  <2>6. The(Read(v, path)) \in Read(v, path) /\ Read(v, path) \subseteq Nat
    BY <2>2, <2>5, TheIsElement, NumberRead
  <2> QED
    BY <1>2, <2>4, <2>6
<1>3. DOMAIN entered = keys
  OBVIOUS
<1> HIDE DEF entered, keys
<1>4. CASE key \in keys
  <2>1. {entered[key]} \in Known1
    BY <1>2, <1>4 DEF Known1
  <2>2. Entered(EngineInput(v).deductions.entered, key) = <<{entered[key]}>>
    BY <1>1, <1>3, <1>4 DEF Entered
  <2> QED
    BY <2>1, <2>2
<1>5. CASE key \notin keys
  BY <1>1, <1>3, <1>5 DEF Entered
<1> QED
  BY <1>4, <1>5

LEMMA ModeRead ==
  ASSUME NEW v, Sound(v), Mapped(v)
  PROVE  EngineInput(v).deductions.mode \in {"enter", "estimate"} /\ Read(v, "deductions.mode") = {EngineInput(v).deductions.mode}
<1>1. "deductions.mode" \in FieldPaths /\ "deductions.mode" \notin NumberPaths /\ "deductions.mode" # "work.overtimeDistribution"
  BY NumberPathsAre DEF FieldPaths
<1>2. At(v, "deductions.mode").state = "known"
  BY NeedsOfHours, MappedReads
<1>3. PICK mode : mode = At(v, "deductions.mode").value
  OBVIOUS
<1>4. Read(v, "deductions.mode") = {mode} /\ SoundValue("deductions.mode", mode)
  BY <1>1, <1>2, <1>3, SoundRead
<1>5. mode \in {"enter", "estimate"}
  BY <1>1, <1>4 DEF SoundValue, ChoiceFields
<1>6. The({mode}) = mode
  BY TheOnly
<1>7. EngineInput(v).deductions.mode = The(Read(v, "deductions.mode"))
  BY InputIs
<1> QED
  BY <1>4, <1>5, <1>6, <1>7

LEMMA PeriodIsPlain ==
  ASSUME NEW v, Sound(v), Mapped(v), NEW grid, grid.hour_lines \in Seq(Lines), grid.hours_worked \in Nat
  PROVE  PlainPeriod(buildTierAPeriod(EngineInput(v), grid))
<1>1. PICK input : input = EngineInput(v)
  OBVIOUS
<1> DEFINE surcharges == [i \in DOMAIN input.surcharges |->
                            [amount |-> LineAmount(input.surcharges[i].hours, input.rate, input.surcharges[i].percent), bt |-> FALSE]]
           lines == grid.hour_lines \o surcharges
           gross == Sum(AmountOf(lines))
           paidNow == IF input.vakantiegeld.mode = "paid_now"
                      THEN <<[amount |-> Rounded(gross * input.vakantiegeld.percent, 100), bt |-> TRUE]>> ELSE <<>>
           additions == IF input.travel > 0 THEN <<input.travel>> ELSE <<>>
<1>2. surcharges = <<>>
  BY <1>1, InputIs
<1>3. lines = grid.hour_lines
  BY <1>2, ConcatEmptySeq
<1>4. paidNow = <<>>
  BY <1>1, InputIs
<1>5. lines \o paidNow = grid.hour_lines
  BY <1>3, <1>4, ConcatEmptySeq
<1>6. gross \in Int
  <2>1. PICK hour_lines \in Seq(Lines) : hour_lines = grid.hour_lines
    OBVIOUS
  <2>2. PICK f : f = AmountOf(hour_lines)
    OBVIOUS
  <2>3. DOMAIN f = 1 .. Len(hour_lines) /\ Len(hour_lines) \in Nat /\ \A i \in DOMAIN f : f[i] \in Int
    <3>1. \A l \in Lines : l.amount \in Int
      BY DEF Lines
    <3> QED
      BY <2>1, <2>2, <3>1, LenProperties DEF AmountOf
  <2>4. IsFiniteSet(DOMAIN f)
    BY <2>3, FS_Interval
  <2>5. Numbers(f, DOMAIN f)
    BY <2>3, <2>4 DEF Numbers
  <2> QED
    BY <1>3, <2>1, <2>2, <2>5, SumFirst, SumIs
<1> HIDE DEF surcharges, lines, gross, paidNow
<1>7. input.travel \in Nat
  <2>1. "extras.travelAllowance" \in NumberPaths
    BY NumberPathsAre
  <2>2. OrZero(Read(v, "extras.travelAllowance")) \in Nat
    BY <2>1, NumberRead
  <2> QED
    BY <1>1, <2>2, InputIs
<1>8. additions \in Seq(Int)
  BY <1>7
<1>9. buildPostTaxSocial(input) \in Seq(Known1)
  BY <1>1, EnteredIsKnown DEF buildPostTaxSocial
<1>10. buildPreTaxDeductions(input, gross, grid.hours_worked) \in Seq(Known1)
  <2>1. input.deductions.mode \in {"enter", "estimate"}
    BY <1>1, ModeRead
  <2>2. CASE input.deductions.mode = "enter"
    <3>1. PICK a \in Seq(Known1) : a = Entered(input.deductions.entered, "pension")
      BY <1>1, EnteredIsKnown
    <3>2. PICK b \in Seq(Known1) : b = Entered(input.deductions.entered, "paww")
      BY <1>1, EnteredIsKnown
    <3>3. PICK c \in Seq(Known1) : c = Entered(input.deductions.entered, "sector_premium")
      BY <1>1, EnteredIsKnown
    <3>4. a \o b \o c \in Seq(Known1)
      BY ConcatProperties
    <3> QED
      BY <2>2, <3>1, <3>2, <3>3, <3>4 DEF buildPreTaxDeductions
  <2>3. CASE input.deductions.mode = "estimate"
    <3>1. EstimatedStipp(gross, grid.hours_worked) \in Int
      <4>1. gross * TicksPerHour \in Int /\ Stipp.franchise * grid.hours_worked \in Int /\ Stipp.perMille \in Int
               /\ 1000 * TicksPerHour \in Nat \ {0}
        BY <1>6, HourAssumption, PremiumsAssumption, ProductIsInt
      <4>2. PICK n \in Int : n = gross * TicksPerHour - Stipp.franchise * grid.hours_worked
        BY <4>1
      <4>3. NotNegative(n) \in Int
        BY DEF NotNegative
      <4>4. NotNegative(n) * Stipp.perMille \in Int
        BY <4>1, <4>3, ProductIsInt
      <4> QED
        BY <4>1, <4>2, <4>4, RoundedIsInt DEF EstimatedStipp
    <3>2. EstimatedPaww(gross) \in Int
      <4>1. gross * PawwPerMille \in Int
        BY <1>6, PremiumsAssumption, ProductIsInt
      <4> QED
        BY <4>1, RoundedIsInt DEF EstimatedPaww
    <3>3. PICK a \in Int, b \in Int : a = EstimatedStipp(gross, grid.hours_worked) /\ b = EstimatedPaww(gross)
      BY <3>1, <3>2
    <3>4. {a} \in Known1 /\ {b} \in Known1
      BY DEF Known1
    <3>5. <<{a}, {b}>> \in Seq(Known1)
      BY <3>4
    <3> QED
      BY <2>3, <3>3, <3>5 DEF buildPreTaxDeductions
  <2> QED
    BY <2>1, <2>2, <2>3
<1> HIDE DEF additions
<1>11. buildTierAPeriod(input, grid) =
         [hour_lines |-> lines \o paidNow, pre_tax |-> buildPreTaxDeductions(input, gross, grid.hours_worked),
          post_tax |-> buildPostTaxSocial(input), et |-> {}, bt_percent |-> {},
          additions |-> additions, deductions |-> <<>>, adjustments |-> <<>>]
  BY DEF buildTierAPeriod, surcharges, lines, gross, paidNow, additions
<1> QED
  BY <1>1, <1>5, <1>8, <1>9, <1>10, <1>11 DEF PlainPeriod

\* The result of the quick calculator on what a sound scenario is made into.
LEMMA ResultOfInput ==
  ASSUME NEW v, Sound(v), Mapped(v)
  PROVE  LET result == computeTierAResult(EngineInput(v))
         IN  \/ result = [status |-> "blocked", days |-> {}, categories |-> {"overtime_tier_2"}]
             \/ /\ result.status = "computed" /\ result.complete = TRUE
                /\ result.hours_worked = Sum(HoursRead(v)) /\ result.payout \in Int
                /\ EngineInput(v).deductions.mode # "estimate" => result.payout_range = {}
                /\ EngineInput(v).deductions.mode = "estimate" =>
                     result.payout_range = {LessPremium(result.payout, estimateSectorPremiumRange(result.gross_total))} /\ result.gross_total \in Int
<1>1. PICK input : input = EngineInput(v)
  OBVIOUS
<1>2. PICK r : r = resolveTierAHourGrid(input)
  OBVIOUS
<1>3. /\ input.grids = WeekGrids(HoursRead(v), ReadFor(v, "work.overtimeHours", "work.overtimeDistribution"))
      /\ Placed(HoursRead(v), ReadFor(v, "work.overtimeHours", "work.overtimeDistribution"), input.threshold)
      /\ PricedInNumbers(input)
  BY <1>1, InputIs, InputIsPlaced
<1>4. /\ r.days = {}
      /\ r.hours_worked = Sum(HoursRead(v)) /\ r.hours_worked \in Nat
      /\ \A c \in r.categories : c \in ToSet(Categories) /\ categoryPercent(c, input) = {} /\ WorkedIn(HoursRead(v), c)
      /\ r.categories = {} => r.hour_lines \in Seq(Lines)
  BY <1>2, <1>3, HoursResolved
<1>5. \A c \in r.categories : c = "overtime_tier_2"
  <2> SUFFICES ASSUME NEW c \in r.categories, c # "overtime_tier_2"
               PROVE  FALSE
    OBVIOUS
  <2>1. c \in ToSet(Categories) /\ categoryPercent(c, input) = {} /\ WorkedIn(HoursRead(v), c)
    BY <1>4
  <2>2. c # "regular"
    BY <2>1 DEF categoryPercent
  <2>3. c # "overtime_tier_1"
    <3> SUFFICES ASSUME c = "overtime_tier_1"
                 PROVE  FALSE
      OBVIOUS
    <3>1. input.tier1 = {} /\ HoursRead(v)["work.overtimeHours"] > 0
      BY <2>1 DEF categoryPercent, WorkedIn
    <3> QED
      BY <1>1, <3>1, InputIs, OvertimeIsPlaced DEF ReadFor
  <2>4. \A h \in DOMAIN PremiumOf : HoursRead(v)[h] > 0 => ReadFor(v, h, PremiumOf[h]) # {}
    BY PremiumIsRead DEF ReadFor
  <2>5. /\ HoursRead(v)["work.saturdayHours"] > 0 => input.saturday # {}
        /\ HoursRead(v)["work.sundayHours"] > 0 => input.sunday # {}
        /\ HoursRead(v)["work.publicHolidayHours"] > 0 => input.holiday # {}
    BY <1>1, <2>4, InputIs DEF PremiumOf
  <2>6. c \notin {"saturday", "sunday", "holiday"}
    BY <2>1, <2>5 DEF categoryPercent, WorkedIn
  <2> QED
    BY <2>1, <2>2, <2>3, <2>6, CategoriesAre
<1>6. computeTierAResult(input) = ResultOfGrid(input, r)
  BY <1>2 DEF computeTierAResult
<1>7. CASE r.categories # {}
  <2>1. r.categories = {"overtime_tier_2"}
    BY <1>5, <1>7
  <2> QED
    BY <1>1, <1>4, <1>6, <2>1 DEF ResultOfGrid
<1>8. CASE r.categories = {}
  <2>1. PICK period : period = buildTierAPeriod(input, r)
    OBVIOUS
  <2>2. PlainPeriod(period)
    BY <1>1, <1>4, <1>8, <2>1, PeriodIsPlain
  <2>3. input.credit \in BOOLEAN
    BY <1>1, InputIs
  <2>4. PICK o : o = computePayslipPeriod(period, input.credit)
    OBVIOUS
  <2>5. o.complete = TRUE /\ o.gross_total \in Int /\ o.payout \in Int
    BY <2>2, <2>3, <2>4, PeriodIsComplete
  <2>6. computeTierAResult(input) = OutcomeOfGrid(input, r, o)
    BY <1>4, <1>6, <1>8, <2>1, <2>4 DEF ResultOfGrid
  <2>7. PICK result : result = OutcomeOfGrid(input, r, o)
    OBVIOUS
  <2>8. /\ result.status = "computed" /\ result.complete = o.complete /\ result.hours_worked = r.hours_worked
        /\ result.payout = o.payout /\ result.gross_total = o.gross_total
        /\ result.payout_range = IF input.deductions.mode = "estimate" /\ o.complete
                                 THEN {LessPremium(o.payout, estimateSectorPremiumRange(o.gross_total))} ELSE {}
    BY <2>7 DEF OutcomeOfGrid
  <2> QED
    BY <1>1, <1>4, <2>5, <2>6, <2>7, <2>8
<1> QED
  BY <1>7, <1>8

\* A run on a sound scenario either names what it lacks of the engine's input, or the second overtime tier and nothing
\* else, or it prices the hours the scenario states.
LEMMA RunOfSound ==
  ASSUME NEW v, Sound(v)
  PROVE  LET run == runEngine(v)
         IN  \/ ~Mapped(v) /\ run.requirements = Unmet(v, NeededByEngine(v)) \cup Unread(v, ReadByEngine(v)) /\ run.requirements # {}
             \/ Mapped(v) /\ run.requirements = {EngineRequires("pay.overtime.tier2Percent")}
             \/ /\ Mapped(v) /\ run.requirements = {} /\ run.resolved = v /\ run.hours = Sum(HoursRead(v)) /\ run.payout \in Int
                /\ run.consumed = Consumed(v)
                /\ run.payout = computeTierAResult(EngineInput(v)).payout
                /\ run.estimate = computeTierAResult(EngineInput(v)).payout_range
<1>1. PICK mapped : mapped = mapScenarioToEngine(v)
  OBVIOUS
<1>2. PICK requirements : requirements = Unmet(v, NeededByEngine(v)) \cup Unread(v, ReadByEngine(v))
  OBVIOUS
<1>3. requirements = {} <=> Mapped(v)
  BY <1>2 DEF Mapped
<1>4. runEngine(v) = RunOfMapped(v, mapped)
  BY <1>1 DEF runEngine
<1>5. CASE ~Mapped(v)
  <2>1. mapped = [requirements |-> requirements]
    BY <1>1, <1>2, <1>3, <1>5 DEF mapScenarioToEngine
  <2>2. runEngine(v).requirements = requirements /\ requirements # {}
    BY <1>3, <1>4, <1>5, <2>1 DEF RunOfMapped
  <2> QED
    BY <1>2, <1>5, <2>2
<1>6. CASE Mapped(v)
  <2>1. mapped = [requirements |-> {}, input |-> EngineInput(v), consumed |-> Consumed(v)]
    BY <1>1, <1>2, <1>3, <1>6 DEF mapScenarioToEngine
  <2>2. PICK result : result = computeTierAResult(EngineInput(v))
    OBVIOUS
  <2>3. PICK run : run = RunOf(v, mapped, result)
    OBVIOUS
  <2>4. runEngine(v) = run
    BY <1>4, <2>1, <2>2, <2>3 DEF RunOfMapped
  <2>5. CASE result = [status |-> "blocked", days |-> {}, categories |-> {"overtime_tier_2"}]
    <3>1. run.requirements = {EngineRequires(CategoryField[c]) : c \in {"overtime_tier_2"}}
      BY <2>3, <2>5 DEF RunOf
    <3>2. CategoryField["overtime_tier_2"] = "pay.overtime.tier2Percent"
      BY DEF CategoryField
    <3> QED
      BY <1>6, <2>4, <3>1, <3>2
  <2>6. CASE result.status = "computed" /\ result.complete = TRUE /\ result.hours_worked = Sum(HoursRead(v)) /\ result.payout \in Int
    <3>1. run.requirements = {} /\ run.resolved = v /\ run.hours = result.hours_worked /\ run.payout = result.payout
             /\ run.consumed = mapped.consumed /\ run.estimate = result.payout_range
      BY <2>3, <2>6 DEF RunOf
    <3> QED
      BY <1>6, <2>1, <2>2, <2>4, <2>6, <3>1
  <2> QED
    BY <1>6, <2>2, <2>5, <2>6, ResultOfInput
<1> QED
  BY <1>5, <1>6

(***************************************************************************)
(* The variants of a scenario                                              *)
(***************************************************************************)
LEMMA FieldPathsFinite == IsFiniteSet(FieldPaths)
<1>1. PICK T : T = {FIELD_PRIORITY[i] : i \in 1 .. 23}
  OBVIOUS
<1>2. IsFiniteSet(T)
  <2>1. PICK f : f = [i \in 1 .. 23 |-> FIELD_PRIORITY[i]]
    OBVIOUS
  <2>2. f \in [1 .. 23 -> T] /\ \A t \in T : \E i \in 1 .. 23 : f[i] = t
    BY <1>1, <2>1
  <2>3. f \in Surjection(1 .. 23, T)
    BY <2>2 DEF Surjection
  <2>4. PICK m \in Int, n \in Int : m = 1 /\ n = 23
    OBVIOUS
  <2>5. IsFiniteSet(m .. n)
    BY FS_Interval
  <2> QED
    BY <2>3, <2>4, <2>5, FS_Surjection
<1>3. \A i \in 1 .. 23 : FIELD_PRIORITY[i] \in T
  BY <1>1
<1>4. NumberPaths \subseteq T
  BY <1>3, NumberPathsAre DEF FIELD_PRIORITY
<1>5. DOMAIN ChoiceFields \subseteq T /\ "work.overtimeDistribution" \in T
  BY <1>3, NumberPathsAre DEF FIELD_PRIORITY
<1>6. FieldPaths \subseteq T
  BY <1>4, <1>5 DEF FieldPaths
<1> QED
  BY <1>2, <1>6, FS_Subset

\* The functions that give each element of S one of its candidates.
PicksFrom(c, S) == {a \in [S -> UNION {c[p] : p \in S}] : \A p \in S : a[p] \in c[p]}

\* Every function of A with every candidate of x beside it.
Puts(c, x, A) == {Over([p \in {x} |-> v], a) : v \in c[x], a \in A}

LEMMA PicksFromNone ==
  ASSUME NEW c
  PROVE  PicksFrom(c, {}) = {<<>>}
<1>1. <<>> \in PicksFrom(c, {})
  BY DEF PicksFrom
<1>2. ASSUME NEW a \in PicksFrom(c, {})
      PROVE  a = <<>>
  BY DEF PicksFrom
<1> QED
  BY <1>1, <1>2

LEMMA PicksFromMore ==
  ASSUME NEW c, NEW S, NEW x \in S
  PROVE  PicksFrom(c, S) = Puts(c, x, PicksFrom(c, S \ {x}))
<1> DEFINE T == S \ {x}
           One(v) == [p \in {x} |-> v]
<1>1. \A v : DOMAIN One(v) = {x} /\ One(v)[x] = v
  OBVIOUS
<1> HIDE DEF One
<1>2. ASSUME NEW v \in c[x], NEW a \in PicksFrom(c, T)
      PROVE  Over(One(v), a) \in PicksFrom(c, S)
  <2>1. DOMAIN a = T /\ \A p \in T : a[p] \in c[p]
    BY DEF PicksFrom
  <2>2. PICK b : b = Over(One(v), a)
    OBVIOUS
  <2>3. b = [p \in S |-> b[p]]
    BY <1>1, <2>1, <2>2 DEF Over
  <2>4. ASSUME NEW p \in S
        PROVE  b[p] \in c[p]
    <3>1. CASE p = x
      <4>1. b[x] = One(v)[x]
        BY <1>1, <2>2, <3>1 DEF Over
      <4> QED
        BY <1>1, <3>1, <4>1
    <3>2. CASE p # x
      <4>1. p \in T /\ p \notin DOMAIN One(v)
        BY <1>1, <3>2
      <4>2. b[p] = a[p]
        BY <2>1, <2>2, <4>1 DEF Over
      <4> QED
        BY <2>1, <4>1, <4>2
    <3> QED
      BY <3>1, <3>2
  <2>5. b \in [S -> UNION {c[p] : p \in S}]
    BY <2>3, <2>4
  <2> QED
    BY <2>2, <2>4, <2>5 DEF PicksFrom
<1>3. ASSUME NEW b \in PicksFrom(c, S)
      PROVE  \E v \in c[x], a \in PicksFrom(c, T) : b = Over(One(v), a)
  <2>1. b = [p \in S |-> b[p]] /\ \A p \in S : b[p] \in c[p]
    BY DEF PicksFrom
  <2>2. PICK a : a = [p \in T |-> b[p]]
    OBVIOUS
  <2>3. a \in PicksFrom(c, T)
    BY <2>1, <2>2 DEF PicksFrom
  <2>4. PICK d : d = Over(One(b[x]), a)
    OBVIOUS
  <2>5. d = [p \in S |-> d[p]]
    BY <1>1, <2>2, <2>4 DEF Over
  <2>6. ASSUME NEW p \in S
        PROVE  d[p] = b[p]
    <3>1. CASE p = x
      <4>1. d[x] = One(b[x])[x]
        BY <1>1, <2>4 DEF Over
      <4> QED
        BY <1>1, <3>1, <4>1
    <3>2. CASE p # x
      <4>1. p \in T /\ p \notin DOMAIN One(b[x])
        BY <1>1, <3>2
      <4>2. d[p] = a[p]
        BY <2>2, <2>4, <4>1 DEF Over
      <4> QED
        BY <2>2, <4>1, <4>2
    <3> QED
      BY <3>1, <3>2
  <2>7. b = d
    BY <2>1, <2>5, <2>6
  <2> QED
    BY <2>1, <2>3, <2>4, <2>7
<1> HIDE DEF T
<1>4. PicksFrom(c, S) = {Over(One(v), a) : v \in c[x], a \in PicksFrom(c, T)}
  BY <1>2, <1>3
<1> QED
  BY <1>4 DEF T, One, Puts

LEMMA AssignmentsAre ==
  ASSUME NEW c, IsFiniteSet(DOMAIN c)
  PROVE  Assignments(c) = PicksFrom(c, DOMAIN c)
<1>0. PICK S : S = DOMAIN c /\ IsFiniteSet(S)
  OBVIOUS
<1> DEFINE Builds(g) == g = [s \in SUBSET S |-> IF s = {} THEN {<<>>}
                                                ELSE Puts(c, First(s), g[s \ {First(s)}])]
           iter == CHOOSE g : Builds(g)
           all == [s \in SUBSET S |-> PicksFrom(c, s)]
           Q == {s \in SUBSET S : iter[s] = PicksFrom(c, s)}
<1>1. Assignments(c) = iter[S]
  BY <1>0 DEF Assignments, FoldSet, MapThenFoldSet, First, Puts
<1>2. Builds(all)
  <2>1. ASSUME NEW s \in SUBSET S, s # {}
        PROVE  PicksFrom(c, s) = Puts(c, First(s), all[s \ {First(s)}])
    <3>1. First(s) \in s
      BY <2>1, FirstIsElement
    <3>2. all[s \ {First(s)}] = PicksFrom(c, s \ {First(s)})
      OBVIOUS
    <3> QED
      BY <3>1, <3>2, PicksFromMore
  <2>2. PicksFrom(c, {}) = {<<>>}
    BY PicksFromNone
  <2> QED
    BY <2>1, <2>2
<1> HIDE DEF all
<1>3. Builds(iter)
  BY <1>2
<1>4. iter[{}] = {<<>>}
  BY <1>3
<1>5. \A s \in SUBSET S : s # {} => iter[s] = Puts(c, First(s), iter[s \ {First(s)}])
  BY <1>3
<1> HIDE DEF iter, Builds
<1>6. {} \in Q
  BY <1>4, PicksFromNone
<1>7. ASSUME NEW s \in (SUBSET S) \ {{}}, \A x \in s : s \ {x} \in Q
      PROVE  s \in Q
  <2>1. PICK x : x = First(s)
    OBVIOUS
  <2>2. x \in s
    BY <2>1, FirstIsElement
  <2>3. iter[s \ {x}] = PicksFrom(c, s \ {x})
    BY <1>7, <2>2
  <2>4. iter[s] = Puts(c, x, iter[s \ {x}])
    BY <1>5, <2>1
  <2>5. iter[s] = PicksFrom(c, s)
    BY <2>2, <2>3, <2>4, PicksFromMore
  <2> QED
    BY <2>5
<1> HIDE DEF Q
<1>8. SUBSET S \subseteq Q
  <2>1. PICK R : R = Q
    OBVIOUS
  <2>2. IsFiniteSet(S)
    BY <1>0
  <2>3. {} \in R
    BY <1>6, <2>1
  <2>4. \A s \in (SUBSET S) \ {{}} : (\A x \in s : s \ {x} \in R) => s \in R
    BY <1>7, <2>1
  <2>5. SUBSET S \subseteq R
    BY <2>2, <2>3, <2>4, EverySubset
  <2> QED
    BY <2>1, <2>5
<1> QED
  BY <1>0, <1>1, <1>8 DEF Q

Inexact(s) == {p \in DOMAIN s.fields : s.fields[p].state \in {"range", "alternatives"}}

\* What a variant may hold where the scenario is not exact.
Possible(s, p, x) ==
  /\ SoundValue(p, x)
  /\ s.fields[p].state = "range" => x >= s.fields[p].low /\ x <= s.fields[p].high
  /\ s.fields[p].state = "alternatives" => x \in ToSet(s.fields[p].options)

LEMMA UncertainIs ==
  ASSUME NEW s, Sound(s)
  PROVE  LET uncertain == collectUncertain(s)
         IN  /\ DOMAIN uncertain = Inexact(s) /\ Inexact(s) \subseteq DOMAIN s.fields /\ IsFiniteSet(Inexact(s))
             /\ \A p \in Inexact(s) : Possible(s, p, uncertain[p].central) /\ \A x \in uncertain[p].candidates : Possible(s, p, x)
<1>1. PICK uncertain : uncertain = collectUncertain(s)
  OBVIOUS
<1>2. DOMAIN uncertain = Inexact(s)
  BY <1>1 DEF collectUncertain, Inexact
<1>3. DOMAIN s.fields \subseteq FieldPaths /\ \A p \in DOMAIN s.fields : s.fields[p] \in NodesFor(p) /\ checkField(p, s.fields[p]) = {}
  BY CheckedScenario DEF Sound
<1>4. IsFiniteSet(Inexact(s))
  BY <1>3, FieldPathsFinite, FS_Subset DEF Inexact
<1>5. ASSUME NEW p \in Inexact(s)
      PROVE  Possible(s, p, uncertain[p].central) /\ \A x \in uncertain[p].candidates : Possible(s, p, x)
  <2>1. PICK given : given = s.fields[p]
    OBVIOUS
  <2>2. uncertain[p] = IF given.state = "range" THEN [candidates |-> {given.low, given.high}, count |-> 2, central |-> Rounded(given.low + given.high, 2)]
                       ELSE [candidates |-> ToSet(given.options), count |-> Len(given.options), central |-> given.options[1]]
    BY <1>1, <2>1 DEF collectUncertain, Inexact
  <2>3. p \in FieldPaths /\ given \in NodesFor(p) /\ checkField(p, given) = {} /\ given.state \in {"range", "alternatives"}
    BY <1>3, <2>1 DEF Inexact
  <2>4. CASE given.state = "range"
    <3>1. p \in NumberPaths /\ SoundValue(p, given.low) /\ SoundValue(p, given.high) /\ given.low <= given.high
      BY <2>3, <2>4, NodeShape, CheckedField
    <3>2. given.low \in Nat /\ given.high \in Nat /\ given.high <= NumberFields[p].most /\ NumberFields[p].most \in Nat
      BY <3>1, HourAssumption DEF SoundValue, NumberFields
    <3>3. PICK m : m = Rounded(given.low + given.high, 2)
      OBVIOUS
    <3>4. m \in Nat /\ m >= given.low /\ m <= given.high
      BY <3>1, <3>2, <3>3 DEF Rounded
    <3>5. \A x \in Nat : x >= given.low /\ x <= given.high => Possible(s, p, x)
      BY <2>1, <2>4, <3>1, <3>2 DEF Possible, SoundValue
    <3>6. uncertain[p].central = m /\ uncertain[p].candidates = {given.low, given.high}
      BY <2>2, <2>4, <3>3
    <3> QED
      BY <3>1, <3>2, <3>4, <3>5, <3>6
  <2>5. CASE given.state = "alternatives"
    <3>1. /\ Len(given.options) \in Nat /\ Len(given.options) >= 2 /\ DOMAIN given.options = 1 .. Len(given.options)
          /\ \A i \in DOMAIN given.options : SoundValue(p, given.options[i])
      BY <2>3, <2>5, CheckedField
    <3>2. uncertain[p].central = given.options[1] /\ uncertain[p].candidates = ToSet(given.options)
      BY <2>2, <2>5
    <3>3. 1 \in DOMAIN given.options
      BY <3>1
    <3>4. given.options[1] \in ToSet(given.options) /\ \A x \in ToSet(given.options) : SoundValue(p, x)
      BY <3>1, <3>3 DEF ToSet
    <3> QED
      BY <2>1, <2>5, <3>2, <3>4 DEF Possible
  <2> QED
    BY <2>3, <2>4, <2>5
<1> QED
  BY <1>1, <1>2, <1>4, <1>5 DEF Inexact

\* A value for each field that is not exact, and what the scenario then is.
Settling(s, a) == DOMAIN a = Inexact(s) /\ \A p \in Inexact(s) : Possible(s, p, a[p])

LEMMA ResolvedIs ==
  ASSUME NEW s, IsScenario(s), NEW a, Settling(s, a)
  PROVE  LET v == resolveWith(s, a)
         IN  /\ v = [fields |-> v.fields, concepts |-> s.concepts] /\ DOMAIN v.fields = DOMAIN s.fields
             /\ \A p \in Inexact(s) : v.fields[p] = [state |-> "known", value |-> a[p], source |-> s.fields[p].source]
             /\ \A p \in DOMAIN s.fields : p \notin Inexact(s) => v.fields[p] = s.fields[p]
<1>1. PICK w : w = [p \in DOMAIN a |-> [state |-> "known", value |-> a[p], source |-> s.fields[p].source]]
  OBVIOUS
<1>2. DOMAIN w = Inexact(s) /\ \A p \in Inexact(s) : w[p] = [state |-> "known", value |-> a[p], source |-> s.fields[p].source]
  BY <1>1 DEF Settling
<1>3. resolveWith(s, a) = [fields |-> Over(w, s.fields), concepts |-> s.concepts]
  BY <1>1 DEF resolveWith, IsScenario
<1>4. Inexact(s) \subseteq DOMAIN s.fields
  BY DEF Inexact
<1>5. PICK fields : fields = Over(w, s.fields)
  OBVIOUS
<1>6. DOMAIN fields = DOMAIN s.fields
  BY <1>2, <1>4, <1>5 DEF Over
<1>7. \A p \in Inexact(s) : fields[p] = w[p]
  BY <1>2, <1>5 DEF Over
<1>8. \A p \in DOMAIN s.fields : p \notin Inexact(s) => fields[p] = s.fields[p]
  BY <1>2, <1>5 DEF Over
<1> QED
  BY <1>2, <1>3, <1>5, <1>6, <1>7, <1>8

(***************************************************************************)
(* The evaluation of a scenario                                            *)
(***************************************************************************)
LEMMA VariantIsScenario ==
  ASSUME NEW s, Sound(s), NEW a, Settling(s, a)
  PROVE  IsScenario(resolveWith(s, a))
<1>1. PICK v : v = resolveWith(s, a)
  OBVIOUS
<1>2. /\ v = [fields |-> v.fields, concepts |-> s.concepts] /\ DOMAIN v.fields = DOMAIN s.fields
      /\ \A p \in Inexact(s) : v.fields[p] = [state |-> "known", value |-> a[p], source |-> s.fields[p].source]
      /\ \A p \in DOMAIN s.fields : p \notin Inexact(s) => v.fields[p] = s.fields[p]
  BY <1>1, ResolvedIs DEF Sound
<1>3. DOMAIN s.fields \subseteq FieldPaths /\ \A p \in DOMAIN s.fields : s.fields[p] \in NodesFor(p)
  BY CheckedScenario DEF Sound
<1>4. ASSUME NEW p \in Inexact(s)
      PROVE  v.fields[p] \in NodesFor(p)
  <2>1. p \in FieldPaths /\ s.fields[p] \in NodesFor(p) /\ s.fields[p].state \in {"range", "alternatives"}
    BY <1>3 DEF Inexact
  <2>2. s.fields[p].source \in SCENARIO_VALUE_SOURCES
    BY <2>1, NodeShape
  <2>3. SoundValue(p, a[p])
    BY DEF Settling, Possible
  <2>4. a[p] \in ValuesFor(p)
    <3>1. CASE p \in NumberPaths
      BY <2>3, <3>1 DEF SoundValue, ValuesFor
    <3>2. CASE p = "work.overtimeDistribution"
      BY <2>3, <3>2, NumberPathsAre DEF SoundValue, ValuesFor
    <3>3. CASE p \in DOMAIN ChoiceFields
      <4>1. p \notin NumberPaths /\ p # "work.overtimeDistribution"
        BY <3>3, NumberPathsAre
      <4>2. a[p] \in ChoiceFields[p]
        BY <2>3, <4>1 DEF SoundValue
      <4> QED
        BY <3>3, <4>1, <4>2 DEF ValuesFor
    <3> QED
      BY <2>1, <3>1, <3>2, <3>3 DEF FieldPaths
  <2>5. PICK x \in ValuesFor(p), source \in SCENARIO_VALUE_SOURCES : x = a[p] /\ source = s.fields[p].source
    BY <2>2, <2>4
  <2>6. v.fields[p] = [state |-> "known", value |-> x, source |-> source]
    BY <1>2, <2>5
  <2>7. [state |-> "known", value |-> x, source |-> source] \in [state : {"known"}, value : ValuesFor(p), source : SCENARIO_VALUE_SOURCES]
    OBVIOUS
  <2> QED
    BY <2>6, <2>7 DEF NodesFor
<1>5. \A p \in DOMAIN v.fields : v.fields[p] \in NodesFor(p)
  BY <1>2, <1>3, <1>4
<1> QED
  BY <1>1, <1>2, <1>3, <1>5 DEF IsScenario, WellWritten

CentralOf(s) == [p \in Inexact(s) |-> collectUncertain(s)[p].central]
CandidatesOf(s) == [p \in Inexact(s) |-> collectUncertain(s)[p].candidates]
CentralVariant(s) == resolveWith(s, CentralOf(s))
Variants(s) == {CentralVariant(s)} \cup {resolveWith(s, a) : a \in PicksFrom(CandidatesOf(s), Inexact(s))}

LEMMA VariantsAre ==
  ASSUME NEW s, Sound(s)
  PROVE  LET m == materializeVariants(s, collectUncertain(s))
         IN  m.central = CentralVariant(s) /\ {m.central} \cup m.others = Variants(s)
<1>1. PICK uncertain : uncertain = collectUncertain(s)
  OBVIOUS
<1>2. DOMAIN uncertain = Inexact(s) /\ IsFiniteSet(Inexact(s))
  BY <1>1, UncertainIs
<1>3. [p \in DOMAIN uncertain |-> uncertain[p].central] = CentralOf(s)
  BY <1>1, <1>2 DEF CentralOf
<1>4. [p \in DOMAIN uncertain |-> uncertain[p].candidates] = CandidatesOf(s)
  BY <1>1, <1>2 DEF CandidatesOf
<1>5. DOMAIN CandidatesOf(s) = Inexact(s)
  BY DEF CandidatesOf
<1>6. Assignments(CandidatesOf(s)) = PicksFrom(CandidatesOf(s), Inexact(s))
  BY <1>2, <1>5, AssignmentsAre
<1>7. materializeVariants(s, uncertain) =
        [central |-> CentralVariant(s), others |-> {resolveWith(s, a) : a \in PicksFrom(CandidatesOf(s), Inexact(s))}]
  BY <1>3, <1>4, <1>6 DEF materializeVariants, CentralVariant
<1> QED
  BY <1>1, <1>7 DEF Variants

LEMMA VariantsSettle ==
  ASSUME NEW s, Sound(s)
  PROVE  /\ Settling(s, CentralOf(s))
         /\ \A a \in PicksFrom(CandidatesOf(s), Inexact(s)) : Settling(s, a)
         /\ \A v \in Variants(s) : IsScenario(v) /\ \E a : Settling(s, a) /\ v = resolveWith(s, a)
<1>1. Settling(s, CentralOf(s))
  BY UncertainIs DEF Settling, CentralOf
<1>2. ASSUME NEW a \in PicksFrom(CandidatesOf(s), Inexact(s))
      PROVE  Settling(s, a)
  <2>1. DOMAIN a = Inexact(s) /\ \A p \in Inexact(s) : a[p] \in collectUncertain(s)[p].candidates
    BY DEF PicksFrom, CandidatesOf
  <2> QED
    BY <2>1, UncertainIs DEF Settling
<1>3. \A v \in Variants(s) : \E a : Settling(s, a) /\ v = resolveWith(s, a)
  BY <1>1, <1>2 DEF Variants, CentralVariant
<1> QED
  BY <1>1, <1>2, <1>3, VariantIsScenario

Shown(v) == LET run == runEngine(v) IN [hours |-> run.hours, payout |-> run.payout, resolved |-> run.resolved.fields]

\* The evaluation of a scenario that nothing keeps from being priced.
LEMMA EvaluationOfReady ==
  ASSUME NEW s, IsScenario(s), validateScenario(s).status = "ready", s.concepts = {}, Within16(s)
  PROVE  LET e == evaluateScenario(s)
         IN  /\ Sound(s) /\ collectRequirements(s) = {}
             /\ IF \E v \in Variants(s) : IssuesOf(v) # {} THEN e.status = "invalid"
                ELSE IF UNION {runEngine(v).requirements : v \in Variants(s)} # {}
                THEN e = Blocked(UNION {runEngine(v).requirements : v \in Variants(s)})
                ELSE e = Computed(s, runEngine(CentralVariant(s)), {runEngine(v) : v \in Variants(s)}, collectUncertain(s), collectWarnings(s))
<1>1. IssuesOf(s) = {} /\ collectRequirements(s) = {} /\ validateScenario(s).warnings = collectWarnings(s)
  BY DEF validateScenario, Validation
<1>2. Sound(s)
  BY <1>1 DEF Sound
<1>3. PICK all : all = Variants(s)
  OBVIOUS
<1>4. PICK runs : runs = [v \in all |-> runEngine(v)]
  OBVIOUS
<1>5. evaluateScenario(s) = EvaluationOfVariants(s, collectUncertain(s), CentralVariant(s), all, collectWarnings(s))
  <2>1. evaluateScenario(s) =
          EvaluationOfUncertain(s, collectUncertain(s), materializeVariants(s, collectUncertain(s)), collectWarnings(s))
    BY <1>1 DEF evaluateScenario, EvaluationOf, Within16
  <2> QED
    BY <1>2, <1>3, <2>1, VariantsAre DEF EvaluationOfUncertain
<1>6. revalidateVariants(all) # {} <=> \E v \in all : IssuesOf(v) # {}
  BY DEF revalidateVariants
<1>7. CentralVariant(s) \in all
  BY <1>3 DEF Variants
<1>8. /\ UNION {runs[v].requirements : v \in DOMAIN runs} = UNION {runEngine(v).requirements : v \in all}
      /\ {runs[v] : v \in DOMAIN runs} = {runEngine(v) : v \in all} /\ runs[CentralVariant(s)] = runEngine(CentralVariant(s))
  BY <1>4, <1>7
<1>9. CASE \E v \in all : IssuesOf(v) # {}
  <2>1. evaluateScenario(s) = Invalid(revalidateVariants(all))
    BY <1>5, <1>6, <1>9 DEF EvaluationOfVariants
  <2> QED
    BY <1>1, <1>2, <1>3, <1>9, <2>1 DEF Invalid
<1>10. CASE ~\E v \in all : IssuesOf(v) # {}
  <2>1. evaluateScenario(s) = EvaluationOfRuns(s, collectUncertain(s), CentralVariant(s), runs, collectWarnings(s))
    BY <1>4, <1>5, <1>6, <1>10 DEF EvaluationOfVariants
  <2>2. evaluateScenario(s) =
          IF UNION {runEngine(v).requirements : v \in all} # {} THEN Blocked(UNION {runEngine(v).requirements : v \in all})
          ELSE Computed(s, runEngine(CentralVariant(s)), {runEngine(v) : v \in all}, collectUncertain(s), collectWarnings(s))
    BY <1>8, <2>1 DEF EvaluationOfRuns
  <2> QED
    BY <1>1, <1>2, <1>3, <1>10, <2>2
<1> QED
  BY <1>9, <1>10

\* Only such a scenario is priced, and each of its variants is sound and is priced.
LEMMA EvaluationComputed ==
  ASSUME NEW s, IsScenario(s), evaluateScenario(s).status = "computed"
  PROVE  /\ validateScenario(s).status = "ready" /\ s.concepts = {} /\ Within16(s) /\ Sound(s)
         /\ \A v \in Variants(s) : Sound(v) /\ runEngine(v).requirements = {}
         /\ evaluateScenario(s) = Computed(s, runEngine(CentralVariant(s)), {runEngine(v) : v \in Variants(s)},
                                           collectUncertain(s), collectWarnings(s))
<1>1. validateScenario(s).status \in {"invalid", "blocked", "ready"}
  BY DEF validateScenario, Validation
<1>2. validateScenario(s).status = "ready" /\ s.concepts = {} /\ Within16(s)
  <2>1. validateScenario(s).status # "invalid"
    BY DEF evaluateScenario, EvaluationOf, Invalid
  <2>2. s.concepts = {}
    BY <2>1 DEF evaluateScenario, EvaluationOf
  <2>3. validateScenario(s).status # "blocked"
    BY <2>1, <2>2 DEF evaluateScenario, EvaluationOf, Blocked
  <2>4. ~(planVariantRuns(collectUncertain(s)) > MaxVariantRuns)
    BY <2>1, <2>2, <2>3 DEF evaluateScenario, EvaluationOf
  <2> QED
    BY <1>1, <2>1, <2>2, <2>3, <2>4 DEF Within16
<1>3. /\ Sound(s)
      /\ ~\E v \in Variants(s) : IssuesOf(v) # {}
      /\ UNION {runEngine(v).requirements : v \in Variants(s)} = {}
  <2>1. PICK e : e = evaluateScenario(s)
    OBVIOUS
  <2>2. e.status = "computed" /\ \A r : Blocked(r).status = "blocked"
    BY <2>1 DEF Blocked
  <2>3. e.status # "invalid" /\ \A r : e # Blocked(r)
    BY <2>2
  <2>4. ~\E v \in Variants(s) : IssuesOf(v) # {}
    BY <1>2, <2>1, <2>3, EvaluationOfReady
  <2>5. UNION {runEngine(v).requirements : v \in Variants(s)} = {}
    BY <1>2, <2>1, <2>3, <2>4, EvaluationOfReady
  <2>6. Sound(s)
    BY <1>2, EvaluationOfReady
  <2> QED
    BY <2>4, <2>5, <2>6
<1>4. \A v \in Variants(s) : runEngine(v).requirements = {}
  BY <1>3
<1>5. \A v \in Variants(s) : Sound(v)
  BY <1>3, VariantsSettle DEF Sound
<1> QED
  BY <1>2, <1>3, <1>4, <1>5, EvaluationOfReady

\* Every hour stated is priced, once.
HoursPricedOf(e) ==
  e.status = "computed" =>
    \A run \in e.runs : run.hours = Sum([h \in HoursFields |-> High(At([fields |-> run.resolved], h))])

LEMMA HoursOfEvaluation ==
  ASSUME NEW s, IsScenario(s)
  PROVE  HoursPricedOf(evaluateScenario(s))
<1> SUFFICES ASSUME evaluateScenario(s).status = "computed", NEW shown \in evaluateScenario(s).runs
             PROVE  shown.hours = Sum([h \in HoursFields |-> High(At([fields |-> shown.resolved], h))])
  BY DEF HoursPricedOf
<1>1. evaluateScenario(s).runs =
        {[hours |-> run.hours, payout |-> run.payout, resolved |-> run.resolved.fields] : run \in {runEngine(v) : v \in Variants(s)}}
  <2>1. PICK e : e = evaluateScenario(s)
    OBVIOUS
  <2>2. PICK runs : runs = {runEngine(v) : v \in Variants(s)}
    OBVIOUS
  <2>3. e = Computed(s, runEngine(CentralVariant(s)), runs, collectUncertain(s), collectWarnings(s))
    BY <2>1, <2>2, EvaluationComputed
  <2>4. e.runs = {[hours |-> run.hours, payout |-> run.payout, resolved |-> run.resolved.fields] : run \in runs}
    BY <2>3 DEF Computed
  <2> QED
    BY <2>1, <2>2, <2>4
<1>2. PICK v \in Variants(s) : shown = [hours |-> runEngine(v).hours, payout |-> runEngine(v).payout, resolved |-> runEngine(v).resolved.fields]
  BY <1>1
<1>3. Sound(v) /\ runEngine(v).requirements = {}
  BY EvaluationComputed
<1>4. Mapped(v) /\ runEngine(v).resolved = v /\ runEngine(v).hours = Sum(HoursRead(v))
  BY <1>3, RunOfSound
<1>5. shown.hours = Sum(HoursRead(v)) /\ shown.resolved = v.fields
  BY <1>2, <1>4
<1>6. \A h \in HoursFields : HoursRead(v)[h] = High(At(v, h))
  BY <1>3, <1>4, HoursAreRead
<1>7. \A h : At([fields |-> shown.resolved], h) = At(v, h)
  BY <1>5 DEF At
<1>8. HoursRead(v) = [h \in HoursFields |-> High(At([fields |-> shown.resolved], h))]
  BY <1>6, <1>7 DEF HoursRead
<1> QED
  BY <1>5, <1>8

(***************************************************************************)
(* What the validator calls ready                                          *)
(***************************************************************************)
\* What a variant holds is what the scenario holds, or one of the values the scenario leaves open.
LEMMA AtVariant ==
  ASSUME NEW s, Sound(s), NEW v \in Variants(s), NEW p
  PROVE  /\ At(s, p).state \notin {"range", "alternatives"} => At(v, p) = At(s, p)
         /\ At(s, p).state \in {"range", "alternatives"} =>
              p \in DOMAIN s.fields /\ At(v, p).state = "known" /\ Possible(s, p, At(v, p).value)
<1>1. PICK a : Settling(s, a) /\ v = resolveWith(s, a)
  BY VariantsSettle
<1>2. /\ DOMAIN v.fields = DOMAIN s.fields
      /\ \A q \in Inexact(s) : v.fields[q] = [state |-> "known", value |-> a[q], source |-> s.fields[q].source]
      /\ \A q \in DOMAIN s.fields : q \notin Inexact(s) => v.fields[q] = s.fields[q]
  BY <1>1, ResolvedIs DEF Sound
<1>3. CASE p \notin DOMAIN s.fields
  BY <1>2, <1>3 DEF At
<1>4. CASE p \in Inexact(s)
  <2>1. At(v, p) = [state |-> "known", value |-> a[p], source |-> s.fields[p].source] /\ At(s, p) = s.fields[p] /\ p \in DOMAIN s.fields
    BY <1>2, <1>4 DEF At, Inexact
  <2>2. Possible(s, p, a[p])
    BY <1>1, <1>4 DEF Settling
  <2> QED
    BY <1>4, <2>1, <2>2 DEF Inexact
<1>5. CASE p \in DOMAIN s.fields /\ p \notin Inexact(s)
  BY <1>2, <1>5 DEF At, Inexact
<1> QED
  BY <1>3, <1>4, <1>5 DEF Inexact

LEMMA StatusOfVariant ==
  ASSUME NEW s, Sound(s), NEW v \in Variants(s), NEW p \in FieldPaths
  PROVE  /\ valueStatus(At(s, p)) = "present" => At(v, p).state = "known"
         /\ valueStatus(At(s, p)) \notin {"unknown", "conflict"} => At(v, p).state \in {"missing", "known"}
<1>1. At(s, p).state \in {"missing", "known", "unknown", "conflict", "range", "alternatives"}
  <2>1. CASE p \in DOMAIN s.fields
    <3>1. s.fields[p] \in NodesFor(p)
      BY <2>1, CheckedScenario DEF Sound
    <3> QED
      BY <2>1, <3>1, NodeShape DEF At
  <2>2. CASE p \notin DOMAIN s.fields
    BY <2>2 DEF At
  <2> QED
    BY <2>1, <2>2
<1> QED
  BY <1>1, AtVariant DEF valueStatus

LEMMA HoursOfVariant ==
  ASSUME NEW s, Sound(s), NEW v \in Variants(s), Sound(v), NEW h \in HoursFields, NEW x \in Read(v, h), x > 0
  PROVE  hoursRelevance(At(s, h)) = "some"
<1>1. h \in NumberPaths /\ h \in FieldPaths
  BY DEF NumberPaths, FieldPaths
<1>2. At(v, h).state = "known" /\ At(v, h).value = x /\ x \in Nat
  <2>1. At(v, h).state = "known" /\ At(v, h).value = x /\ SoundValue(h, x)
    BY <1>1, SoundRead
  <2> QED
    BY <1>1, <2>1 DEF SoundValue
<1>3. CASE At(s, h).state \notin {"range", "alternatives"}
  <2>1. At(v, h) = At(s, h)
    BY <1>3, AtVariant
  <2>2. High(At(s, h)) = x
    BY <1>2, <2>1, HighIs DEF NotNegative
  <2> QED
    BY <1>2, <2>1, <2>2 DEF hoursRelevance, valueStatus
<1>4. CASE At(s, h).state \in {"range", "alternatives"}
  <2>1. h \in DOMAIN s.fields /\ Possible(s, h, x)
    BY <1>2, <1>4, AtVariant
  <2>2. PICK given : given = s.fields[h]
    OBVIOUS
  <2>3. At(s, h) = given /\ given \in NodesFor(h) /\ checkField(h, given) = {}
    BY <2>1, <2>2, CheckedScenario DEF At, Sound
  <2>4. given.state = "range"
    BY <1>1, <1>4, <2>3, NodeShape
  <2>5. SoundValue(h, given.low) /\ SoundValue(h, given.high) /\ given.low <= given.high
    BY <1>1, <2>3, <2>4, CheckedField
  <2>6. given.low \in Nat /\ given.high \in Nat
    BY <1>1, <2>5 DEF SoundValue
  <2>7. x <= given.high
    BY <2>1, <2>2, <2>4 DEF Possible
  <2>8. High(given) = given.high /\ given.high > 0
    BY <1>2, <2>4, <2>5, <2>6, <2>7, HighIs
  <2> QED
    BY <2>3, <2>4, <2>8 DEF hoursRelevance, valueStatus
<1> QED
  BY <1>3, <1>4

LEMMA OptionOfVariant ==
  ASSUME NEW s, Sound(s), NEW v \in Variants(s), Sound(v), NEW p \in DOMAIN ChoiceFields, NEW x, Read(v, p) = {x}
  PROVE  x \in OptionsOf(At(s, p))
<1>1. p \in FieldPaths /\ p \notin NumberPaths
  BY NumberPathsAre DEF FieldPaths
<1>2. At(v, p).state = "known" /\ At(v, p).value = x
  BY <1>1, SoundRead
<1>3. CASE At(s, p).state \notin {"range", "alternatives"}
  <2>1. At(v, p) = At(s, p)
    BY <1>3, AtVariant
  <2> QED
    BY <1>2, <2>1 DEF OptionsOf
<1>4. CASE At(s, p).state \in {"range", "alternatives"}
  <2>1. p \in DOMAIN s.fields /\ Possible(s, p, x)
    BY <1>2, <1>4, AtVariant
  <2>2. At(s, p) = s.fields[p] /\ s.fields[p] \in NodesFor(p)
    BY <2>1, CheckedScenario DEF At, Sound
  <2>3. s.fields[p].state = "alternatives"
    BY <1>1, <1>4, <2>2, NodeShape
  <2> QED
    BY <2>1, <2>2, <2>3 DEF Possible, OptionsOf
<1> QED
  BY <1>3, <1>4

\* The validator asked for all that the engine needs of any variant, and let nothing stand open that it reads.
LEMMA RequirementsMet ==
  ASSUME NEW s, collectRequirements(s) = {}
  PROVE  LET Settled(p) == valueStatus(At(s, p)) \notin {"unknown", "conflict"}
             Present(p) == valueStatus(At(s, p)) = "present"
             Some(h) == hoursRelevance(At(s, h)) = "some"
         IN  /\ \A p \in HoursFields \cup {"deductions.entered.postTaxOther", "extras.travelAllowance"} : Settled(p)
             /\ \A p \in {"pay.hourlyRate", "tax.loonheffingskorting", "deductions.mode"} : Present(p)
             /\ \A h \in DOMAIN PremiumOf : Some(h) => Present(PremiumOf[h])
             /\ Some("work.overtimeHours") => \A p \in OvertimeTerms : Present(p)
             /\ "enter" \in OptionsOf(At(s, "deductions.mode")) => \A p \in EnteredNeeded : Present(p)
             /\ HasHolidayPay(s) => Present("extras.vakantiegeld.mode")
             /\ "accruing" \in OptionsOf(At(s, "extras.vakantiegeld.mode")) => Present("extras.vakantiegeld.percent")
<1>1. \A paths : Unsettled(s, paths) = {} => \A p \in paths : valueStatus(At(s, p)) \notin {"unknown", "conflict"}
  BY DEF Unsettled
<1>2. \A paths : Need(s, paths) = {} => \A p \in paths : valueStatus(At(s, p)) = "present"
  BY DEF Need
<1>3. /\ Unsettled(s, HoursFields) = {}
      /\ Unsettled(s, {"deductions.entered.postTaxOther", "extras.travelAllowance"}) = {}
      /\ Need(s, {"pay.hourlyRate", "tax.loonheffingskorting", "deductions.mode"}) = {}
      /\ Need(s, {PremiumOf[h] : h \in {x \in DOMAIN PremiumOf : hoursRelevance(At(s, x)) = "some"}}) = {}
      /\ hoursRelevance(At(s, "work.overtimeHours")) = "some" => Need(s, OvertimeTerms) = {}
      /\ "enter" \in OptionsOf(At(s, "deductions.mode")) => Need(s, EnteredNeeded) = {}
      /\ HasHolidayPay(s) => Need(s, {"extras.vakantiegeld.mode"}) = {}
      /\ "accruing" \in OptionsOf(At(s, "extras.vakantiegeld.mode")) => Need(s, {"extras.vakantiegeld.percent"}) = {}
  BY DEF collectRequirements
<1>4. \A h \in DOMAIN PremiumOf : hoursRelevance(At(s, h)) = "some" => valueStatus(At(s, PremiumOf[h])) = "present"
  <2>1. PICK paths : paths = {PremiumOf[h] : h \in {x \in DOMAIN PremiumOf : hoursRelevance(At(s, x)) = "some"}}
    OBVIOUS
  <2>2. \A p \in paths : valueStatus(At(s, p)) = "present"
    BY <1>2, <1>3, <2>1
  <2>3. \A h \in DOMAIN PremiumOf : hoursRelevance(At(s, h)) = "some" => PremiumOf[h] \in paths
    BY <2>1
  <2> QED
    BY <2>2, <2>3
<1> QED
  BY <1>1, <1>2, <1>3, <1>4

Tier2 == "pay.overtime.tier2Percent"

LEMMA VariantIsMapped ==
  ASSUME NEW s, Sound(s), collectRequirements(s) = {}, NEW v \in Variants(s), Sound(v)
  PROVE  /\ \A p \in NeededByEngine(v) : At(v, p).state = "known"
         /\ \A p \in ReadByEngine(v) \ {Tier2} : At(v, p).state \in {"missing", "known"}
<1> DEFINE Settled(p) == valueStatus(At(s, p)) \notin {"unknown", "conflict"}
           Present(p) == valueStatus(At(s, p)) = "present"
<1>1. /\ \A p \in HoursFields \cup {"deductions.entered.postTaxOther", "extras.travelAllowance"} : Settled(p)
      /\ \A p \in {"pay.hourlyRate", "tax.loonheffingskorting", "deductions.mode"} : Present(p)
      /\ \A h \in DOMAIN PremiumOf : hoursRelevance(At(s, h)) = "some" => Present(PremiumOf[h])
      /\ hoursRelevance(At(s, "work.overtimeHours")) = "some" => \A p \in OvertimeTerms : Present(p)
      /\ "enter" \in OptionsOf(At(s, "deductions.mode")) => \A p \in EnteredNeeded : Present(p)
      /\ HasHolidayPay(s) => Present("extras.vakantiegeld.mode")
      /\ "accruing" \in OptionsOf(At(s, "extras.vakantiegeld.mode")) => Present("extras.vakantiegeld.percent")
  BY RequirementsMet
<1>2. \A p \in FieldPaths : (Present(p) => At(v, p).state = "known") /\ (Settled(p) => At(v, p).state \in {"missing", "known"})
  BY StatusOfVariant
<1> HIDE DEF Settled, Present
<1>3. \A h \in HoursFields : (\E x \in Read(v, h) : x > 0) => hoursRelevance(At(s, h)) = "some"
  BY HoursOfVariant
<1>4. DOMAIN PremiumOf \subseteq HoursFields /\ "work.overtimeHours" \in HoursFields
  BY DEF PremiumOf, HoursFields
<1>5. /\ Read(v, "deductions.mode") = {"enter"} => "enter" \in OptionsOf(At(s, "deductions.mode"))
      /\ Read(v, "extras.vakantiegeld.mode") = {"accruing"} => "accruing" \in OptionsOf(At(s, "extras.vakantiegeld.mode"))
  BY NumberPathsAre, OptionOfVariant
<1>6. HasHolidayPay(v) = HasHolidayPay(s)
  <2>1. PICK a : Settling(s, a) /\ v = resolveWith(s, a)
    BY VariantsSettle
  <2>2. DOMAIN v.fields = DOMAIN s.fields
    BY <2>1, ResolvedIs DEF Sound
  <2> QED
    BY <2>2 DEF HasHolidayPay
<1>7. ASSUME NEW p \in NeededByEngine(v)
      PROVE  Present(p)
  <2> DEFINE Worked(h) == \E x \in Read(v, h) : x > 0
  <2>1. \/ p \in {"pay.hourlyRate", "tax.loonheffingskorting", "deductions.mode"}
        \/ \E h \in DOMAIN PremiumOf : Worked(h) /\ p = PremiumOf[h]
        \/ Worked("work.overtimeHours") /\ p \in OvertimeTerms
        \/ Read(v, "deductions.mode") = {"enter"} /\ p \in EnteredNeeded
        \/ HasHolidayPay(v) /\ p = "extras.vakantiegeld.mode"
        \/ Read(v, "extras.vakantiegeld.mode") = {"accruing"} /\ p = "extras.vakantiegeld.percent"
    BY <1>7 DEF NeededByEngine
  <2> QED
    BY <1>1, <1>3, <1>4, <1>5, <1>6, <2>1
<1>8. NeededByEngine(v) \subseteq FieldPaths
  <2>1. \A h \in DOMAIN PremiumOf : PremiumOf[h] \in NumberPaths
    BY DEF NumberPaths, PercentFields
  <2>2. OvertimeTerms \subseteq FieldPaths /\ EnteredNeeded \subseteq FieldPaths
    BY NumberPathsAre DEF OvertimeTerms, EnteredNeeded, FieldPaths
  <2>3. {"pay.hourlyRate", "tax.loonheffingskorting", "deductions.mode", "extras.vakantiegeld.mode", "extras.vakantiegeld.percent"}
           \subseteq FieldPaths
    BY NumberPathsAre DEF FieldPaths
  <2> QED
    BY <2>1, <2>2, <2>3 DEF NeededByEngine, FieldPaths
<1>9. \A p \in ReadByEngine(v) \ {Tier2} : Settled(p) /\ p \in FieldPaths
  <2>1. ReadByEngine(v) \ {Tier2} \subseteq HoursFields \cup {"deductions.entered.postTaxOther", "extras.travelAllowance"}
    BY DEF ReadByEngine, Tier2
  <2>2. HoursFields \cup {"deductions.entered.postTaxOther", "extras.travelAllowance"} \subseteq FieldPaths
    BY NumberPathsAre DEF FieldPaths, HoursFields
  <2> QED
    BY <1>1, <2>1, <2>2
<1> QED
  BY <1>2, <1>7, <1>8, <1>9

LEMMA RunOfVariant ==
  ASSUME NEW s, Sound(s), collectRequirements(s) = {}, NEW v \in Variants(s), Sound(v), NEW r \in runEngine(v).requirements
  PROVE  r.field = Tier2
<1>1. /\ \A p \in NeededByEngine(v) : At(v, p).state = "known"
      /\ \A p \in ReadByEngine(v) \ {Tier2} : At(v, p).state \in {"missing", "known"}
  BY VariantIsMapped
<1>2. Unmet(v, NeededByEngine(v)) = {}
  BY <1>1 DEF Unmet, Unread
<1>3. \A x \in Unread(v, ReadByEngine(v)) : x.field = Tier2
  BY <1>1 DEF Unread, Requirement
<1>4. EngineRequires(Tier2).field = Tier2
  BY DEF EngineRequires, Requirement
<1>5. \/ runEngine(v).requirements = Unmet(v, NeededByEngine(v)) \cup Unread(v, ReadByEngine(v))
      \/ runEngine(v).requirements = {EngineRequires(Tier2)}
      \/ runEngine(v).requirements = {}
  BY RunOfSound DEF Tier2
<1> QED
  BY <1>2, <1>3, <1>4, <1>5

ReadyIsComputableOf(s, e) ==
  validateScenario(s).status = "ready" /\ s.concepts = {} /\ Within16(s) /\ e.status # "invalid"
    => e.status = "computed" \/ {r.field : r \in e.requirements} = {"pay.overtime.tier2Percent"}

LEMMA ReadyOfEvaluation ==
  ASSUME NEW s, IsScenario(s)
  PROVE  ReadyIsComputableOf(s, evaluateScenario(s))
<1>1. PICK e : e = evaluateScenario(s)
  OBVIOUS
<1> SUFFICES ASSUME validateScenario(s).status = "ready", s.concepts = {}, Within16(s), e.status # "invalid"
             PROVE  e.status = "computed" \/ {r.field : r \in e.requirements} = {Tier2}
  BY <1>1 DEF ReadyIsComputableOf, Tier2
<1>2. PICK required : required = UNION {runEngine(v).requirements : v \in Variants(s)}
  OBVIOUS
<1>3. /\ Sound(s) /\ collectRequirements(s) = {}
      /\ ~\E v \in Variants(s) : IssuesOf(v) # {}
      /\ IF required # {} THEN e = Blocked(required)
         ELSE e = Computed(s, runEngine(CentralVariant(s)), {runEngine(v) : v \in Variants(s)}, collectUncertain(s), collectWarnings(s))
  BY <1>1, <1>2, EvaluationOfReady
<1>4. \A v \in Variants(s) : Sound(v)
  BY <1>3, VariantsSettle DEF Sound
<1>5. \A r \in required : r.field = Tier2
  BY <1>2, <1>3, <1>4, RunOfVariant
<1>6. CASE required = {}
  BY <1>3, <1>6 DEF Computed
<1>7. CASE required # {}
  <2>1. e.requirements = required
    BY <1>3, <1>7 DEF Blocked
  <2> QED
    BY <1>5, <1>7, <2>1
<1> QED
  BY <1>6, <1>7

(***************************************************************************)
(* What is not disclosed has no part in the result                         *)
(***************************************************************************)
\* Two scenarios that differ in one field at most.
Beside(v, w, p) == DOMAIN v.fields = DOMAIN w.fields /\ \A q \in DOMAIN v.fields : q # p => v.fields[q] = w.fields[q]

\* The surcharge of hours that nobody works is not part of the engine's input.
LEMMA SameInput ==
  ASSUME NEW v, NEW w, NEW h \in DOMAIN PremiumOf, HoursRead(v)[h] = 0, Beside(v, w, PremiumOf[h])
  PROVE  EngineInput(v) = EngineInput(w)
<1>1. PICK p : p = PremiumOf[h]
  OBVIOUS
<1>2. \A q : q # p => Read(v, q) = Read(w, q)
  BY <1>1 DEF Beside, Read, At
<1>3. p \in {"pay.saturdayPremiumPercent", "pay.sundayPremiumPercent", "pay.publicHolidayPremiumPercent"}
        /\ h \in {"work.saturdayHours", "work.sundayHours", "work.publicHolidayHours"}
        /\ \A x \in DOMAIN PremiumOf : PremiumOf[x] = p => x = h
  BY <1>1 DEF PremiumOf
<1>4. HoursRead(v) = HoursRead(w) /\ HoursRead(w)[h] = 0
  <2>1. \A x \in HoursFields : x # p
    BY <1>3 DEF HoursFields
  <2> QED
    BY <1>2, <2>1 DEF HoursRead
<1>5. \A x, path : path # p \/ x = h => ReadFor(v, x, path) = ReadFor(w, x, path)
  BY <1>2, <1>4 DEF ReadFor
<1>6. \A x \in DOMAIN PremiumOf : ReadFor(v, x, PremiumOf[x]) = ReadFor(w, x, PremiumOf[x])
  BY <1>3, <1>5
<1> DEFINE Keys(u) == UNION {IF Read(u, path) = {} THEN {} ELSE {EnteredKey[path]} : path \in EnteredFields}
           Entry(u, key) == The(Read(u, CHOOSE path \in EnteredFields : EnteredKey[path] = key))
           Enters(u) == [key \in Keys(u) |-> Entry(u, key)]
<1>7. \A path \in EnteredFields : path # p
  BY <1>3 DEF EnteredFields, EnteredNeeded
<1>8. \A u, key : key \in Keys(u) <=> \E path \in EnteredFields : Read(u, path) # {} /\ EnteredKey[path] = key
  OBVIOUS
<1>9. Enters(v) = Enters(w)
  <2>1. Keys(v) = Keys(w)
    <3>1. \A key : key \in Keys(v) <=> key \in Keys(w)
      BY <1>2, <1>7, <1>8
    <3> QED
      BY <3>1
  <2>2. ASSUME NEW key \in Keys(v)
        PROVE  Entry(v, key) = Entry(w, key)
    <3>1. PICK path : path = CHOOSE q \in EnteredFields : EnteredKey[q] = key
      OBVIOUS
    <3>2. \E q \in EnteredFields : EnteredKey[q] = key
      BY <1>8, <2>2
    <3>3. path \in EnteredFields
      BY <3>1, <3>2
    <3> QED
      BY <1>2, <1>7, <3>1, <3>3
  <2> HIDE DEF Keys, Entry
  <2> QED
    BY <2>1, <2>2
<1>10. \A u : EngineInput(u) =
         [rate |-> The(Read(u, "pay.hourlyRate")),
          grids |-> WeekGrids(HoursRead(u), ReadFor(u, "work.overtimeHours", "work.overtimeDistribution")),
          threshold |-> ReadFor(u, "work.overtimeHours", "pay.overtime.thresholdHoursPerDay"),
          tier1 |-> ReadFor(u, "work.overtimeHours", "pay.overtime.tier1Percent"),
          tier2 |-> ReadFor(u, "work.overtimeHours", "pay.overtime.tier2Percent"),
          saturday |-> ReadFor(u, "work.saturdayHours", PremiumOf["work.saturdayHours"]),
          sunday |-> ReadFor(u, "work.sundayHours", PremiumOf["work.sundayHours"]),
          holiday |-> ReadFor(u, "work.publicHolidayHours", PremiumOf["work.publicHolidayHours"]),
          surcharges |-> <<>>, credit |-> Read(u, "tax.loonheffingskorting") = {"applied"},
          travel |-> OrZero(Read(u, "extras.travelAllowance")),
          vakantiegeld |-> [mode |-> IF Read(u, "extras.vakantiegeld.mode") = {"accruing"} THEN "accruing" ELSE "none"],
          deductions |-> [mode |-> The(Read(u, "deductions.mode")), entered |-> Enters(u)]]
  BY DEF EngineInput, HoursRead, ReadFor
<1> HIDE DEF Enters
<1>11. /\ Read(v, "pay.hourlyRate") = Read(w, "pay.hourlyRate")
       /\ Read(v, "tax.loonheffingskorting") = Read(w, "tax.loonheffingskorting")
       /\ Read(v, "extras.travelAllowance") = Read(w, "extras.travelAllowance")
       /\ Read(v, "extras.vakantiegeld.mode") = Read(w, "extras.vakantiegeld.mode")
       /\ Read(v, "deductions.mode") = Read(w, "deductions.mode")
  BY <1>2, <1>3
<1>12. \A path \in {"work.overtimeDistribution", "pay.overtime.thresholdHoursPerDay", "pay.overtime.tier1Percent", "pay.overtime.tier2Percent"} :
         ReadFor(v, "work.overtimeHours", path) = ReadFor(w, "work.overtimeHours", path)
  BY <1>3, <1>5
<1>13. \A x \in {"work.saturdayHours", "work.sundayHours", "work.publicHolidayHours"} :
         ReadFor(v, x, PremiumOf[x]) = ReadFor(w, x, PremiumOf[x])
  BY <1>6 DEF PremiumOf
<1> QED
  BY <1>4, <1>9, <1>10, <1>11, <1>12, <1>13

LEMMA SameRun ==
  ASSUME NEW v, Sound(v), runEngine(v).requirements = {}, NEW w, Sound(w), runEngine(w).requirements = {},
         NEW h \in DOMAIN PremiumOf, HoursRead(v)[h] = 0, Beside(v, w, PremiumOf[h])
  PROVE  runEngine(v).payout = runEngine(w).payout /\ runEngine(v).estimate = runEngine(w).estimate /\ Ends(runEngine(v)) = Ends(runEngine(w))
<1>1. EngineInput(v) = EngineInput(w)
  BY SameInput
<1>2. /\ runEngine(v).payout = computeTierAResult(EngineInput(v)).payout
      /\ runEngine(v).estimate = computeTierAResult(EngineInput(v)).payout_range
      /\ runEngine(w).payout = computeTierAResult(EngineInput(w)).payout
      /\ runEngine(w).estimate = computeTierAResult(EngineInput(w)).payout_range
  BY RunOfSound
<1>3. runEngine(v).payout = runEngine(w).payout /\ runEngine(v).estimate = runEngine(w).estimate
  BY <1>1, <1>2
<1> QED
  BY <1>3 DEF Ends

\* Hours that the central variant has at nothing are at nothing in every variant: the middle of a range is nothing only
\* where both its ends are.
LEMMA IdleInVariants ==
  ASSUME NEW s, Sound(s), NEW h \in HoursFields, ~\E x \in Read(CentralVariant(s), h) : x > 0,
         NEW v \in Variants(s), Sound(v)
  PROVE  HoursRead(v)[h] = 0
<1>1. PICK c : c = CentralVariant(s)
  OBVIOUS
<1>2. c \in Variants(s)
  BY <1>1 DEF Variants
<1>3. h \in NumberPaths /\ h \in FieldPaths
  BY DEF NumberPaths, FieldPaths
<1>4. HoursRead(v)[h] = OrZero(Read(v, h)) /\ OrZero(Read(v, h)) \in Nat
         /\ (OrZero(Read(v, h)) > 0 <=> \E x \in Read(v, h) : x > 0)
  BY <1>3, NumberRead DEF HoursRead
<1> SUFFICES ASSUME NEW x \in Read(v, h), x > 0
             PROVE  FALSE
  BY <1>4
<1>5. At(v, h).state = "known" /\ At(v, h).value = x /\ x \in Nat
  BY <1>3, SoundRead DEF SoundValue
<1>6. CASE At(s, h).state \notin {"range", "alternatives"}
  <2>1. At(v, h) = At(s, h) /\ At(c, h) = At(s, h)
    BY <1>2, <1>6, AtVariant
  <2>2. x \in Read(c, h)
    BY <2>1 DEF Read
  <2> QED
    BY <1>1, <2>2
<1>7. CASE At(s, h).state \in {"range", "alternatives"}
  <2>1. h \in DOMAIN s.fields /\ Possible(s, h, x)
    BY <1>5, <1>7, AtVariant
  <2>2. PICK given : given = s.fields[h]
    OBVIOUS
  <2>3. At(s, h) = given /\ given \in NodesFor(h) /\ checkField(h, given) = {}
    BY <2>1, <2>2, CheckedScenario DEF At, Sound
  <2>4. given.state = "range"
    BY <1>3, <1>7, <2>3, NodeShape
  <2>5. given.low \in Nat /\ given.high \in Nat /\ given.low <= given.high
    <3>1. SoundValue(h, given.low) /\ SoundValue(h, given.high) /\ given.low <= given.high
      BY <1>3, <2>3, <2>4, CheckedField
    <3> QED
      BY <1>3, <3>1 DEF SoundValue
  <2>6. h \in Inexact(s)
    BY <2>1, <2>2, <2>4 DEF Inexact
  <2>7. CentralOf(s)[h] = Rounded(given.low + given.high, 2)
    BY <2>2, <2>4, <2>6 DEF CentralOf, collectUncertain, Inexact
  <2>8. c.fields[h] = [state |-> "known", value |-> CentralOf(s)[h], source |-> s.fields[h].source] /\ DOMAIN c.fields = DOMAIN s.fields
    BY <1>1, <2>6, ResolvedIs, VariantsSettle DEF CentralVariant, Sound
  <2>9. CentralOf(s)[h] \in Read(c, h)
    BY <2>1, <2>8 DEF Read, At
  <2>10. x <= given.high
    BY <2>1, <2>2, <2>4 DEF Possible
  <2>11. Rounded(given.low + given.high, 2) > 0
    BY <1>5, <2>5, <2>10 DEF Rounded
  <2> QED
    BY <1>1, <2>7, <2>9, <2>11
<1> QED
  BY <1>6, <1>7

\* The variants of a scenario and of the one that has another node for a number stated exactly: they differ in it alone.
LEMMA VariantsBeside ==
  ASSUME NEW s, Sound(s), NEW p \in DOMAIN s.fields, p \notin Inexact(s), p \in NumberPaths, NEW given,
         Sound([s EXCEPT !.fields[p] = given])
  PROVE  LET other == [s EXCEPT !.fields[p] = given]
         IN  /\ \A v \in Variants(s) : \E w \in Variants(other) : Beside(v, w, p)
             /\ \A w \in Variants(other) : \E v \in Variants(s) : Beside(v, w, p)
             /\ Beside(CentralVariant(s), CentralVariant(other), p)
<1>1. PICK other : other = [s EXCEPT !.fields[p] = given]
  OBVIOUS
<1>2. /\ Sound(other) /\ DOMAIN other.fields = DOMAIN s.fields /\ other.fields[p] = given
      /\ \A q \in DOMAIN s.fields : q # p => other.fields[q] = s.fields[q]
  <2>1. s = [fields |-> s.fields, concepts |-> s.concepts]
    BY DEF Sound, IsScenario
  <2>2. other.fields = [s.fields EXCEPT ![p] = given]
    BY <1>1, <2>1
  <2> QED
    BY <1>1, <2>2
<1>3. Inexact(s) \subseteq Inexact(other) /\ Inexact(other) \subseteq Inexact(s) \cup {p} /\ Inexact(s) \subseteq DOMAIN s.fields
  BY <1>2 DEF Inexact
<1>4. ASSUME NEW a, Settling(s, a), NEW b, Settling(other, b), \A q \in Inexact(s) : a[q] = b[q]
      PROVE  Beside(resolveWith(s, a), resolveWith(other, b), p)
  <2>1. PICK v, w : v = resolveWith(s, a) /\ w = resolveWith(other, b)
    OBVIOUS
  <2>2. /\ DOMAIN v.fields = DOMAIN s.fields
        /\ \A q \in Inexact(s) : v.fields[q] = [state |-> "known", value |-> a[q], source |-> s.fields[q].source]
        /\ \A q \in DOMAIN s.fields : q \notin Inexact(s) => v.fields[q] = s.fields[q]
    BY <1>4, <2>1, ResolvedIs DEF Sound
  <2>3. /\ DOMAIN w.fields = DOMAIN s.fields
        /\ \A q \in Inexact(other) : w.fields[q] = [state |-> "known", value |-> b[q], source |-> other.fields[q].source]
        /\ \A q \in DOMAIN s.fields : q \notin Inexact(other) => w.fields[q] = other.fields[q]
    BY <1>2, <1>4, <2>1, ResolvedIs DEF Sound
  <2>4. ASSUME NEW q \in DOMAIN s.fields, q # p
        PROVE  v.fields[q] = w.fields[q]
    <3>1. other.fields[q] = s.fields[q] /\ (q \in Inexact(other) <=> q \in Inexact(s))
      BY <1>2, <1>3, <2>4
    <3>2. CASE q \in Inexact(s)
      BY <1>4, <2>2, <2>3, <3>1, <3>2
    <3>3. CASE q \notin Inexact(s)
      BY <2>2, <2>3, <3>1, <3>3
    <3> QED
      BY <3>2, <3>3
  <2> QED
    BY <2>1, <2>2, <2>3, <2>4 DEF Beside
<1>5. /\ \A q \in Inexact(s) : CentralOf(s)[q] = CentralOf(other)[q] /\ CandidatesOf(s)[q] = CandidatesOf(other)[q]
      /\ p \in Inexact(other) => given.low \in CandidatesOf(other)[p]
  <2>1. ASSUME NEW q \in Inexact(s)
        PROVE  collectUncertain(s)[q] = collectUncertain(other)[q]
    <3>1. q \in Inexact(other) /\ q \in DOMAIN s.fields /\ other.fields[q] = s.fields[q]
      BY <1>2, <1>3
    <3> QED
      BY <3>1 DEF collectUncertain, Inexact
  <2>2. ASSUME p \in Inexact(other)
        PROVE  given.low \in CandidatesOf(other)[p]
    <3>1. given.state = "range"
      <4>1. given \in NodesFor(p) /\ p \in FieldPaths
        BY <1>2, CheckedScenario DEF Sound
      <4>2. given.state \in {"range", "alternatives"}
        BY <1>2, <2>2 DEF Inexact
      <4> QED
        BY <4>1, <4>2, NodeShape
    <3>2. collectUncertain(other)[p].candidates = {given.low, given.high}
      BY <1>2, <2>2, <3>1 DEF collectUncertain, Inexact
    <3> QED
      BY <2>2, <3>2 DEF CandidatesOf
  <2> QED
    BY <1>3, <2>1, <2>2 DEF CentralOf, CandidatesOf
<1>6. /\ Settling(s, CentralOf(s)) /\ \A a \in PicksFrom(CandidatesOf(s), Inexact(s)) : Settling(s, a)
      /\ Settling(other, CentralOf(other)) /\ \A b \in PicksFrom(CandidatesOf(other), Inexact(other)) : Settling(other, b)
  BY <1>2, VariantsSettle
<1>7. Beside(CentralVariant(s), CentralVariant(other), p)
  BY <1>4, <1>5, <1>6 DEF CentralVariant
<1>8. ASSUME NEW a \in PicksFrom(CandidatesOf(s), Inexact(s))
      PROVE  \E b \in PicksFrom(CandidatesOf(other), Inexact(other)) : \A q \in Inexact(s) : a[q] = b[q]
  <2>1. PICK b : b = [q \in Inexact(other) |-> IF q = p THEN given.low ELSE a[q]]
    OBVIOUS
  <2>2. \A q \in Inexact(other) : b[q] \in CandidatesOf(other)[q]
    <3>1. \A q \in Inexact(s) : a[q] \in CandidatesOf(s)[q]
      BY DEF PicksFrom
    <3> QED
      BY <1>3, <1>5, <2>1, <3>1
  <2>3. b \in PicksFrom(CandidatesOf(other), Inexact(other))
    BY <2>1, <2>2 DEF PicksFrom
  <2>4. \A q \in Inexact(s) : a[q] = b[q]
    BY <1>3, <2>1
  <2> QED
    BY <2>3, <2>4
<1>9. ASSUME NEW b \in PicksFrom(CandidatesOf(other), Inexact(other))
      PROVE  \E a \in PicksFrom(CandidatesOf(s), Inexact(s)) : \A q \in Inexact(s) : a[q] = b[q]
  <2>1. PICK a : a = [q \in Inexact(s) |-> b[q]]
    OBVIOUS
  <2>2. \A q \in Inexact(s) : a[q] \in CandidatesOf(s)[q]
    <3>1. \A q \in Inexact(other) : b[q] \in CandidatesOf(other)[q]
      BY DEF PicksFrom
    <3> QED
      BY <1>3, <1>5, <2>1, <3>1
  <2>3. a \in PicksFrom(CandidatesOf(s), Inexact(s))
    BY <2>1, <2>2 DEF PicksFrom
  <2> QED
    BY <2>1, <2>3
<1>10. ASSUME NEW v \in Variants(s)
       PROVE  \E w \in Variants(other) : Beside(v, w, p)
  <2>1. CASE v = CentralVariant(s)
    BY <1>7, <2>1 DEF Variants
  <2>2. CASE v # CentralVariant(s)
    <3>1. PICK a \in PicksFrom(CandidatesOf(s), Inexact(s)) : v = resolveWith(s, a)
      BY <2>2 DEF Variants
    <3>2. PICK b \in PicksFrom(CandidatesOf(other), Inexact(other)) : \A q \in Inexact(s) : a[q] = b[q]
      BY <1>8
    <3>3. Beside(v, resolveWith(other, b), p)
      BY <1>4, <1>6, <3>1, <3>2
    <3> QED
      BY <3>3 DEF Variants
  <2> QED
    BY <2>1, <2>2
<1>11. ASSUME NEW w \in Variants(other)
       PROVE  \E v \in Variants(s) : Beside(v, w, p)
  <2>1. CASE w = CentralVariant(other)
    BY <1>7, <2>1 DEF Variants
  <2>2. CASE w # CentralVariant(other)
    <3>1. PICK b \in PicksFrom(CandidatesOf(other), Inexact(other)) : w = resolveWith(other, b)
      BY <2>2 DEF Variants
    <3>2. PICK a \in PicksFrom(CandidatesOf(s), Inexact(s)) : \A q \in Inexact(s) : a[q] = b[q]
      BY <1>9
    <3>3. Beside(resolveWith(s, a), w, p)
      BY <1>4, <1>6, <3>1, <3>2
    <3> QED
      BY <3>3 DEF Variants
  <2> QED
    BY <2>1, <2>2
<1> QED
  BY <1>1, <1>7, <1>10, <1>11

EndsOf(runs) == UNION {Ends(run) : run \in runs}

\* No range is shown of a single figure.
LEMMA RangeOfOne ==
  ASSUME NEW runs, NEW n \in Int, EndsOf(runs) = {n}
  PROVE  buildRange(runs) = {}
<1>1. Min({n}) = n /\ Max({n}) = n
  BY DEF Min, Max
<1>2. PICK reference \in Int : reference = (n + n) \div 2
  OBVIOUS
<1>3. rangeMaterialityThreshold(reference) > 0
  <2>1. PICK r \in Int : r = Rounded(Magnitude(reference), 100)
    <3>1. Magnitude(reference) \in Int
      BY DEF Magnitude
    <3> QED
      BY <3>1, RoundedIsInt
  <2>2. rangeMaterialityThreshold(reference) = Max({AbsoluteSwing, r})
    BY <2>1 DEF rangeMaterialityThreshold
  <2>3. AbsoluteSwing \in Int /\ AbsoluteSwing > 0
    BY SwingAssumption
  <2>4. CASE r > AbsoluteSwing
    <3>1. Max({AbsoluteSwing, r}) = r
      BY <2>3, <2>4, MaxIs
    <3> QED
      BY <2>2, <2>3, <2>4, <3>1
  <2>5. CASE ~(r > AbsoluteSwing)
    <3>1. Max({AbsoluteSwing, r}) = AbsoluteSwing
      BY <2>3, <2>5, MaxIs
    <3> QED
      BY <2>2, <2>3, <3>1
  <2> QED
    BY <2>4, <2>5
<1>4. n - n < rangeMaterialityThreshold(reference)
  <2>1. n - n = 0
    OBVIOUS
  <2>2. rangeMaterialityThreshold(reference) > 0 => 0 < rangeMaterialityThreshold(reference)
    OBVIOUS
  <2> QED
    BY <1>3, <2>1, <2>2
<1> QED
  BY <1>1, <1>2, <1>4 DEF buildRange, EndsOf

LEMMA RangeOfEnds ==
  ASSUME NEW runs, NEW others, EndsOf(runs) = EndsOf(others)
  PROVE  buildRange(runs) = buildRange(others)
BY DEF buildRange, EndsOf

\* Only the surcharge of hours that nobody works is an assumption in the scenario that is not disclosed.
LEMMA UndisclosedIsIdle ==
  ASSUME NEW s, IsScenario(s), evaluateScenario(s).status = "computed",
         NEW p \in DOMAIN ASSUMPTION_CATALOG \cap DOMAIN s.fields, s.fields[p] = ASSUMPTION_CATALOG[p],
         p \notin evaluateScenario(s).assumptionsUsed
  PROVE  /\ \E h \in DOMAIN PremiumOf : p = PremiumOf[h] /\ ~\E x \in Read(CentralVariant(s), h) : x > 0
         /\ p \notin Inexact(s) /\ p \in NumberPaths
<1>1. PICK c : c = CentralVariant(s)
  OBVIOUS
<1>2. PICK runs : runs = {runEngine(v) : v \in Variants(s)}
  OBVIOUS
<1>3. /\ Sound(s) /\ c \in Variants(s) /\ Sound(c) /\ runEngine(c).requirements = {}
      /\ evaluateScenario(s) = Computed(s, runEngine(c), runs, collectUncertain(s), collectWarnings(s))
  BY <1>1, <1>2, EvaluationComputed DEF Variants
<1>4. runEngine(c).consumed = Consumed(c)
  BY <1>3, RunOfSound
<1>5. DOMAIN c.fields = DOMAIN s.fields
  BY <1>1, <1>3, VariantsSettle, ResolvedIs DEF CentralVariant, Sound
<1>6. s.fields[p].state \in {"known", "alternatives"} /\ s.fields[p].source = "loonto_assumption"
  BY DEF ASSUMPTION_CATALOG, assumptionNode
<1>7. evaluateScenario(s).assumptionsUsed = {q \in DOMAIN s.fields \cap runEngine(c).consumed :
                      s.fields[q].state \notin {"unknown", "conflict"} /\ s.fields[q].source = "loonto_assumption"}
  BY <1>3 DEF Computed
<1>8. p \notin Consumed(c)
  BY <1>4, <1>6, <1>7
<1>9. p \in {"pay.saturdayPremiumPercent", "pay.sundayPremiumPercent", "pay.publicHolidayPremiumPercent", "deductions.mode", "tax.loonheffingskorting"}
  BY DEF ASSUMPTION_CATALOG
<1>10. p \notin OvertimeTerms \cup {"pay.overtime.tier2Percent"} \cup EnteredFields \cup {"extras.vakantiegeld.percent"}
  BY <1>9 DEF OvertimeTerms, EnteredFields, EnteredNeeded
<1>11. p \in {PremiumOf[h] : h \in {x \in DOMAIN PremiumOf : ~\E v \in Read(c, x) : v > 0}}
  BY <1>5, <1>8, <1>10 DEF Consumed
<1>12. PICK h \in DOMAIN PremiumOf : p = PremiumOf[h] /\ ~\E x \in Read(c, h) : x > 0
  BY <1>11
<1>13. p \in NumberPaths /\ p \notin {"deductions.mode", "tax.loonheffingskorting"}
  BY <1>12 DEF PremiumOf, NumberPaths, PercentFields
<1>14. s.fields[p].state = "known"
  BY <1>9, <1>13 DEF ASSUMPTION_CATALOG, assumptionNode
<1> QED
  BY <1>1, <1>12, <1>13, <1>14 DEF Inexact

LEMMA EndsOfVariants ==
  ASSUME NEW s, NEW runs, runs = {runEngine(v) : v \in Variants(s)}
  PROVE  \A n : n \in EndsOf(runs) <=> \E v \in Variants(s) : n \in Ends(runEngine(v))
BY DEF EndsOf

\* Another node in the field gives the same figure and the same range.
LEMMA SameEvaluation ==
  ASSUME NEW s, IsScenario(s), evaluateScenario(s).status = "computed",
         NEW p \in DOMAIN ASSUMPTION_CATALOG \cap DOMAIN s.fields, s.fields[p] = ASSUMPTION_CATALOG[p],
         p \notin evaluateScenario(s).assumptionsUsed,
         NEW given \in NodesFor(p), evaluateScenario([s EXCEPT !.fields[p] = given]).status = "computed"
  PROVE  /\ evaluateScenario([s EXCEPT !.fields[p] = given]).payout = evaluateScenario(s).payout
         /\ evaluateScenario([s EXCEPT !.fields[p] = given]).range = evaluateScenario(s).range
<1>1. PICK other : other = [s EXCEPT !.fields[p] = given]
  OBVIOUS
<1>2. IsScenario(other)
  <2>1. s = [fields |-> s.fields, concepts |-> s.concepts] /\ WellWritten(s.fields)
    BY DEF IsScenario
  <2>2. PICK fields : fields = [s.fields EXCEPT ![p] = given]
    OBVIOUS
  <2>3. other = [fields |-> fields, concepts |-> s.concepts]
    BY <1>1, <2>1, <2>2
  <2>4. WellWritten(fields)
    BY <2>1, <2>2 DEF WellWritten
  <2> QED
    BY <2>3, <2>4 DEF IsScenario
<1>3. PICK runs, others : runs = {runEngine(v) : v \in Variants(s)} /\ others = {runEngine(w) : w \in Variants(other)}
  OBVIOUS
<1>4. PICK c, d : c = runEngine(CentralVariant(s)) /\ d = runEngine(CentralVariant(other))
  OBVIOUS
<1>5. /\ Sound(s) /\ \A v \in Variants(s) : Sound(v) /\ runEngine(v).requirements = {}
      /\ evaluateScenario(s) = Computed(s, c, runs, collectUncertain(s), collectWarnings(s))
  BY <1>3, <1>4, EvaluationComputed
<1>6. /\ Sound(other) /\ \A w \in Variants(other) : Sound(w) /\ runEngine(w).requirements = {}
      /\ evaluateScenario(other) = Computed(other, d, others, collectUncertain(other), collectWarnings(other))
  BY <1>1, <1>2, <1>3, <1>4, EvaluationComputed
<1>7. PICK h \in DOMAIN PremiumOf : p = PremiumOf[h] /\ ~\E x \in Read(CentralVariant(s), h) : x > 0
  BY UndisclosedIsIdle
<1>8. p \notin Inexact(s) /\ p \in NumberPaths
  BY UndisclosedIsIdle
<1>9. h \in HoursFields
  BY DEF HoursFields, PremiumOf
<1>10. \A v \in Variants(s) : HoursRead(v)[h] = 0
  BY <1>5, <1>7, <1>9, IdleInVariants
<1>11. /\ \A v \in Variants(s) : \E w \in Variants(other) : Beside(v, w, p)
       /\ \A w \in Variants(other) : \E v \in Variants(s) : Beside(v, w, p)
       /\ Beside(CentralVariant(s), CentralVariant(other), p)
  BY <1>1, <1>5, <1>6, <1>8, VariantsBeside
<1>12. \A v \in Variants(s) : \A w \in Variants(other) : Beside(v, w, p) =>
         runEngine(v).payout = runEngine(w).payout /\ runEngine(v).estimate = runEngine(w).estimate /\ Ends(runEngine(v)) = Ends(runEngine(w))
  BY <1>5, <1>6, <1>7, <1>10, SameRun
<1>13. CentralVariant(s) \in Variants(s) /\ CentralVariant(other) \in Variants(other)
  BY DEF Variants
<1>14. c.payout = d.payout /\ c.estimate = d.estimate
  BY <1>4, <1>11, <1>12, <1>13
<1>15. EndsOf(runs) = EndsOf(others)
  <2>1. \A n : n \in EndsOf(runs) <=> \E v \in Variants(s) : n \in Ends(runEngine(v))
    BY <1>3, EndsOfVariants
  <2>2. \A n : n \in EndsOf(others) <=> \E w \in Variants(other) : n \in Ends(runEngine(w))
    BY <1>3, EndsOfVariants
  <2>3. \A n : n \in EndsOf(runs) <=> n \in EndsOf(others)
    BY <1>11, <1>12, <2>1, <2>2
  <2> QED
    BY <2>3 DEF EndsOf
<1>16. buildRange(runs) = buildRange(others)
  BY <1>15, RangeOfEnds
<1>17. /\ evaluateScenario(s).payout = c.payout
       /\ evaluateScenario(s).range = IF Inexact(s) # {} \/ c.estimate # {} THEN buildRange(runs) ELSE {}
  BY <1>5, UncertainIs DEF Computed
<1>18. /\ evaluateScenario(other).payout = d.payout
       /\ evaluateScenario(other).range = IF Inexact(other) # {} \/ d.estimate # {} THEN buildRange(others) ELSE {}
  BY <1>6, UncertainIs DEF Computed
<1>19. Inexact(s) = {} /\ c.estimate = {} => buildRange(runs) = {}
  <2> SUFFICES ASSUME Inexact(s) = {}, c.estimate = {}
               PROVE  buildRange(runs) = {}
    OBVIOUS
  <2>1. PicksFrom(CandidatesOf(s), Inexact(s)) = {<<>>}
    BY PicksFromNone
  <2>2. CentralOf(s) = <<>>
    BY DEF CentralOf
  <2>3. Variants(s) = {CentralVariant(s)}
    BY <2>1, <2>2 DEF Variants, CentralVariant
  <2>4. runs = {c}
    BY <1>3, <1>4, <2>3
  <2>5. Ends(c) = {c.payout}
    BY DEF Ends
  <2>6. EndsOf(runs) = {c.payout}
    BY <2>4, <2>5 DEF EndsOf
  <2>7. c.payout \in Int
    BY <1>4, <1>5, <1>13, RunOfSound
  <2> QED
    BY <2>6, <2>7, RangeOfOne
<1>20. Inexact(s) # {} => Inexact(other) # {}
  <2>1. \A q \in DOMAIN s.fields : q # p => q \in DOMAIN other.fields /\ other.fields[q] = s.fields[q]
    <3>1. s = [fields |-> s.fields, concepts |-> s.concepts]
      BY DEF IsScenario
    <3>2. other.fields = [s.fields EXCEPT ![p] = given]
      BY <1>1, <3>1
    <3> QED
      BY <3>2
  <2> QED
    BY <1>8, <2>1 DEF Inexact
<1> QED
  BY <1>1, <1>14, <1>16, <1>17, <1>18, <1>19, <1>20

(***************************************************************************)
(* What is asked                                                           *)
(***************************************************************************)
LEMMA RanksAre ==
  ASSUME NEW field \in FieldPaths \cup {"work.hours"}
  PROVE  fieldRank(field) \in Nat
<1>1. DOMAIN FIELD_PRIORITY = 1 .. 23
  BY DEF FIELD_PRIORITY
<1>2. \E i \in 1 .. 23 : FIELD_PRIORITY[i] = field
  <2>1. CASE field \in NumberPaths
    BY <2>1, NumberPathsAre DEF FIELD_PRIORITY
  <2>2. CASE field \in DOMAIN ChoiceFields \cup {"work.overtimeDistribution", "work.hours"}
    BY <2>2, NumberPathsAre DEF FIELD_PRIORITY
  <2> QED
    BY <2>1, <2>2 DEF FieldPaths
<1>3. fieldRank(field) \in 1 .. 23
  BY <1>1, <1>2 DEF fieldRank
<1> QED
  BY <1>3

LEMMA FirstOfIs ==
  ASSUME NEW fields \in SUBSET (FieldPaths \cup {"work.hours"}), fields # {}
  PROVE  FirstOf(fields) \in fields
<1>1. PICK f \in fields : TRUE
  OBVIOUS
<1>2. PICK ranks : ranks = {fieldRank(g) : g \in fields}
  OBVIOUS
<1>3. ranks \in SUBSET Nat /\ fieldRank(f) \in ranks
  BY <1>1, <1>2, RanksAre
<1>4. PICK m \in ranks : \A y \in ranks : m <= y
  BY <1>3, NatMin
<1>5. PICK first \in fields : m = fieldRank(first)
  BY <1>2, <1>4
<1>6. \A g \in fields : fieldRank(first) <= fieldRank(g)
  BY <1>2, <1>4, <1>5
<1> QED
  BY <1>5, <1>6 DEF FirstOf

LEMMA IssuePaths ==
  ASSUME NEW s, IsScenario(s), NEW i \in IssuesOf(s)
  PROVE  i.path \in FieldPaths \cup {"work"}
<1>1. \A code, path, params : Issue(code, path, params).path = path
  BY DEF Issue
<1>2. \A path, value, j : j \in checkNumber(path, value) => j.path = path
  BY <1>1 DEF checkNumber
<1>3. ASSUME NEW path, NEW value, NEW j \in checkDistribution(path, value)
      PROVE  j.path = path
  <2>1. \E code, params : j = Issue(code, path, params)
    <3>1. CASE value.kind = "even"
      BY <1>3, <3>1 DEF checkDistribution
    <3>2. CASE value.kind # "even"
      BY <1>3, <3>2 DEF checkDistribution
    <3> QED
      BY <3>1, <3>2
  <2> QED
    BY <1>1, <2>1
<1>4. \A path, value, j : j \in checkValue(path, value) => j.path = path
  BY <1>1, <1>2, <1>3 DEF checkValue, When
<1>5. ASSUME NEW path, NEW given, NEW j \in checkField(path, given)
      PROVE  j.path = path
  <2>1. CASE given.state = "unknown"
    BY <1>5, <2>1 DEF checkField
  <2>2. CASE given.state = "known"
    BY <1>4, <1>5, <2>2 DEF checkField
  <2>3. CASE given.state = "range"
    BY <1>1, <1>2, <1>5, <2>3 DEF checkField, When
  <2>4. CASE given.state = "conflict"
    BY <1>1, <1>4, <1>5, <2>4 DEF checkField
  <2>5. CASE given.state \notin {"unknown", "known", "range", "conflict"}
    BY <1>1, <1>4, <1>5, <2>5 DEF checkField
  <2> QED
    BY <2>1, <2>2, <2>3, <2>4, <2>5
<1>6. i \in FieldIssues(s) \/ i \in crossChecks(s)
  BY DEF IssuesOf, IssuesBeside
<1>7. CASE i \in FieldIssues(s)
  <2>1. PICK path \in DOMAIN s.fields : i \in checkField(path, s.fields[path])
    BY <1>7 DEF FieldIssues
  <2> QED
    BY <1>5, <2>1 DEF IsScenario, WellWritten
<1>8. CASE i \in crossChecks(s)
  <2>1. i.path = "work" \/ i.path = "work.overtimeDistribution"
    <3>1. \/ \E params : i = Issue("hours_exceed_week", "work", params)
          \/ \E params : i = Issue("overtime_distribution_mismatch", "work.overtimeDistribution", params)
          \/ \E params : i = Issue("day_hours_exceed_24", "work", params)
      BY <1>8 DEF crossChecks, When
    <3> QED
      BY <1>1, <3>1
  <2> QED
    BY <2>1 DEF FieldPaths
<1> QED
  BY <1>6, <1>7, <1>8

\* A requirement names a field, or the hours as a whole; one that speaks of a conflict names a field in conflict.
Answerable(s, r) ==
  /\ r.field \in FieldPaths \cup {"work.hours"}
  /\ r.reason = "conflict" => r.field \in DOMAIN s.fields /\ s.fields[r.field].state = "conflict"

LEMMA RequirementsAnswerable ==
  ASSUME NEW s, NEW r \in collectRequirements(s)
  PROVE  Answerable(s, r)
<1>1. \A p : valueStatus(At(s, p)) = "conflict" => p \in DOMAIN s.fields /\ s.fields[p].state = "conflict"
  BY DEF At, valueStatus
<1>2. \A paths : \A x \in Unsettled(s, paths) \cup Need(s, paths) : x.field \in paths /\ x.reason = valueStatus(At(s, x.field))
  BY DEF Unsettled, Need, Requirement
<1>3. \A paths : paths \subseteq FieldPaths => \A x \in Unsettled(s, paths) \cup Need(s, paths) : Answerable(s, x)
  BY <1>1, <1>2 DEF Answerable
<1>4. Answerable(s, Requirement("work.hours", "missing"))
  BY DEF Answerable, Requirement
<1>5. HoursFields \subseteq FieldPaths /\ OvertimeTerms \subseteq FieldPaths /\ EnteredNeeded \subseteq FieldPaths
  BY NumberPathsAre DEF FieldPaths, HoursFields, OvertimeTerms, EnteredNeeded
<1>6. {PremiumOf[h] : h \in {x \in DOMAIN PremiumOf : hoursRelevance(At(s, x)) = "some"}} \subseteq FieldPaths
  BY DEF FieldPaths, NumberPaths, PercentFields
<1>7. /\ {"pay.hourlyRate", "tax.loonheffingskorting", "deductions.mode"} \subseteq FieldPaths
      /\ {"deductions.entered.postTaxOther", "extras.travelAllowance"} \subseteq FieldPaths
      /\ {"extras.vakantiegeld.mode"} \subseteq FieldPaths /\ {"extras.vakantiegeld.percent"} \subseteq FieldPaths
  BY NumberPathsAre DEF FieldPaths
<1>8. \/ r \in Unsettled(s, HoursFields)
      \/ r = Requirement("work.hours", "missing")
      \/ r \in Need(s, {"pay.hourlyRate", "tax.loonheffingskorting", "deductions.mode"})
      \/ r \in Need(s, {PremiumOf[h] : h \in {x \in DOMAIN PremiumOf : hoursRelevance(At(s, x)) = "some"}})
      \/ r \in Need(s, OvertimeTerms)
      \/ r \in Need(s, EnteredNeeded)
      \/ r \in Unsettled(s, {"deductions.entered.postTaxOther", "extras.travelAllowance"})
      \/ r \in Need(s, {"extras.vakantiegeld.mode"})
      \/ r \in Need(s, {"extras.vakantiegeld.percent"})
  BY DEF collectRequirements, When
<1> QED
  BY <1>3, <1>4, <1>5, <1>6, <1>7, <1>8

LEMMA EngineAnswerable ==
  ASSUME NEW s, Sound(s), collectRequirements(s) = {}, NEW v \in Variants(s), Sound(v), NEW r \in runEngine(v).requirements
  PROVE  Answerable(s, r)
<1>1. r.field = Tier2 /\ Tier2 \in FieldPaths
  BY RunOfVariant, NumberPathsAre DEF Tier2, FieldPaths
<1>2. /\ \A p \in NeededByEngine(v) : At(v, p).state = "known"
      /\ \A p \in ReadByEngine(v) \ {Tier2} : At(v, p).state \in {"missing", "known"}
  BY VariantIsMapped
<1>3. \/ r \in Unmet(v, NeededByEngine(v)) \cup Unread(v, ReadByEngine(v))
      \/ r = EngineRequires(Tier2)
  BY RunOfSound DEF Tier2
<1>4. Unmet(v, NeededByEngine(v)) = {}
  BY <1>2 DEF Unmet, Unread
<1>5. r.reason = "conflict" => valueStatus(At(v, Tier2)) = "conflict"
  BY <1>1, <1>3, <1>4 DEF Unread, EngineRequires, Requirement
<1>6. valueStatus(At(v, Tier2)) = "conflict" => Tier2 \in DOMAIN s.fields /\ s.fields[Tier2].state = "conflict"
  <2> SUFFICES ASSUME valueStatus(At(v, Tier2)) = "conflict"
               PROVE  Tier2 \in DOMAIN s.fields /\ s.fields[Tier2].state = "conflict"
    OBVIOUS
  <2>1. At(v, Tier2).state = "conflict"
    BY DEF valueStatus
  <2>2. At(s, Tier2) = At(v, Tier2)
    BY <2>1, AtVariant
  <2> QED
    BY <2>1, <2>2 DEF At
<1> QED
  BY <1>1, <1>5, <1>6 DEF Answerable

\* What an evaluation asks for can be answered.
Asks(s, e) ==
  /\ e.status \in {"computed", "unsupported", "invalid", "blocked"}
  /\ e.status = "invalid" => e.issues # {} /\ \A i \in e.issues : i.path \in FieldPaths \cup {"work"}
  /\ e.status = "blocked" => \A r \in e.requirements : Answerable(s, r)

LEMMA EvaluationAsks ==
  ASSUME NEW s, IsScenario(s)
  PROVE  Asks(s, evaluateScenario(s))
<1>1. PICK e : e = evaluateScenario(s)
  OBVIOUS
<1>2. CASE validateScenario(s).status = "invalid"
  <2>1. e = Invalid(IssuesOf(s)) /\ IssuesOf(s) # {}
    BY <1>1, <1>2 DEF evaluateScenario, EvaluationOf, validateScenario, Validation
  <2> QED
    BY <1>1, <2>1, IssuePaths DEF Asks, Invalid
<1>3. CASE validateScenario(s).status # "invalid" /\ s.concepts # {}
  <2>1. e = [status |-> "unsupported"]
    BY <1>1, <1>3 DEF evaluateScenario, EvaluationOf
  <2> QED
    BY <1>1, <2>1 DEF Asks
<1>4. CASE validateScenario(s).status = "blocked" /\ s.concepts = {}
  <2>1. e = Blocked(collectRequirements(s))
    BY <1>1, <1>4 DEF evaluateScenario, EvaluationOf, validateScenario, Validation
  <2> QED
    BY <1>1, <2>1, RequirementsAnswerable DEF Asks, Blocked
<1>5. CASE validateScenario(s).status = "ready" /\ s.concepts = {} /\ ~Within16(s)
  <2>1. e = [status |-> "unsupported"]
    BY <1>1, <1>5 DEF evaluateScenario, EvaluationOf, Within16
  <2> QED
    BY <1>1, <2>1 DEF Asks
<1>6. CASE validateScenario(s).status = "ready" /\ s.concepts = {} /\ Within16(s)
  <2>1. Sound(s) /\ collectRequirements(s) = {}
    BY <1>6, EvaluationOfReady
  <2>2. CASE \E v \in Variants(s) : IssuesOf(v) # {}
    <3>1. e = Invalid(revalidateVariants(Variants(s)))
      <4>1. e = EvaluationOfUncertain(s, collectUncertain(s), materializeVariants(s, collectUncertain(s)), validateScenario(s).warnings)
        BY <1>1, <1>6 DEF evaluateScenario, EvaluationOf, Within16
      <4>2. e = EvaluationOfVariants(s, collectUncertain(s), CentralVariant(s), Variants(s), validateScenario(s).warnings)
        BY <2>1, <4>1, VariantsAre DEF EvaluationOfUncertain
      <4>3. revalidateVariants(Variants(s)) # {}
        BY <2>2 DEF revalidateVariants
      <4> QED
        BY <4>2, <4>3 DEF EvaluationOfVariants
    <3>2. e.status = "invalid" /\ e.issues = UNION {IssuesOf(v) : v \in Variants(s)}
      BY <3>1 DEF Invalid, revalidateVariants
    <3>3. \A i \in e.issues : i.path \in FieldPaths \cup {"work"}
      BY <2>1, <3>2, VariantsSettle, IssuePaths
    <3> QED
      BY <1>1, <2>2, <3>2, <3>3 DEF Asks
  <2>3. CASE ~\E v \in Variants(s) : IssuesOf(v) # {}
    <3>1. PICK required : required = UNION {runEngine(v).requirements : v \in Variants(s)}
      OBVIOUS
    <3>2. IF required # {} THEN e = Blocked(required)
          ELSE e = Computed(s, runEngine(CentralVariant(s)), {runEngine(v) : v \in Variants(s)}, collectUncertain(s), collectWarnings(s))
      BY <1>1, <1>6, <2>3, <3>1, EvaluationOfReady
    <3>3. \A v \in Variants(s) : Sound(v)
      BY <2>1, <2>3, VariantsSettle DEF Sound
    <3>4. \A r \in required : Answerable(s, r)
      BY <2>1, <3>1, <3>3, EngineAnswerable
    <3>5. CASE required # {}
      BY <1>1, <3>2, <3>4, <3>5 DEF Asks, Blocked
    <3>6. CASE required = {}
      BY <1>1, <3>2, <3>6 DEF Asks, Computed
    <3> QED
      BY <3>5, <3>6
  <2> QED
    BY <2>2, <2>3
<1> QED
  <2>1. validateScenario(s).status \in {"invalid", "blocked", "ready"}
    BY DEF validateScenario, Validation
  <2> QED
    BY <1>2, <1>3, <1>4, <1>5, <1>6, <2>1

\* The question in the open can be replied to.
QuestionFits(s, q) ==
  \/ q = NoQuestion
  \/ q.field = "work.hours"
  \/ /\ q.field \in FieldPaths
     /\ q.kind \in {"provide_value", "correct_value", "offer_assumption", "resolve_conflict"}
     /\ q.kind = "offer_assumption" => q.field \in DOMAIN ASSUMPTION_CATALOG
     /\ q.kind = "resolve_conflict" => q.field \in DOMAIN s.fields /\ s.fields[q.field].state = "conflict"

LEMMA QuestionOfRequirement ==
  ASSUME NEW s, NEW r, Answerable(s, r), NEW refused, NEW weekly
  PROVE  QuestionFits(s, questionForRequirement(r, refused, weekly))
<1>1. PICK q : q = questionForRequirement(r, refused, weekly)
  OBVIOUS
<1>2. q.field = r.field
  BY <1>1 DEF questionForRequirement, Question
<1>3. CASE r.field = "work.hours"
  BY <1>1, <1>2, <1>3 DEF QuestionFits
<1>4. CASE r.field # "work.hours"
  <2>1. q.kind = IF r.reason = "conflict" THEN "resolve_conflict"
                 ELSE IF r.reason = "unknown" /\ r.field \in DOMAIN ASSUMPTION_CATALOG \ refused THEN "offer_assumption"
                 ELSE "provide_value"
    BY <1>1, <1>4 DEF questionForRequirement, Question
  <2> QED
    BY <1>1, <1>2, <1>4, <2>1 DEF QuestionFits, Answerable
<1> QED
  BY <1>3, <1>4

LEMMA SelectionFits ==
  ASSUME NEW s, NEW e, Asks(s, e), NEW refused, NEW weekly, NEW later
  PROVE  QuestionFits(s, selectNextQuestion(s, e, refused, weekly, later))
<1>1. PICK q : q = selectNextQuestion(s, e, refused, weekly, later)
  OBVIOUS
<1>2. CASE e.status \in {"computed", "unsupported"}
  BY <1>1, <1>2 DEF selectNextQuestion, QuestionFits
<1>3. CASE e.status = "invalid"
  <2>1. PICK fields : fields = {actionableField(i, s) : i \in e.issues}
    OBVIOUS
  <2>2. \A i \in e.issues : actionableField(i, s) \in FieldPaths
    BY <1>3, NumberPathsAre DEF actionableField, Asks, FieldPaths
  <2>3. fields # {} /\ fields \subseteq FieldPaths
    BY <1>3, <2>1, <2>2 DEF Asks
  <2>4. FirstOf(fields) \in FieldPaths
    BY <2>3, FirstOfIs
  <2>5. q = Question("correct_value", FirstOf(fields))
    BY <1>1, <1>3, <2>1 DEF selectNextQuestion
  <2> QED
    BY <1>1, <2>4, <2>5 DEF QuestionFits, Question
<1>4. CASE e.status = "blocked"
  <2>1. PICK open : open = {r \in e.requirements : r.field \notin later}
    OBVIOUS
  <2>2. PICK conflicts : conflicts = {r \in open : r.reason = "conflict"}
    OBVIOUS
  <2>3. PICK first : first = IF conflicts # {} THEN conflicts ELSE open
    OBVIOUS
  <2>4. q = IF open = {} THEN NoQuestion
            ELSE questionForRequirement(CHOOSE r \in first : r.field = FirstOf({x.field : x \in first}), refused, weekly)
    BY <1>1, <1>4, <2>1, <2>2, <2>3 DEF selectNextQuestion
  <2>5. CASE open = {}
    BY <1>1, <2>4, <2>5 DEF QuestionFits
  <2>6. CASE open # {}
    <3>1. first # {} /\ \A r \in first : Answerable(s, r)
      BY <1>4, <2>1, <2>2, <2>3, <2>6 DEF Asks
    <3>2. PICK fields : fields = {x.field : x \in first}
      OBVIOUS
    <3>3. fields # {} /\ fields \subseteq FieldPaths \cup {"work.hours"}
      BY <3>1, <3>2 DEF Answerable
    <3>4. \E r \in first : r.field = FirstOf(fields)
      BY <3>2, <3>3, FirstOfIs
    <3>5. PICK r : r = CHOOSE x \in first : x.field = FirstOf(fields)
      OBVIOUS
    <3>6. r \in first
      BY <3>4, <3>5
    <3>7. q = questionForRequirement(r, refused, weekly)
      BY <2>4, <2>6, <3>2, <3>5
    <3> QED
      BY <1>1, <3>1, <3>6, <3>7, QuestionOfRequirement
  <2> QED
    BY <2>5, <2>6
<1> QED
  BY <1>2, <1>3, <1>4 DEF Asks

LEMMA NextQuestionFits ==
  ASSUME NEW s, IsScenario(s), NEW refused, NEW weekly, NEW later
  PROVE  QuestionFits(s, selectNextQuestion(s, selectionEvaluation(s, evaluateScenario(s)), refused, weekly, later))
<1>1. PICK bare : bare = [s EXCEPT !.concepts = {}]
  OBVIOUS
<1>2. IsScenario(bare) /\ bare.fields = s.fields
  BY <1>1 DEF IsScenario
<1>3. Asks(s, evaluateScenario(s)) /\ Asks(bare, evaluateScenario(bare))
  BY <1>2, EvaluationAsks
<1>4. Asks(s, evaluateScenario(bare))
  BY <1>2, <1>3 DEF Asks, Answerable
<1>5. Asks(s, selectionEvaluation(s, evaluateScenario(s)))
  BY <1>1, <1>3, <1>4 DEF selectionEvaluation
<1> QED
  BY <1>5, SelectionFits

(***************************************************************************)
(* The conversation                                                        *)
(***************************************************************************)
\* What is kept between the turns: the scenario is well written, the evaluation is the scenario's own, the question
\* can be replied to, and what the user says is well written too.
DialogueInv ==
  /\ IsScenario(scenario)
  /\ evaluation = evaluateScenario(scenario)
  /\ QuestionFits(scenario, question)
  /\ message # NoMessage => WellWritten(message.writes)

LEMMA WellWrittenOver ==
  ASSUME NEW written, WellWritten(written), NEW standing, WellWritten(standing)
  PROVE  WellWritten(Over(written, standing))
<1>1. PICK all : all = Over(written, standing)
  OBVIOUS
<1>2. DOMAIN all = DOMAIN written \cup DOMAIN standing
         /\ \A p \in DOMAIN all : all[p] = IF p \in DOMAIN written THEN written[p] ELSE standing[p]
  BY <1>1 DEF Over
<1> QED
  BY <1>1, <1>2 DEF WellWritten

LEMMA MessageWrites ==
  ASSUME NEW intent, NEW writes, NEW total, NEW refused
  PROVE  /\ Message(intent, writes).writes = writes
         /\ [Message(intent, writes) EXCEPT !.states = total].writes = writes
         /\ [Message(intent, writes) EXCEPT !.refuses = refused].writes = writes
BY DEF Message

LEMMA RepliesAreWellWritten ==
  ASSUME NEW m \in Replies, IsScenario(scenario), QuestionFits(scenario, question)
  PROVE  WellWritten(m.writes)
<1>1. WellWritten(<<>>)
  BY DEF WellWritten
<1>2. \A field \in FieldPaths : \A given \in NodesFor(field) : WellWritten([p \in {field} |-> given])
  BY DEF WellWritten
<1>3. question # NoQuestion
  BY DEF Replies
<1>4. CASE question.field = "work.hours"
  <2>1. \/ \E writes \in HourSplits : m = Message("provide_information", writes)
        \/ m = Message("dont_know", <<>>)
        \/ \E total : m = [Message("provide_information", <<>>) EXCEPT !.states = total]
    BY <1>3, <1>4 DEF Replies
  <2>2. CASE \E writes \in HourSplits : m = Message("provide_information", writes)
    <3>1. PICK writes \in HourSplits : m = Message("provide_information", writes)
      BY <2>2
    <3>2. m.writes = writes
      BY <3>1, MessageWrites
    <3> QED
      BY <3>1, <3>2, WritesAssumption
  <2>3. CASE m = Message("dont_know", <<>>)
    <3>1. m.writes = <<>>
      BY <2>3, MessageWrites
    <3> QED
      BY <1>1, <3>1
  <2>4. CASE \E total : m = [Message("provide_information", <<>>) EXCEPT !.states = total]
    <3>1. PICK total : m = [Message("provide_information", <<>>) EXCEPT !.states = total]
      BY <2>4
    <3>2. m.writes = <<>>
      BY <3>1, MessageWrites
    <3> QED
      BY <1>1, <3>2
  <2> QED
    BY <2>1, <2>2, <2>3, <2>4
<1>5. CASE question.field # "work.hours"
  <2> DEFINE field == question.field
  <2>1. /\ field \in FieldPaths
        /\ question.kind \in {"provide_value", "correct_value", "offer_assumption", "resolve_conflict"}
        /\ question.kind = "offer_assumption" => field \in DOMAIN ASSUMPTION_CATALOG
        /\ question.kind = "resolve_conflict" => field \in DOMAIN scenario.fields /\ scenario.fields[field].state = "conflict"
    BY <1>3, <1>5 DEF QuestionFits
  <2>2. \A given \in UserNodes(field) : WellWritten([p \in {field} |-> given])
    BY <1>2, <2>1, NodesAssumption
  <2>3. CASE question.kind = "provide_value"
    <3>1. \/ \E given \in UserNodes(field) : m = Message("provide_information", [p \in {field} |-> given])
          \/ m = Message("dont_know", [p \in {field} |-> [state |-> "unknown"]])
      BY <1>3, <1>5, <2>3 DEF Replies
    <3>2. [state |-> "unknown"] \in NodesFor(field)
      BY DEF NodesFor
    <3>3. WellWritten([p \in {field} |-> [state |-> "unknown"]])
      BY <1>2, <2>1, <3>2
    <3> QED
      BY <2>2, <3>1, <3>3, MessageWrites
  <2>4. CASE question.kind = "correct_value"
    <3>1. \/ \E given \in UserNodes(field) : m = Message("correction", [p \in {field} |-> given])
          \/ m = Message("dont_know", <<>>)
      BY <1>3, <1>5, <2>4 DEF Replies
    <3> QED
      BY <1>1, <2>2, <3>1, MessageWrites
  <2>5. CASE question.kind = "offer_assumption"
    <3>1. \/ m = Message("accept_assumption", [p \in {field} |-> ASSUMPTION_CATALOG[field]])
          \/ m = Message("dont_know", <<>>)
          \/ m = [Message("decline_assumption", <<>>) EXCEPT !.refuses = {field}]
      BY <1>3, <1>5, <2>5 DEF Replies
    <3>2. ASSUMPTION_CATALOG[field] \in NodesFor(field)
      <4>1. "loonto_assumption" \in SCENARIO_VALUE_SOURCES
        BY DEF SCENARIO_VALUE_SOURCES
      <4>2. CASE field = "tax.loonheffingskorting"
        <5>1. field \notin NumberPaths /\ field # "work.overtimeDistribution"
          BY <4>2, NumberPathsAre
        <5>2. "applied" \in ValuesFor(field) /\ "not_applied" \in ValuesFor(field)
          BY <4>2, <5>1 DEF ValuesFor, ChoiceFields
        <5>3. ASSUMPTION_CATALOG[field] = [state |-> "alternatives", options |-> <<"applied", "not_applied">>, source |-> "loonto_assumption"]
          BY <4>2 DEF ASSUMPTION_CATALOG
        <5>4. PICK V : V = ValuesFor(field)
          OBVIOUS
        <5>5. <<"applied", "not_applied">> \in Seq(V)
          BY <5>2, <5>4
        <5> QED
          BY <4>1, <5>1, <5>3, <5>4, <5>5 DEF NodesFor
      <4>3. CASE field = "deductions.mode"
        <5>1. field \notin NumberPaths /\ field # "work.overtimeDistribution"
          BY <4>3, NumberPathsAre
        <5>2. "estimate" \in ValuesFor(field)
          BY <4>3, <5>1 DEF ValuesFor, ChoiceFields
        <5>3. ASSUMPTION_CATALOG[field] = [state |-> "known", value |-> "estimate", source |-> "loonto_assumption"]
          BY <4>3 DEF ASSUMPTION_CATALOG, assumptionNode
        <5> QED
          BY <4>1, <5>2, <5>3 DEF NodesFor
      <4>4. CASE field \in {"pay.saturdayPremiumPercent", "pay.sundayPremiumPercent", "pay.publicHolidayPremiumPercent"}
        <5>1. field \in NumberPaths
          BY <4>4, NumberPathsAre
        <5>2. \E n \in Int : ASSUMPTION_CATALOG[field] = [state |-> "known", value |-> n, source |-> "loonto_assumption"]
          BY <4>4 DEF ASSUMPTION_CATALOG, assumptionNode
        <5>3. ValuesFor(field) = Int
          BY <5>1 DEF ValuesFor
        <5> QED
          BY <4>1, <5>2, <5>3 DEF NodesFor
      <4> QED
        BY <2>1, <2>5, <4>2, <4>3, <4>4 DEF ASSUMPTION_CATALOG
    <3>3. WellWritten([p \in {field} |-> ASSUMPTION_CATALOG[field]])
      BY <1>2, <2>1, <3>2
    <3>4. CASE m = Message("accept_assumption", [p \in {field} |-> ASSUMPTION_CATALOG[field]])
      <4>1. m.writes = [p \in {field} |-> ASSUMPTION_CATALOG[field]]
        BY <3>4, MessageWrites
      <4> QED
        BY <3>3, <4>1
    <3>5. CASE m = Message("dont_know", <<>>)
      <4>1. m.writes = <<>>
        BY <3>5, MessageWrites
      <4> QED
        BY <1>1, <4>1
    <3>6. CASE m = [Message("decline_assumption", <<>>) EXCEPT !.refuses = {field}]
      <4>1. m.writes = <<>>
        BY <3>6, MessageWrites
      <4> QED
        BY <1>1, <4>1
    <3> QED
      BY <3>1, <3>4, <3>5, <3>6
  <2>6. CASE question.kind = "resolve_conflict"
    <3>1. \/ \E c \in scenario.fields[field].candidates :
               m = Message("correction", [p \in {field} |-> [state |-> "known", value |-> c.value, source |-> c.source]])
          \/ m = Message("dont_know", <<>>)
      BY <1>3, <1>5, <2>6 DEF Replies
    <3>2. scenario.fields[field] \in NodesFor(field) /\ scenario.fields[field].state = "conflict"
      BY <2>1, <2>6 DEF IsScenario, WellWritten
    <3>3. \A c \in scenario.fields[field].candidates : c.value \in ValuesFor(field) /\ c.source \in SCENARIO_VALUE_SOURCES
      <4>1. PICK V : V = ValuesFor(field)
        OBVIOUS
      <4>2. PICK given : given = scenario.fields[field]
        OBVIOUS
      <4>3. given \in [state : {"conflict"}, candidates : SUBSET [value : V, source : SCENARIO_VALUE_SOURCES]]
        BY <3>2, <4>1, <4>2 DEF NodesFor
      <4> QED
        BY <4>1, <4>2, <4>3
    <3>4. ASSUME NEW c \in scenario.fields[field].candidates
          PROVE  [state |-> "known", value |-> c.value, source |-> c.source] \in NodesFor(field)
      BY <3>3 DEF NodesFor
    <3>5. \A c \in scenario.fields[field].candidates :
            WellWritten([p \in {field} |-> [state |-> "known", value |-> c.value, source |-> c.source]])
      BY <1>2, <2>1, <3>4
    <3>6. CASE \E c \in scenario.fields[field].candidates :
                 m = Message("correction", [p \in {field} |-> [state |-> "known", value |-> c.value, source |-> c.source]])
      <4>1. PICK c \in scenario.fields[field].candidates :
                   m = Message("correction", [p \in {field} |-> [state |-> "known", value |-> c.value, source |-> c.source]])
        BY <3>6
      <4>2. m.writes = [p \in {field} |-> [state |-> "known", value |-> c.value, source |-> c.source]]
        BY <4>1, MessageWrites
      <4> QED
        BY <3>5, <4>1, <4>2
    <3>7. CASE m = Message("dont_know", <<>>)
      <4>1. m.writes = <<>>
        BY <3>7, MessageWrites
      <4> QED
        BY <1>1, <4>1
    <3> QED
      BY <3>1, <3>6, <3>7
  <2> QED
    BY <2>1, <2>3, <2>4, <2>5, <2>6
<1> QED
  BY <1>4, <1>5

LEMMA AppliedIsScenario ==
  ASSUME IsScenario(scenario), WellWritten(message.writes)
  PROVE  IsScenario(applyPatch(scenario, applyAuthorizedOps))
<1>1. PICK standing : standing = [p \in DOMAIN scenario.fields \ message.removed |-> scenario.fields[p]]
  OBVIOUS
<1>2. WellWritten(standing)
  BY <1>1 DEF IsScenario, WellWritten
<1>3. WellWritten(Over(message.writes, standing))
  BY <1>2, WellWrittenOver
<1>4. IsScenario(applyAuthorizedOps)
  BY <1>1, <1>3 DEF applyAuthorizedOps, IsScenario
<1> QED
  BY <1>4 DEF applyPatch

\* Between the turns the page holds a well-written scenario with the evaluation that is its own and a question that
\* can be replied to: the steps of conversation-turn.ts keep the four together.
THEOREM DialogueKept == DialogueSpec => []DialogueInv
<1>1. DialogueInit => DialogueInv
  <2> SUFFICES ASSUME DialogueInit
               PROVE  DialogueInv
    OBVIOUS
  <2>1. IsScenario(scenario)
    BY StartsAssumption DEF DialogueInit
  <2>2. evaluation = evaluateScenario(scenario) /\ message = NoMessage
    BY DEF DialogueInit
  <2>3. question = selectNextQuestion(scenario, selectionEvaluation(scenario, evaluation), {}, "none", {})
    BY DEF DialogueInit
  <2>4. QuestionFits(scenario, question)
    BY <2>1, <2>2, <2>3, NextQuestionFits
  <2> QED
    BY <2>1, <2>2, <2>4 DEF DialogueInv
<1>2. DialogueInv /\ [DialogueNext]_dialogueVars => DialogueInv'
  <2> SUFFICES ASSUME DialogueInv, [DialogueNext]_dialogueVars
               PROVE  DialogueInv'
    OBVIOUS
  <2>1. CASE Reply
    <3>1. PICK m \in Replies : message' = m
      BY <2>1 DEF Reply
    <3>2. WellWritten(m.writes)
      BY RepliesAreWellWritten DEF DialogueInv
    <3>3. UNCHANGED <<scenario, evaluation, question>>
      BY <2>1 DEF Reply
    <3> QED
      BY <3>1, <3>2, <3>3 DEF DialogueInv
  <2>2. CASE Volunteer
    <3>1. PICK m \in Edits : message' = m
      BY <2>2 DEF Volunteer
    <3>2. UNCHANGED <<scenario, evaluation, question>>
      BY <2>2 DEF Volunteer
    <3> QED
      BY <3>1, <3>2, WritesAssumption DEF DialogueInv
  <2>3. CASE ServerTurn
    <3>1. message # NoMessage /\ message' = NoMessage
      BY <2>3 DEF ServerTurn
    <3>2. PICK s : s = applyPatch(scenario, applyAuthorizedOps)
      OBVIOUS
    <3>3. IsScenario(s)
      BY <3>1, <3>2, AppliedIsScenario DEF DialogueInv
    <3>4. PICK e : e = IF s = scenario THEN evaluation ELSE evaluateScenario(s)
      OBVIOUS
    <3>5. e = evaluateScenario(s)
      BY <3>4 DEF DialogueInv
    <3>6. /\ scenario' = s /\ evaluation' = e
          /\ \E refused, weekly, later : question' = selectNextQuestion(s, selectionEvaluation(s, e), refused, weekly, later)
      BY <2>3, <3>2, <3>4 DEF ServerTurn
    <3>7. QuestionFits(s, question')
      BY <3>3, <3>5, <3>6, NextQuestionFits
    <3> QED
      BY <3>1, <3>3, <3>5, <3>6, <3>7 DEF DialogueInv
  <2>4. CASE UNCHANGED dialogueVars
    BY <2>4 DEF dialogueVars, DialogueInv
  <2> QED
    BY <2>1, <2>2, <2>3, <2>4 DEF DialogueNext
<1> QED
  BY <1>1, <1>2, PTL DEF DialogueSpec

\* Every hour the user stated is priced, once: whatever the split over days, tiers and weeks (scenario-map.ts,
\* hour-grid.ts, tier-a.ts), each run of an evaluation pays as many hours as the scenario it resolves holds.
THEOREM EveryHourPriced == DialogueSpec => []HoursPriced
<1>1. DialogueInv => HoursPriced
  <2> SUFFICES ASSUME DialogueInv
               PROVE  HoursPriced
    OBVIOUS
  <2>1. HoursPricedOf(evaluation)
    BY HoursOfEvaluation DEF DialogueInv
  <2> QED
    BY <2>1 DEF HoursPricedOf, HoursPriced
<1> QED
  BY <1>1, DialogueKept, PTL

\* What the validator calls ready (scenario-validate.ts) the engine's mapper (scenario-map.ts), which reads the
\* scenario on its own, can price, but for the second overtime tier.
THEOREM ReadyComputes == DialogueSpec => []ReadyIsComputable
<1>1. DialogueInv => ReadyIsComputable
  <2> SUFFICES ASSUME DialogueInv
               PROVE  ReadyIsComputable
    OBVIOUS
  <2>1. ReadyIsComputableOf(scenario, evaluation)
    BY ReadyOfEvaluation DEF DialogueInv
  <2> QED
    BY <2>1 DEF ReadyIsComputableOf, ReadyIsComputable
<1> QED
  BY <1>1, DialogueKept, PTL

\* An assumption of Loonto that is not disclosed with the result (scenario-evaluate.ts collects those the engine
\* consumed) has no part in it: whatever else the user puts in its field, the figure and the range stay.
THEOREM UndisclosedHasNoPart == DialogueSpec => []AssumptionsDisclosed
<1>1. DialogueInv => AssumptionsDisclosed
  <2> SUFFICES ASSUME DialogueInv, evaluation.status = "computed",
                      NEW p \in DOMAIN ASSUMPTION_CATALOG \cap DOMAIN scenario.fields,
                      scenario.fields[p] = ASSUMPTION_CATALOG[p], p \notin evaluation.assumptionsUsed,
                      NEW given \in UserNodes(p), evaluateScenario([scenario EXCEPT !.fields[p] = given]).status = "computed"
               PROVE  /\ evaluateScenario([scenario EXCEPT !.fields[p] = given]).payout = evaluation.payout
                      /\ evaluateScenario([scenario EXCEPT !.fields[p] = given]).range = evaluation.range
    BY DEF AssumptionsDisclosed
  <2>1. IsScenario(scenario) /\ evaluation = evaluateScenario(scenario)
    BY DEF DialogueInv
  <2>2. given \in NodesFor(p)
    <3>1. p \in FieldPaths
      BY <2>1 DEF IsScenario, WellWritten
    <3> QED
      BY <3>1, NodesAssumption
  <2> QED
    BY <2>1, <2>2, SameEvaluation
<1> QED
  BY <1>1, DialogueKept, PTL
================================================================================
