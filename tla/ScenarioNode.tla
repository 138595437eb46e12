------------------------------ MODULE ScenarioNode ------------------------------
(***************************************************************************)
(* One field of the scenario a conversation builds (say pay.hourlyRate),   *)
(* and everything the server may do to it in a turn: the check of verified *)
(* values, the merge of the documents' facts, the reading of the message,  *)
(* the authority over a patch.                                             *)
(*                                                                         *)
(* A node is the set of the ORIGINS it holds: {} is absent or unknown, one *)
(* origin a known value, a range or alternatives, several a conflict.      *)
(*                                                                         *)
(* What the server reads by itself, what it asks evidence for and what a   *)
(* document can supply depend on the KIND of the field: a number, the yes  *)
(* or no of tax.loonheffingskorting, or another choice (deductions.mode,   *)
(* extras.vakantiegeld.mode, work.overtimeDistribution).                   *)
(***************************************************************************)
EXTENDS FiniteSets, Naturals

CONSTANTS Values,      \* the values of the field that the properties tell apart
          Documents,   \* the references a document value can carry
          Catalogue,   \* the value Loonto may assume for the field, if any
          YesMeans, NoMeans,  \* what a yes and a no are as values (applied, not_applied)
          Span,        \* stands for the bounds of a range or for alternatives
          NoRef, Override

ASSUME CatalogueIsValue == Catalogue \subseteq Values
ASSUME AtMostOneAssumed == \A u, v \in Catalogue : u = v
ASSUME AnswersAreValues == {YesMeans, NoMeans} \subseteq Values /\ YesMeans # NoMeans
ASSUME MarksAreDistinct == /\ Span \notin Values
                           /\ NoRef # Override
                           /\ {NoRef, Override} \cap Documents = {}

FieldKinds == {"number", "yes_no", "choice"}
Allowed(kind) == IF kind = "yes_no" THEN {YesMeans, NoMeans} ELSE Values

\* Of a yes or no nothing is assumed but that it is one or the other.
CatalogueOf(kind) == IF kind = "yes_no" THEN {Span} ELSE Catalogue

Says(v)      == [value |-> v, source |-> "user", ref |-> NoRef]
Overrides(v) == [value |-> v, source |-> "user", ref |-> Override]
Assumed(v)   == [value |-> v, source |-> "assumption", ref |-> NoRef]
Printed(v, d) == [value |-> v, source |-> "document", ref |-> d]

UserOrigins == {Says(v) : v \in Values \cup {Span}} \cup {Overrides(v) : v \in Values}
DocumentOrigins == {Printed(v, d) : v \in Values, d \in Documents}
Origins(kind) == UserOrigins \cup DocumentOrigins \cup {Assumed(v) : v \in CatalogueOf(kind)}

\* Only a value of a document or a plain statement can stand beside another one.
Node(n, kind) ==
  /\ n \subseteq Origins(kind)
  /\ \A o, p \in n : o # p => o \in DocumentOrigins \cup {Says(v) : v \in Values}

\* What a server-resolved profile says of the field: nothing, one value, or the
\* values the documents disagree on - one candidate per value.
Fact(F) == /\ F \subseteq DocumentOrigins
           /\ \A f, g \in F : f.value = g.value => f = g

\* What documents can say of a field of that kind: nothing of a choice but the yes or no.
Facts(kind) ==
  {F \in SUBSET DocumentOrigins : /\ Fact(F)
                                  /\ kind = "choice" => F = {}
                                  /\ \A o \in F : o.value \in Allowed(kind)}

verified(n) == {o \in n : o.source = "document"}
ValuesOf(n) == {o.value : o \in n}
IsConflict(n) == \E o, p \in n : o # p

-----------------------------------------------------------------------------
(* The start of a turn.                                                    *)

findUnbackedVerifiedValues(n, F) == verified(n) \ F

findForgedAssumptions(n, kind) ==
  {o \in n : /\ o.source = "assumption"
             /\ IsConflict(n) \/ o.value \notin CatalogueOf(kind) \/ o.ref # NoRef}

userCandidates(n) == {Says(o.value) : o \in {u \in n : u.source = "user" /\ u.value # Span}}

\* Mutants of mergeTrustedContext: the user's choice is not looked at; the document
\* replaces whatever the user stated.
mergeReraising(n, F) ==
  IF F = {} \/ n \cap F # {} THEN n
  ELSE F \cup {u \in userCandidates(n) : u.value \notin ValuesOf(F)}
mergeReplacing(n, F) == IF F = {} \/ n \cap F # {} THEN n ELSE F

mergeTrustedContext(n, F) ==
  IF \/ F = {}
     \/ n \cap F # {}
     \/ \E v \in Values : n = {Overrides(v)}
  THEN n
  ELSE F \cup {u \in userCandidates(n) : u.value \notin ValuesOf(F)}

-----------------------------------------------------------------------------
(* The patch: one operation on the field, and who may write what.          *)

\* set_range is the range of a number, or the alternatives of a choice.
Ops(n, kind) ==
  [op : {"set"}, value : Allowed(kind)]
    \cup [op : {"set_conflict"}, values : {S \in SUBSET Allowed(kind) : Cardinality(S) = 2}]
    \cup [op : {"resolve_conflict"}, pick : n]
    \cup [op : {"set_range", "set_unknown", "remove", "accept_assumption"}]

Refused(op, n, kind, offered) ==
  \/ /\ op.op \in {"set_range", "set_conflict", "set_unknown", "remove"}
     /\ verified(n) # {}
  \/ /\ op.op = "accept_assumption"
     /\ \/ CatalogueOf(kind) = {}
        \/ ~offered
        \/ \E o \in n : o.source \in {"user", "document"}
  \/ op.op = "resolve_conflict" /\ ~IsConflict(n)

\* A stated value never erases a document's: the two stand in conflict.
SetValue(v, n) ==
  IF v \in ValuesOf(verified(n)) \/ n = {Assumed(v)}
  THEN n
  ELSE verified(n) \cup {Says(v)}

\* A picked document value keeps its origin; the user's own is marked when it overrides one.
Resolved(pick, n) ==
  IF pick.source = "document" THEN {pick}
  ELSE {IF verified(n) # {} THEN Overrides(pick.value) ELSE Says(pick.value)}

Written(op, n, kind) ==
  CASE op.op = "set" -> SetValue(op.value, n)
    [] op.op = "set_conflict" -> {Says(v) : v \in op.values}
    [] op.op = "set_range" -> {Says(Span)}
    [] op.op \in {"set_unknown", "remove"} -> {}
    [] op.op = "accept_assumption" -> {Assumed(v) : v \in CatalogueOf(kind)}
    [] op.op = "resolve_conflict" -> Resolved(op.pick, n)

-----------------------------------------------------------------------------
(* The reading of the message. What a message says is abstracted to the    *)
(* values it states and to a plain yes, no or "I don't know".              *)

Messages == [states : {S \in SUBSET Values : Cardinality(S) <= 2}, reply : {"other"}]
              \cup [states : {{}}, reply : {"yes", "no", "dont_know"}]

\* What the server may be asking: about this field, or about another one.
Questions(n, kind) ==
  {"other"}
    \cup (IF n = {} THEN {"provide_value"} ELSE {})
    \cup (IF n = {} /\ CatalogueOf(kind) # {} THEN {"offer_assumption"} ELSE {})
    \cup (IF IsConflict(n) THEN {"resolve_conflict"} ELSE {})

\* The deterministic interpreter answers these itself; no model is called.
Deterministic(op, kind, message, question) ==
  \/ op.op = "accept_assumption" /\ question = "offer_assumption" /\ message.reply = "yes"
  \/ op.op = "set_unknown" /\ question = "provide_value" /\ message.reply = "dont_know"
  \/ /\ op.op = "set" /\ question = "provide_value"
     /\ \/ kind = "number" /\ message.states = {op.value}
        \/ kind = "yes_no" /\ message.reply = "yes" /\ op.value = YesMeans
        \/ kind = "yes_no" /\ message.reply = "no" /\ op.value = NoMeans
  \/ /\ op.op = "resolve_conflict" /\ question = "resolve_conflict"
     /\ kind = "number" /\ message.states = {op.pick.value}

\* Nor is one called for an offer that is declined or not known.
Declined(message, question) ==
  question = "offer_assumption" /\ message.reply \in {"no", "dont_know"}

\* Mutant of guardModelPatch: what the model sets is not looked up in the message.
guardOff(op, kind, message) == TRUE

\* The operations of the model that the guard lets through: the numbers it sets must be
\* in the message. The value of a choice is not looked up (of the overtime distribution
\* only whether the message, or the question, is about it).
guardModelPatch(op, kind, message) ==
  \/ kind # "number"
  \/ op.op = "set" /\ op.value \in message.states
  \/ op.op = "set_conflict" /\ op.values \subseteq message.states
  \/ op.op = "set_range" /\ Cardinality(message.states) = 2
  \/ op.op \in {"set_unknown", "remove", "accept_assumption", "resolve_conflict"}

NoOp == [op |-> "none"]
Result(status, op, n) == [status |-> status, op |-> op, node |-> n]

\* The patch is applied or refused as a whole: another of its operations, or the
\* validation of the whole scenario, may refuse it as well. An operation that
\* leaves the field as it is makes no update, unless another one does.
applyScenarioPatch(op, n, kind, offered) ==
  {Result("rejected", op, n)}
    \cup (IF Refused(op, n, kind, offered) THEN {}
          ELSE {Result("updated", op, Written(op, n, kind))}
                 \cup {Result("unchanged", op, m) : m \in {Written(op, n, kind)} \cap {n}})

Interpreted(n, kind, message, question) ==
  LET offered == question = "offer_assumption"
      known == {op \in Ops(n, kind) : Deterministic(op, kind, message, question)}
      model == {op \in Ops(n, kind) : ~Declined(message, question) /\ guardModelPatch(op, kind, message)}
  IN  IF known # {}
      THEN UNION {applyScenarioPatch(op, n, kind, offered) : op \in known}
      ELSE {Result("unchanged", NoOp, n)}
             \cup UNION {applyScenarioPatch(op, n, kind, offered) : op \in model}

\* Everything a turn on this field may answer.
runConversationTurn(n, kind, F, message) ==
  IF findUnbackedVerifiedValues(n, F) # {} \/ findForgedAssumptions(n, kind) # {}
  THEN {Result("refused", NoOp, n)}
  ELSE LET m == mergeTrustedContext(n, F)
       IN  UNION {Interpreted(m, kind, message, q) : q \in Questions(m, kind)}

-----------------------------------------------------------------------------
(* Without the documents: the browser on an expired context, and the       *)
(* advisor before it stores a conversation, drop what documents supplied.  *)

withoutDocumentValues(n) == n \ verified(n)
=============================================================================
