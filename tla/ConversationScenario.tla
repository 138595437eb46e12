------------------------- MODULE ConversationScenario -------------------------
(***************************************************************************)
(* One field of the scenario over a whole conversation on                  *)
(* /api/scenario/turn: the client echoes the scenario it received, the     *)
(* server checks it against the documents the request names, merges and    *)
(* applies what the message asks for. Between turns the documents change   *)
(* (read again, read more, removed) or the server loses them, and then the *)
(* client drops what they had supplied.                                    *)
(***************************************************************************)
EXTENDS ScenarioNode

VARIABLES kind,     \* the kind of the field
          node,     \* the field in the scenario the client holds
          facts,    \* what the documents named by the next request say of it
          backing,  \* the facts of the last turn that was not refused
          stated,   \* every value a message of the user has stated
          picked,   \* the outcome of the user's choice in a conflict with a document, or {}
          last      \* what the last step was: a turn and its outcome, or none

vars == <<kind, node, facts, backing, stated, picked, last>>

NoTurn == [status |-> "none", op |-> "none"]
Turns == [status : {"refused", "rejected", "unchanged", "updated"},
          op : {"none", "set", "set_conflict", "set_range", "set_unknown", "remove",
                "accept_assumption", "resolve_conflict"}]

TypeOK ==
  /\ kind \in FieldKinds
  /\ Node(node, kind) /\ Node(picked, kind)
  /\ Fact(facts) /\ Fact(backing)
  /\ stated \subseteq Values
  /\ last \in Turns \cup {NoTurn}

Init ==
  /\ kind \in FieldKinds
  /\ node = {} /\ facts \in Facts(kind) /\ backing = {}
  /\ stated = {} /\ picked = {} /\ last = NoTurn

\* A turn with the scenario echoed as it was received.
Turn(message) ==
  \E r \in runConversationTurn(node, kind, facts, message) :
    /\ node' = r.node
    /\ backing' = IF r.status = "refused" THEN backing ELSE facts
    /\ stated' = stated \cup message.states
    /\ last' = [status |-> r.status, op |-> r.op.op]
    /\ picked' = CASE r.status # "updated" -> picked
                   [] r.status = "updated" ->
                        IF /\ r.op.op = "resolve_conflict"
                           /\ verified(mergeTrustedContext(node, facts)) # {}
                        THEN r.node ELSE {}
    /\ UNCHANGED <<kind, facts>>

\* The documents are resolved again: more of them, fewer, or others.
Resolve(F) ==
  /\ facts' = F
  /\ last' = NoTurn
  /\ UNCHANGED <<kind, node, backing, stated, picked>>

\* The server no longer has the context: the client drops the document values.
ContextLost ==
  /\ facts' = {}
  /\ node' = withoutDocumentValues(node)
  /\ picked' = withoutDocumentValues(picked)
  /\ last' = NoTurn
  /\ UNCHANGED <<kind, backing, stated>>

Next ==
  \/ \E m \in Messages : Turn(m)
  \/ \E F \in Facts(kind) : Resolve(F)
  \/ ContextLost

Spec == Init /\ [][Next]_vars

-----------------------------------------------------------------------------
(* Properties. A step that is a turn leaves last' # NoTurn.                *)

\* Whatever documents come and go, a value is held as verified only when the
\* documents of a turn the server accepted said exactly that (RT-001).
VerifiedIsTrusted == verified(node) \subseteq backing

\* A number is held as the user's only if a message of the user stated it: what the
\* model proposes on its own never becomes a figure of the user. Of a choice the code
\* does not ask that: the model's word for it is held as the user's.
UserValuesWereStated ==
  kind = "number" => \A o \in userCandidates(node) : o.value \in stated

\* A choice the user made between a document and another value stands until
\* the user says something else: no later turn raises the conflict again.
DecisionStands == picked # {} => node = picked

\* A turn keeps what the user stated: the value is still there, as the user's or
\* as a document's that says the same, unless this very turn changed the field.
StatementSurvivesTurn ==
  [][ last' # NoTurn /\ last'.status # "updated"
        => \A o \in userCandidates(node) : o.value \in ValuesOf(node') ]_vars

\* A value of the documents leaves the field in a turn only by a choice in a conflict.
DocumentErasedByChoice ==
  [][ last' # NoTurn /\ ~(verified(node) \subseteq node') => last'.op = "resolve_conflict" ]_vars

\* A scenario echoed under the documents it was answered with is never refused.
EchoAccepted ==
  [][ last' # NoTurn /\ facts = backing => last'.status # "refused" ]_vars

-----------------------------------------------------------------------------
(* The inductive invariant behind the safety properties. *)

\* A choice is the document value it picked, or the user's with its mark.
PickedInv ==
  picked # {} => \/ \E v \in Values : picked = {Overrides(v)}
                 \/ \E d \in DocumentOrigins : picked = {d}

IInv == /\ TypeOK /\ VerifiedIsTrusted /\ UserValuesWereStated
        /\ DecisionStands /\ PickedInv
=============================================================================
