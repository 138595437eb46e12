-------------------------------- MODULE R3BFlow --------------------------------
(***************************************************************************)
(* The document-first conversation of the browser (r3b-flow.ts): files are *)
(* chosen and read, a period and a conflict may be asked for, turns are    *)
(* sent with the scenario and the reference of the document context, the   *)
(* user edits a field or starts over. One field of the scenario is kept,   *)
(* pay.hourlyRate, the one whose conflict is asked. A flow is an async     *)
(* function of the store between two awaits; a reset does not stop it.     *)
(***************************************************************************)
EXTENDS ScenarioNode, Integers, SequencesExt

CONSTANTS MaxDocs,     \* bound: documents added since the last reset
          Annexes,     \* those of them that are dated annexes of a contract
          Periods,     \* the documents that count in a week, for the weeks the user may name
          Prints,      \* the values that may be printed in each
          Spoken,      \* the messages of the user
          MaxResets    \* bound: resets while a flow is in flight

ASSUME FlowAssumption ==
  /\ MaxDocs \in Nat /\ MaxResets \in Nat
  /\ Documents = 1 .. MaxDocs /\ Annexes \subseteq Documents
  /\ Periods \subseteq SUBSET Documents
  /\ Prints \in [Documents -> SUBSET Values]
  /\ Spoken \subseteq Messages

VARIABLES
  phase, busy, started,
  docs,          \* the state of doc-N
  nextDocId,
  knowledge,     \* {} or the resolved profile on the screen
  context,       \* {} or the context the server issued with it: its facts, and of which documents
  decisions,     \* {} or the facts on which the user confirmed a candidate
  node,          \* the field in the scenario
  deferred,      \* the user left the conflict open
  pendingGoal,   \* a goal waits for the answer about the conflict
  flows,         \* the async functions in flight
  resets,        \* resets that left one in flight (history)
  edited         \* an edit was made since the last turn was sent (history)

screen == <<phase, busy, started>>
files == <<docs, nextDocId>>
profile == <<knowledge, context, decisions>>
scenario == <<node, deferred, edited>>
vars == <<phase, busy, started, docs, nextDocId, knowledge, context, decisions, node, deferred,
          pendingGoal, flows, resets, edited>>

Absent == [status |-> "absent", says |-> {}, held |-> FALSE]

initialState ==
  /\ phase = "documents" /\ busy = FALSE /\ started = FALSE
  /\ docs = [d \in Documents |-> Absent] /\ nextDocId = 1
  /\ knowledge = {} /\ context = {} /\ decisions = {}
  /\ node = {} /\ deferred = FALSE /\ pendingGoal = FALSE

Init == initialState /\ flows = <<>> /\ resets = 0 /\ edited = FALSE

-----------------------------------------------------------------------------
(* What the documents say *)

Read(ds) == {d \in Documents : ds[d].status = "read"}
toRead == {d \in Documents : docs[d].status \in {"selected", "failed"}}
sendsReferences == \E d \in Read(docs) : docs[d].held

\* One candidate for each value printed in D.
FactsOf(ds, D) ==
  {o \in DocumentOrigins : /\ o.ref \in D /\ o.value \in ds[o.ref].says
                           /\ \A d \in D : o.value \in ds[d].says => o.ref <= d}

\* A dated annex makes the profile depend on the week (asOf): a week is the set of the documents
\* whose values count in it. Without an annex it is every document.
Weeks(ds) == IF Read(ds) \cap Annexes = {} THEN {Documents}
             ELSE IF knowledge # {} THEN {k.week : k \in knowledge}
             ELSE Periods

rateConflict == \E k \in knowledge : IsConflict(k.facts) /\ decisions # {k.facts}

-----------------------------------------------------------------------------
(* The flows *)

\* resolveDocuments is called; `next` is what the caller does with the outcome.
Resolving(ds, week, made, next, echoed) ==
  [kind |-> "resolve", docs |-> Read(ds), week |-> week, facts |-> FactsOf(ds, Read(ds) \cap week),
   decisions |-> made, next |-> next, echoed |-> echoed, trusted |-> \A d \in Read(ds) : ds[d].held]

Turning(n, c) == [kind |-> "turn", node |-> n, context |-> c]

Start(flow) == flows' = Append(flows, flow)
Continue(i, flow) == flows' = [flows EXCEPT ![i] = flow]
Finish(i) == flows' = RemoveAt(flows, i)

\* turn(), up to its first await; `others` are the flows that go on.
turn(others) ==
  /\ flows' = Append(others, Turning(node, context))
  /\ phase' = "conversation" /\ busy' = TRUE /\ edited' = FALSE
  /\ UNCHANGED <<started, node, deferred>>

afterSummary ==
  /\ phase' = IF started THEN "conversation" ELSE "goal"
  /\ busy' = FALSE /\ UNCHANGED started

\* goal(): an open conflict is asked about first.
goal ==
  \/ /\ rateConflict /\ ~deferred
     /\ pendingGoal' = TRUE /\ phase' = "conflict"
     /\ UNCHANGED <<busy, started, files, profile, scenario, flows, resets>>
  \/ /\ ~rateConflict \/ deferred
     /\ turn(flows)
     /\ UNCHANGED <<files, profile, pendingGoal, resets>>

-----------------------------------------------------------------------------
(* What the user does *)

canEditDocuments == ~busy /\ phase \in {"documents", "goal", "conversation"}

addFile ==
  /\ canEditDocuments /\ nextDocId <= MaxDocs
  /\ docs' = [docs EXCEPT ![nextDocId] = [Absent EXCEPT !.status = "selected"]]
  /\ nextDocId' = nextDocId + 1
  /\ UNCHANGED <<screen, profile, scenario, pendingGoal, flows, resets>>

\* Mutant of removeDocument: only the last read document takes the profile with it.
removeFileOnly(d) ==
  /\ canEditDocuments /\ docs[d].status # "absent"
  /\ docs' = [docs EXCEPT ![d] = Absent]
  /\ IF Read(docs') = {} THEN knowledge' = {} /\ context' = {} /\ decisions' = {}
                         ELSE UNCHANGED profile
  /\ UNCHANGED <<screen, nextDocId, scenario, pendingGoal, flows, resets>>

removeDocument(d) ==
  /\ canEditDocuments /\ docs[d].status # "absent"
  /\ docs' = [docs EXCEPT ![d] = Absent]
  /\ \/ /\ docs[d].status # "read"
        /\ UNCHANGED <<screen, profile, flows>>
     \/ /\ docs[d].status = "read" /\ Read(docs') = {}
        /\ knowledge' = {} /\ context' = {} /\ decisions' = {}
        /\ UNCHANGED <<screen, flows>>
     \/ /\ docs[d].status = "read" /\ Read(docs') # {}
        /\ busy' = TRUE
        /\ \E week \in Weeks(docs') : Start(Resolving(docs', week, decisions, "summary", FALSE))
        /\ UNCHANGED <<phase, started, profile>>
  /\ UNCHANGED <<nextDocId, scenario, pendingGoal, resets>>

\* Every annex has its date: without one, reading only says so.
read ==
  /\ ~busy /\ toRead # {}
  /\ docs' = [d \in Documents |-> IF d \in toRead THEN [docs[d] EXCEPT !.status = "reading"] ELSE docs[d]]
  /\ phase' = "reading" /\ busy' = TRUE
  /\ Start([kind |-> "read", todo |-> toRead, before |-> phase, anyNew |-> FALSE])
  /\ UNCHANGED <<started, nextDocId, profile, scenario, pendingGoal, resets>>

continueWithoutDocuments ==
  /\ ~busy /\ phase = "documents" /\ phase' = "goal"
  /\ UNCHANGED <<busy, started, files, profile, scenario, pendingGoal, flows, resets>>

choosePeriod ==
  /\ ~busy /\ phase = "period"
  /\ \/ /\ knowledge' = {} /\ context' = {} /\ UNCHANGED decisions
        /\ afterSummary /\ UNCHANGED flows
     \/ /\ busy' = TRUE
        /\ \E week \in Periods : Start(Resolving(docs, week, decisions, "summary", FALSE))
        /\ UNCHANGED <<phase, started, profile>>
  /\ UNCHANGED <<files, scenario, pendingGoal, resets>>

\* The goal that waited, with the conflict left open (left) or decided; `others` go on.
continueGoal(others, left) ==
  /\ pendingGoal' = FALSE /\ deferred' = (deferred \/ left) /\ UNCHANGED <<started, node>>
  /\ IF pendingGoal
     THEN /\ flows' = Append(others, Turning(node, context'))
          /\ phase' = "conversation" /\ busy' = TRUE /\ edited' = FALSE
     ELSE /\ phase' = (IF started THEN "conversation" ELSE "goal")
          /\ busy' = FALSE /\ flows' = others /\ UNCHANGED edited

chooseConflict ==
  /\ ~busy /\ phase = "conflict"
  /\ \/ /\ ~rateConflict /\ UNCHANGED profile /\ continueGoal(flows, FALSE)
     \/ /\ rateConflict /\ UNCHANGED profile /\ continueGoal(flows, TRUE)
     \/ /\ rateConflict /\ busy' = TRUE
        /\ \E k \in knowledge : Start(Resolving(docs, k.week, {k.facts}, "goal", FALSE))
        /\ UNCHANGED <<phase, started, profile, pendingGoal, scenario>>
  /\ UNCHANGED <<files, resets>>

choosePercent ==
  /\ ~busy /\ phase = "percent"
  /\ turn(flows)
  /\ UNCHANGED <<files, profile, pendingGoal, resets>>

\* In the other phases a message is only a note, or one of the choices above.
send ==
  /\ ~busy
  /\ \/ phase = "documents" /\ toRead = {} /\ goal
     \/ phase = "goal" /\ goal
     \/ /\ phase = "conversation" /\ turn(flows)
        /\ UNCHANGED <<files, profile, pendingGoal, resets>>
     \/ /\ phase = "conversation" /\ started /\ phase' = "percent"     \* an ambiguous percentage
        /\ UNCHANGED <<busy, started, files, profile, scenario, pendingGoal, flows, resets>>

\* Possible at any time, also while a flow is in flight.
edit(v) ==
  /\ started \/ knowledge # {} \/ node # {} \/ deferred               \* the row is shown
  /\ node' = {Says(v)} /\ deferred' = FALSE /\ edited' = TRUE
  /\ UNCHANGED <<screen, files, profile, pendingGoal, flows, resets>>

\* The flows in flight go on.
reset ==
  /\ flows = <<>> \/ resets < MaxResets
  /\ resets' = IF flows = <<>> THEN resets ELSE resets + 1
  /\ phase' = "documents" /\ busy' = FALSE /\ started' = FALSE
  /\ docs' = [d \in Documents |-> Absent] /\ nextDocId' = 1
  /\ knowledge' = {} /\ context' = {} /\ decisions' = {}
  /\ node' = {} /\ deferred' = FALSE /\ pendingGoal' = FALSE
  /\ edited' = FALSE /\ UNCHANGED flows

-----------------------------------------------------------------------------
(* What comes back *)

\* After the last document: nothing new, a question, or the profile.
ReadEnds(i, flow, ds) ==
  IF ~flow.anyNew
  THEN /\ phase' = (IF flow.before = "reading" THEN "documents" ELSE flow.before) /\ busy' = FALSE /\ Finish(i)
  ELSE IF Read(ds) \cap Annexes # {}
  THEN /\ phase' = "period" /\ busy' = FALSE /\ Finish(i)
  ELSE /\ busy' = TRUE /\ UNCHANGED phase
       /\ Continue(i, Resolving(ds, Documents, decisions, "summary", FALSE))

ReadingOn(flow, d, ok) == [kind |-> "read", todo |-> flow.todo \ {d}, before |-> flow.before, anyNew |-> flow.anyNew \/ ok]

Outcome(ok, says, held) ==
  IF ok THEN [status |-> "read", says |-> says, held |-> held] ELSE [status |-> "failed", says |-> {}, held |-> FALSE]

\* The reader answers for one document; a document no longer listed is not updated.
DocumentRead(i) ==
  /\ flows[i].kind = "read"
  /\ \E d \in flows[i].todo, says \in {S \in SUBSET Values : Cardinality(S) <= 1}, held \in BOOLEAN, ok \in BOOLEAN :
       LET flow == ReadingOn(flows[i], d, ok)
           ds == IF docs[d].status = "absent" THEN docs ELSE [docs EXCEPT ![d] = Outcome(ok, says, held)]
       IN  /\ \A other \in flows[i].todo : d <= other
           /\ says \subseteq Prints[d]
           /\ docs' = ds
           /\ IF flow.todo # {} THEN Continue(i, flow) /\ UNCHANGED <<phase, busy>>
                                ELSE ReadEnds(i, flow, ds)
  /\ UNCHANGED <<started, nextDocId, profile, scenario, pendingGoal, resets>>

\* The references are gone (or the request failed): the batches are echoed, without a context.
Echoed(i) ==
  /\ docs' = [d \in Documents |-> [docs[d] EXCEPT !.held = FALSE]] /\ context' = {}
  /\ LET flow == flows[i]
     IN  Continue(i, Resolving(docs', flow.week, flow.decisions, flow.next, TRUE))

\* The context of a resolve by reference, unless the server cannot store it.
Issued(flow) == {{}} \cup (IF flow.trusted THEN {{[docs |-> flow.docs, facts |-> flow.facts]}} ELSE {})

ProfileResolved(i) ==
  LET flow == flows[i]
  IN  /\ flow.kind = "resolve"
      /\ knowledge' = {[docs |-> flow.docs, facts |-> flow.facts, week |-> flow.week]}
      /\ context' \in Issued(flow)
      /\ decisions' = flow.decisions
      /\ IF flow.next = "summary"
         THEN afterSummary /\ Finish(i) /\ UNCHANGED <<pendingGoal, scenario>>
         ELSE continueGoal(RemoveAt(flows, i), FALSE)
      /\ UNCHANGED <<files, resets>>

ResolveFails(i) ==
  LET flow == flows[i]
  IN  /\ flow.kind = "resolve"
      /\ \/ /\ ~flow.echoed /\ sendsReferences
            /\ Echoed(i) /\ UNCHANGED <<screen, knowledge, decisions>>
         \/ /\ flow.echoed \/ ~sendsReferences
            /\ Finish(i) /\ UNCHANGED docs
            /\ IF flow.next = "summary"
               THEN knowledge' = {} /\ context' = {} /\ UNCHANGED decisions /\ afterSummary
               ELSE busy' = FALSE /\ UNCHANGED <<phase, started, profile>>
      /\ UNCHANGED <<nextDocId, scenario, pendingGoal, resets>>

TurnAnswered(i) ==
  /\ flows[i].kind = "turn"
  /\ \E m \in Spoken : \E r \in runConversationTurn(flows[i].node, "number", UNION {c.facts : c \in flows[i].context}, m) :
       node' = r.node
  /\ started' = TRUE /\ phase' = "conversation" /\ busy' = FALSE /\ Finish(i)
  /\ UNCHANGED <<files, profile, deferred, edited, pendingGoal, resets>>

TurnFails(i) ==
  /\ flows[i].kind = "turn"
  /\ phase' = (IF started THEN "conversation" ELSE "goal") /\ busy' = FALSE /\ Finish(i)
  /\ UNCHANGED <<started, files, profile, scenario, pendingGoal, resets>>

\* Mutant of ContextExpired: the reference is kept.
ExpiredSameRef(i) ==
  /\ flows[i].kind = "turn" /\ flows[i].context # {}
  /\ node' = withoutDocumentValues(node)
  /\ Continue(i, Turning(node', flows[i].context))
  /\ phase' = "conversation" /\ busy' = TRUE /\ edited' = FALSE
  /\ UNCHANGED <<started, files, profile, deferred, pendingGoal, resets>>

ToReadAgain(doc) == [status |-> "selected", says |-> doc.says, held |-> FALSE]

\* 409: the document values leave, the documents wait for a new read, the message is sent once more.
ContextExpired(i) ==
  /\ flows[i].kind = "turn" /\ flows[i].context # {}
  /\ context' = {} /\ node' = withoutDocumentValues(node)
  /\ docs' = [d \in Documents |-> IF d \in Read(docs) THEN ToReadAgain(docs[d]) ELSE docs[d]]
  /\ Continue(i, Turning(node', {}))
  /\ phase' = "conversation" /\ busy' = TRUE /\ edited' = FALSE
  /\ UNCHANGED <<started, nextDocId, knowledge, decisions, deferred, pendingGoal, resets>>

Answer(i) ==
  \/ DocumentRead(i) \/ ProfileResolved(i) \/ ResolveFails(i)
  \/ TurnAnswered(i) \/ TurnFails(i) \/ ContextExpired(i)

Next ==
  \/ addFile
  \/ \E d \in Documents : removeDocument(d)
  \/ read \/ continueWithoutDocuments \/ choosePeriod \/ chooseConflict \/ choosePercent \/ send
  \/ \E v \in Values : edit(v)
  \/ reset
  \/ \E i \in DOMAIN flows : Answer(i)

\* A request answers, fails or is aborted by its timeout.
Spec == Init /\ [][Next]_vars /\ WF_vars(\E i \in DOMAIN flows : Answer(i))

-----------------------------------------------------------------------------
(* Properties. Conversations in which a reset left a flow in flight are     *)
(* apart (resets = 0): its late answer is written to the fresh state.      *)

\* Outside the question about the period, the context a turn would name is of exactly the documents that
\* are listed as read: not of a removed one, not short of a new one.  And a turn in flight, one sent again
\* after an expired context too, is of the very context and scenario its answer will replace: nothing but
\* the user's own edit changes them on the way.
ContextIsOfRead ==
  resets = 0 =>
    /\ ~busy /\ phase # "period" => \A c \in context : c.docs = Read(docs)
    /\ \A i \in DOMAIN flows : flows[i].kind = "turn" =>
         /\ flows[i].context = context
         /\ ~edited => flows[i].node = node

\* The screen does not stay busy.
Responsive == busy ~> ~busy

-----------------------------------------------------------------------------
(* The inductive invariant of the proofs *)

Listed == [status : {"absent", "selected", "reading", "read", "failed"}, says : SUBSET Values, held : BOOLEAN]

ContextFits == \A c \in context : c.docs = Read(docs)

\* What a flow holds while it waits. The documents it read stay out of the list of the read ones until it
\* has them; a resolve answers for the list as it is; a turn is of what the screen shows.
Reads(f) ==
  /\ f.kind = "read" /\ f = [kind |-> "read", todo |-> f.todo, before |-> f.before, anyNew |-> f.anyNew]
  /\ f.todo \subseteq Documents /\ \A d \in f.todo : docs[d].status = "reading"
  /\ f.anyNew \in BOOLEAN
  /\ ~f.anyNew /\ f.before # "period" => ContextFits
Resolves(f) ==
  /\ f.kind = "resolve" /\ f.docs = Read(docs) /\ f.next \in {"summary", "goal"}
  /\ f.next = "goal" => ContextFits
Turns(f) ==
  /\ f.kind = "turn" /\ f = Turning(f.node, context) /\ ContextFits
  /\ ~edited => f.node = node

\* While no reset has left a flow behind, one flow runs and the screen is busy, or none and it is not.
FlowInv ==
  \/ flows = <<>> /\ ~busy /\ (phase # "period" => ContextFits)
  \/ busy /\ flows # <<>> /\ flows = <<flows[1]>> /\ (Reads(flows[1]) \/ Resolves(flows[1]) \/ Turns(flows[1]))

\* A document gets a number that none of the list has.
ListInv ==
  /\ docs \in [Documents -> Listed] /\ nextDocId \in Nat \ {0}
  /\ \A d \in Documents : docs[d].status # "absent" => d < nextDocId

IInv == ListInv /\ resets \in Nat /\ (resets = 0 => FlowInv)

=============================================================================
