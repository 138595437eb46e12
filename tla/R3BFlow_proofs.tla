--------------------------- MODULE R3BFlow_proofs ---------------------------
(***************************************************************************)
(* Proofs about R3BFlow: for every set of documents, of values printed in  *)
(* them, of weeks and of messages.                                         *)
(***************************************************************************)
EXTENDS R3BFlow, TLAPS

-----------------------------------------------------------------------------
(* One flow                                                                *)

LEMMA One == ASSUME NEW f
             PROVE  /\ DOMAIN <<f>> = {1} /\ <<f>>[1] = f /\ <<f>> # <<>>
                    /\ RemoveAt(<<f>>, 1) = <<>> /\ Append(<<>>, f) = <<f>>
                    /\ \A g : [<<f>> EXCEPT ![1] = g] = <<g>>
<1>1. /\ DOMAIN <<f>> = {1} /\ <<f>>[1] = f /\ <<f>> # <<>> /\ Append(<<>>, f) = <<f>>
      /\ \A g : [<<f>> EXCEPT ![1] = g] = <<g>>
  OBVIOUS
<1>2. RemoveAt(<<f>>, 1) = <<>>
  <2>1. SubSeq(<<f>>, 1, 0) = <<>> /\ SubSeq(<<f>>, 2, 1) = <<>>
    OBVIOUS
  <2>2. Len(<<f>>) = 1
    OBVIOUS
  <2>. QED
    BY <2>1, <2>2 DEF RemoveAt
<1>. QED
  BY <1>1, <1>2

\* A screen that is not busy has no flow in flight.
LEMMA Rests == ASSUME IInv, resets = 0, ~busy
               PROVE  flows = <<>> /\ (phase # "period" => ContextFits)
BY DEF IInv, FlowInv

\* A new flow is the only one.
LEMMA Begins == ASSUME NEW f, flows' = Append(<<>>, f), busy', Reads(f)' \/ Resolves(f)' \/ Turns(f)'
                PROVE  FlowInv'
<1>1. flows' = <<f>>
  BY One
<1>2. flows'[1] = f /\ flows' # <<>> /\ flows' = <<flows'[1]>>
  BY <1>1, One
<1>3. CASE Reads(f)'
  BY <1>2, <1>3 DEF FlowInv, Reads, ContextFits, Read
<1>4. CASE Resolves(f)'
  BY <1>2, <1>4 DEF FlowInv, Resolves, ContextFits, Read
<1>5. CASE Turns(f)'
  BY <1>2, <1>5 DEF FlowInv, Turns, ContextFits, Read
<1>. QED
  BY <1>3, <1>4, <1>5

\* The read documents are told by the statuses alone.
LEMMA SameRead == ASSUME NEW ds, NEW es, \A d \in Documents : ds[d].status = "read" <=> es[d].status = "read"
                  PROVE  Read(ds) = Read(es)
BY DEF Read

LEMMA InitIInv == Init => IInv
<1>. SUFFICES ASSUME Init PROVE IInv
  OBVIOUS
<1>1. docs \in [Documents -> Listed]
  BY DEF Init, initialState, Absent, Listed
<1>2. ListInv
  BY <1>1 DEF Init, initialState, Absent, ListInv
<1>. QED
  BY <1>2 DEF Init, initialState, IInv, FlowInv, ContextFits

-----------------------------------------------------------------------------
(* The list of documents *)

LEMMA Updates == ASSUME ListInv, NEW d \in Documents, NEW r \in Listed, docs' = [docs EXCEPT ![d] = r],
                        nextDocId' \in Nat, nextDocId <= nextDocId', r.status # "absent" => d < nextDocId'
                 PROVE  ListInv'
<1>1. docs' \in [Documents -> Listed]
  BY DEF ListInv
<1>2. nextDocId' \in Nat \ {0}
  BY DEF ListInv
<1>3. ASSUME NEW e \in Documents, docs'[e].status # "absent"
      PROVE  e < nextDocId'
  <2>1. CASE e = d
    BY <1>3, <2>1 DEF ListInv
  <2>2. CASE e # d
    <3>1. docs'[e] = docs[e] /\ e \in Nat
      BY <2>2, FlowAssumption DEF ListInv
    <3>. QED
      BY <1>3, <3>1 DEF ListInv
  <2>. QED
    BY <2>1, <2>2
<1>. QED
  BY <1>1, <1>2, <1>3 DEF ListInv

\* The whole list takes new statuses, and the absent stay absent.
LEMMA Relists == ASSUME ListInv, docs' \in [Documents -> Listed], nextDocId' = nextDocId,
                        \A d \in Documents : docs[d].status = "absent" => docs'[d].status = "absent"
                 PROVE  ListInv'
BY DEF ListInv

\* While nothing runs, the context fits the same read documents as before.
LEMMA StaysFit == ASSUME ContextFits, context' \subseteq context, Read(docs') = Read(docs) PROVE ContextFits'
BY DEF ContextFits

-----------------------------------------------------------------------------
(* The user *)

LEMMA AddsFile == ASSUME IInv, addFile PROVE IInv'
<1>1. nextDocId \in Documents /\ docs[nextDocId].status = "absent"
  BY FlowAssumption DEF addFile, IInv, ListInv, Listed
<1>2. PICK r : r = [Absent EXCEPT !.status = "selected"]
  OBVIOUS
<1>3. r \in Listed /\ r.status = "selected"
  BY <1>2 DEF Absent, Listed
<1>4. docs' = [docs EXCEPT ![nextDocId] = r] /\ nextDocId' = nextDocId + 1
  BY <1>2 DEF addFile
<1>5. ListInv'
  BY <1>1, <1>3, <1>4, Updates DEF IInv, ListInv
<1>6. Read(docs') = Read(docs)
  BY <1>1, <1>3, <1>4 DEF Read, IInv, ListInv
<1>7. ASSUME resets' = 0
      PROVE  FlowInv'
  <2>1. flows = <<>> /\ ~busy /\ (phase # "period" => ContextFits)
    BY <1>7, Rests DEF addFile, canEditDocuments
  <2>. QED
    BY <2>1, <1>6, StaysFit DEF addFile, screen, profile, FlowInv
<1>. QED
  BY <1>5, <1>7 DEF IInv, addFile

LEMMA RemovesDocument == ASSUME IInv, NEW d \in Documents, removeDocument(d) PROVE IInv'
<1>1. Absent \in Listed /\ Absent.status = "absent" /\ docs' = [docs EXCEPT ![d] = Absent]
  BY DEF Absent, Listed, removeDocument
<1>2. ListInv'
  BY <1>1, Updates DEF IInv, ListInv, removeDocument
<1>3. ASSUME resets' = 0
      PROVE  FlowInv'
  <2>1. flows = <<>> /\ ~busy /\ (phase # "period" => ContextFits)
    BY <1>3, Rests DEF removeDocument, canEditDocuments
  <2>2. CASE docs[d].status # "read" /\ UNCHANGED <<screen, profile, flows>>
    <3>1. Read(docs') = Read(docs)
      BY <1>1, <2>2 DEF Read, IInv, ListInv
    <3>. QED
      BY <2>1, <2>2, <3>1, StaysFit DEF screen, profile, FlowInv
  <2>3. CASE context' = {} /\ UNCHANGED <<screen, flows>>
    BY <2>1, <2>3 DEF screen, FlowInv, ContextFits
  <2>4. CASE busy' = TRUE /\ \E week \in Weeks(docs') : Start(Resolving(docs', week, decisions, "summary", FALSE))
    <3>1. PICK week : flows' = Append(flows, Resolving(docs', week, decisions, "summary", FALSE))
      BY <2>4 DEF Start
    <3>2. PICK f : f = Resolving(docs', week, decisions, "summary", FALSE)
      OBVIOUS
    <3>3. Resolves(f)'
      BY <3>2 DEF Resolving, Resolves
    <3>. QED
      BY <2>1, <2>4, <3>1, <3>2, <3>3, Begins
  <2>. QED
    BY <2>2, <2>3, <2>4 DEF removeDocument
<1>. QED
  BY <1>2, <1>3 DEF IInv, removeDocument

LEMMA ReadsFiles == ASSUME IInv, read PROVE IInv'
<1>1. toRead \subseteq Documents /\ \A d \in toRead : docs[d].status # "read" /\ docs[d].status # "absent"
  BY DEF toRead
<1>2. docs' \in [Documents -> Listed]
  BY DEF IInv, ListInv, Listed, read
<1>3. \A d \in Documents : docs'[d].status = IF d \in toRead THEN "reading" ELSE docs[d].status
  BY DEF IInv, ListInv, Listed, read
<1>4. ListInv'
  BY <1>1, <1>2, <1>3, Relists DEF IInv, read
<1>5. Read(docs') = Read(docs)
  BY <1>1, <1>3 DEF Read
<1>6. ASSUME resets' = 0
      PROVE  FlowInv'
  <2>1. flows = <<>> /\ (phase # "period" => ContextFits)
    BY <1>6, Rests DEF read
  <2>2. PICK todo : todo = toRead
    OBVIOUS
  <2>3. PICK f : f = [kind |-> "read", todo |-> todo, before |-> phase, anyNew |-> FALSE]
    OBVIOUS
  <2>4. flows' = Append(<<>>, f) /\ busy'
    BY <2>1, <2>2, <2>3 DEF read, Start
  <2>5. phase # "period" => ContextFits'
    BY <2>1, <1>5, StaysFit DEF read, profile
  <2>6. Reads(f)'
    BY <1>1, <1>3, <2>2, <2>3, <2>5 DEF Reads
  <2>. QED
    BY <2>4, <2>6, Begins
<1>. QED
  BY <1>4, <1>6 DEF IInv, read

\* A step that leaves the list, the context and the flows alone.
LEMMA Asks == ASSUME IInv, ~busy, UNCHANGED <<busy, files, profile, flows, resets>>, phase = "period" => phase' = "period"
              PROVE  IInv'
<1>1. ListInv'
  BY DEF IInv, ListInv, files
<1>2. ASSUME resets' = 0
      PROVE  FlowInv'
  <2>1. flows = <<>> /\ (phase # "period" => ContextFits)
    BY <1>2, Rests
  <2>. QED
    BY <2>1, StaysFit DEF files, profile, FlowInv
<1>. QED
  BY <1>1, <1>2 DEF IInv

\* A turn starts from a screen whose context fits.
LEMMA Sends == ASSUME IInv, ~busy, phase # "period", turn(flows), UNCHANGED <<files, profile, resets>> PROVE IInv'
<1>1. ListInv'
  BY DEF IInv, ListInv, files
<1>2. ASSUME resets' = 0
      PROVE  FlowInv'
  <2>1. flows = <<>> /\ ContextFits
    BY <1>2, Rests
  <2>2. ContextFits'
    BY <2>1, StaysFit DEF files, profile
  <2>3. PICK f : f = Turning(node, context)
    OBVIOUS
  <2>4. Turns(f)'
    BY <2>2, <2>3 DEF Turns, Turning, turn, profile
  <2>. QED
    BY <2>1, <2>3, <2>4, Begins DEF turn
<1>. QED
  BY <1>1, <1>2 DEF IInv

LEMMA Goes == ASSUME IInv, ~busy, phase # "period", goal PROVE IInv'
BY Asks, Sends DEF goal

LEMMA ContinuesWithout == ASSUME IInv, continueWithoutDocuments PROVE IInv'
BY Asks DEF continueWithoutDocuments, scenario

LEMMA ChoosesPeriod == ASSUME IInv, choosePeriod PROVE IInv'
<1>1. ListInv'
  BY DEF IInv, ListInv, choosePeriod, files
<1>2. ASSUME resets' = 0
      PROVE  FlowInv'
  <2>1. flows = <<>>
    BY <1>2, Rests DEF choosePeriod
  <2>2. CASE context' = {} /\ afterSummary /\ UNCHANGED flows
    BY <2>1, <2>2 DEF afterSummary, FlowInv, ContextFits
  <2>3. CASE busy' = TRUE /\ \E week \in Periods : Start(Resolving(docs, week, decisions, "summary", FALSE))
    <3>1. PICK week : flows' = Append(flows, Resolving(docs, week, decisions, "summary", FALSE))
      BY <2>3 DEF Start
    <3>2. PICK f : f = Resolving(docs, week, decisions, "summary", FALSE)
      OBVIOUS
    <3>3. docs' = docs
      BY DEF choosePeriod, files
    <3>4. Resolves(f)'
      BY <3>2, <3>3 DEF Resolving, Resolves
    <3>. QED
      BY <2>1, <2>3, <3>1, <3>2, <3>4, Begins
  <2>. QED
    BY <2>2, <2>3 DEF choosePeriod
<1>. QED
  BY <1>1, <1>2 DEF IInv, choosePeriod

\* The goal that waited goes on, or the screen rests, with a context that fits.
LEMMA GoesOn == ASSUME ContextFits', NEW others, others = <<>>, NEW left, continueGoal(others, left) PROVE FlowInv'
<1>1. CASE pendingGoal
  <2>1. PICK f : f = Turning(node, context')
    OBVIOUS
  <2>2. flows' = Append(<<>>, f) /\ busy' /\ edited' = FALSE /\ node' = node
    BY <1>1, <2>1 DEF continueGoal
  <2>3. Turns(f)'
    BY <2>1, <2>2 DEF Turns, Turning
  <2>. QED
    BY <2>2, <2>3, Begins
<1>2. CASE ~pendingGoal
  BY <1>2 DEF continueGoal, FlowInv
<1>. QED
  BY <1>1, <1>2

LEMMA ChoosesConflict == ASSUME IInv, chooseConflict PROVE IInv'
<1>1. ListInv' /\ docs' = docs
  BY DEF IInv, ListInv, chooseConflict, files
<1>2. ASSUME resets' = 0
      PROVE  FlowInv'
  <2>1. flows = <<>> /\ ContextFits
    BY <1>2, Rests DEF chooseConflict
  <2>2. ASSUME UNCHANGED profile
        PROVE  ContextFits'
    BY <1>1, <2>1, <2>2, StaysFit DEF profile
  <2>3. CASE UNCHANGED profile /\ (continueGoal(flows, FALSE) \/ continueGoal(flows, TRUE))
    BY <2>1, <2>2, <2>3, GoesOn
  <2>4. CASE busy' = TRUE /\ (\E k \in knowledge : Start(Resolving(docs, k.week, {k.facts}, "goal", FALSE))) /\ UNCHANGED profile
    <3>1. PICK k : flows' = Append(flows, Resolving(docs, k.week, {k.facts}, "goal", FALSE))
      BY <2>4 DEF Start
    <3>2. PICK f : f = Resolving(docs, k.week, {k.facts}, "goal", FALSE)
      OBVIOUS
    <3>3. Resolves(f)'
      BY <1>1, <2>2, <2>4, <3>2 DEF Resolving, Resolves
    <3>. QED
      BY <2>1, <2>4, <3>1, <3>2, <3>3, Begins
  <2>. QED
    BY <2>3, <2>4 DEF chooseConflict
<1>. QED
  BY <1>1, <1>2 DEF IInv, chooseConflict

LEMMA ChoosesPercent == ASSUME IInv, choosePercent PROVE IInv'
BY Sends DEF choosePercent

LEMMA SendsMessage == ASSUME IInv, send PROVE IInv'
<1>1. CASE phase # "period" /\ goal
  BY <1>1, Goes DEF send
<1>2. CASE phase = "conversation" /\ turn(flows) /\ UNCHANGED <<files, profile, pendingGoal, resets>>
  BY <1>2, Sends DEF send
<1>3. CASE phase = "conversation" /\ UNCHANGED <<busy, started, files, profile, scenario, pendingGoal, flows, resets>>
  BY <1>3, Asks DEF send
<1>. QED
  BY <1>1, <1>2, <1>3 DEF send

\* An edit touches no flow; a turn in flight is no longer of the field as it stands.
LEMMA Edits == ASSUME IInv, NEW v \in Values, edit(v) PROVE IInv'
<1>1. ListInv' /\ docs' = docs /\ context' = context /\ flows' = flows /\ busy' = busy /\ phase' = phase /\ edited' = TRUE
  BY DEF IInv, ListInv, edit, files, screen, profile
<1>2. ContextFits <=> ContextFits'
  BY <1>1 DEF ContextFits
<1>3. ASSUME resets' = 0
      PROVE  FlowInv'
  <2>1. FlowInv
    BY <1>3 DEF IInv, edit
  <2>2. CASE flows = <<>> /\ ~busy /\ (phase # "period" => ContextFits)
    BY <1>1, <1>2, <2>2 DEF FlowInv
  <2>3. CASE flows # <<>>
    <3>1. PICK f : f = flows[1]
      OBVIOUS
    <3>2. busy /\ flows = <<f>> /\ (Reads(f) \/ Resolves(f) \/ Turns(f))
      BY <2>1, <2>3, <3>1 DEF FlowInv
    <3>3. Reads(f)' \/ Resolves(f)' \/ Turns(f)'
      BY <1>1, <1>2, <3>2 DEF Reads, Resolves, Turns
    <3>. QED
      BY <1>1, <3>2, <3>3, One, Begins
  <2>. QED
    BY <2>1, <2>2, <2>3 DEF FlowInv
<1>. QED
  BY <1>1, <1>3 DEF IInv, edit

\* A reset with a flow in flight is counted, and nothing is claimed after it.
LEMMA Resets == ASSUME IInv, reset PROVE IInv'
<1>1. ListInv'
  BY DEF reset, Absent, Listed, ListInv
<1>2. resets' \in Nat
  BY DEF IInv, reset
<1>3. ASSUME resets' = 0
      PROVE  FlowInv'
  <2>1. flows = <<>>
    BY <1>3 DEF IInv, reset
  <2>. QED
    BY <2>1 DEF reset, FlowInv, ContextFits
<1>. QED
  BY <1>1, <1>2, <1>3 DEF IInv

-----------------------------------------------------------------------------
(* What comes back *)

\* An answer is for the one flow in flight.
LEMMA Alone == ASSUME IInv, resets = 0, NEW i \in DOMAIN flows
               PROVE  i = 1 /\ busy /\ \E f : flows = <<f>> /\ flows[i] = f /\ (Reads(f) \/ Resolves(f) \/ Turns(f))
<1>1. FlowInv /\ flows # <<>>
  BY DEF IInv
<1>2. PICK f : f = flows[1]
  OBVIOUS
<1>3. busy /\ flows = <<f>> /\ (Reads(f) \/ Resolves(f) \/ Turns(f))
  BY <1>1, <1>2 DEF FlowInv
<1>4. i = 1
  BY <1>3, One
<1>. QED
  BY <1>3, <1>4, One

\* A flow that ends leaves none, one that goes on is the only one.
LEMMA Ends == ASSUME NEW f, flows = <<f>>, Finish(1), ~busy', phase' # "period" => ContextFits' PROVE FlowInv'
BY One DEF Finish, FlowInv

LEMMA Continues == ASSUME NEW f, NEW g, flows = <<f>>, Continue(1, g), busy', Reads(g)' \/ Resolves(g)' \/ Turns(g)'
                   PROVE  FlowInv'
<1>1. flows' = Append(<<>>, g)
  BY One DEF Continue
<1>. QED
  BY <1>1, Begins

LEMMA DocumentComes == ASSUME IInv, NEW i \in DOMAIN flows, DocumentRead(i) PROVE IInv'
<1>1. PICK d \in flows[i].todo, says \in {S \in SUBSET Values : Cardinality(S) <= 1}, held \in BOOLEAN, ok \in BOOLEAN :
        LET flow == ReadingOn(flows[i], d, ok)
            ds == IF docs[d].status = "absent" THEN docs ELSE [docs EXCEPT ![d] = Outcome(ok, says, held)]
        IN  /\ docs' = ds
            /\ IF flow.todo # {} THEN Continue(i, flow) /\ UNCHANGED <<phase, busy>>
                                 ELSE ReadEnds(i, flow, ds)
  BY DEF DocumentRead
<1>2. PICK flow : flow = ReadingOn(flows[i], d, ok)
  OBVIOUS
<1>3. PICK after : after = Outcome(ok, says, held)
  OBVIOUS
<1>4. docs' = IF docs[d].status = "absent" THEN docs ELSE [docs EXCEPT ![d] = after]
  BY <1>1, <1>3
<1>5. IF flow.todo # {} THEN Continue(i, flow) /\ UNCHANGED <<phase, busy>> ELSE ReadEnds(i, flow, docs')
  BY <1>1, <1>2, <1>3
<1>6. ListInv'
  <2>1. CASE d \notin Documents \/ docs[d].status = "absent"
    BY <1>4, <2>1, Relists DEF IInv, ListInv, DocumentRead
  <2>2. CASE d \in Documents /\ docs[d].status # "absent"
    <3>1. docs[d] \in Listed /\ d < nextDocId
      BY <2>2 DEF IInv, ListInv
    <3>2. after \in Listed
      BY <1>3 DEF Outcome, Listed
    <3>. QED
      BY <1>4, <2>2, <3>1, <3>2, Updates DEF IInv, ListInv, DocumentRead
  <2>. QED
    BY <2>1, <2>2
<1>7. ASSUME resets' = 0
      PROVE  FlowInv'
  <2>1. PICK f : i = 1 /\ busy /\ flows = <<f>> /\ flows[i] = f /\ Reads(f)
    BY <1>7, Alone DEF DocumentRead, Resolves, Turns
  <2>2. d \in Documents /\ docs[d].status = "reading" /\ docs[d] \in Listed
    BY <2>1 DEF Reads, IInv, ListInv
  <2>3. /\ flow = [kind |-> "read", todo |-> flow.todo, before |-> flow.before, anyNew |-> flow.anyNew]
        /\ flow.kind = "read" /\ flow.todo = f.todo \ {d} /\ flow.before = f.before /\ flow.anyNew = (f.anyNew \/ ok)
    BY <1>2, <2>1 DEF ReadingOn, Reads
  <2>4. after.status = IF ok THEN "read" ELSE "failed"
    BY <1>3 DEF Outcome
  <2>5. docs' = [docs EXCEPT ![d] = after]
    BY <1>4, <2>2
  <2>6. \A e \in Documents : e # d => docs'[e] = docs[e]
    BY <2>5 DEF IInv, ListInv
  <2>7. docs'[d] = after
    BY <2>2, <2>5 DEF IInv, ListInv
  <2>8. context' = context
    BY DEF DocumentRead, profile
  <2>9. ASSUME ~flow.anyNew, flow.before # "period"
        PROVE  ContextFits'
    <3>1. ~ok /\ ~f.anyNew /\ ContextFits
      BY <2>1, <2>3, <2>9 DEF Reads
    <3>2. Read(docs') = Read(docs)
      BY <2>2, <2>4, <2>6, <2>7, <3>1 DEF Read
    <3>. QED
      BY <2>8, <3>1, <3>2, StaysFit
  <2>10. CASE flow.todo # {}
    <3>1. Reads(flow)'
      BY <2>1, <2>3, <2>6, <2>9 DEF Reads
    <3>. QED
      BY <1>5, <2>1, <2>10, <3>1, Continues
  <2>11. CASE flow.todo = {}
    <3>1. ReadEnds(1, flow, docs')
      BY <1>5, <2>1, <2>11
    <3>2. CASE ~flow.anyNew
      BY <2>1, <2>9, <3>1, <3>2, Ends DEF ReadEnds
    <3>3. CASE flow.anyNew /\ Read(docs') \cap Annexes # {}
      BY <2>1, <3>1, <3>3, Ends DEF ReadEnds
    <3>4. CASE flow.anyNew /\ Read(docs') \cap Annexes = {}
      <4>1. PICK g : g = Resolving(docs', Documents, decisions, "summary", FALSE)
        OBVIOUS
      <4>2. busy' = TRUE /\ Continue(1, g)
        BY <3>1, <3>4, <4>1 DEF ReadEnds
      <4>3. Resolves(g)'
        BY <4>1 DEF Resolving, Resolves
      <4>. QED
        BY <2>1, <4>2, <4>3, Continues
    <3>. QED
      BY <3>2, <3>3, <3>4
  <2>. QED
    BY <2>10, <2>11
<1>. QED
  BY <1>6, <1>7 DEF IInv, DocumentRead

LEMMA ProfileComes == ASSUME IInv, NEW i \in DOMAIN flows, ProfileResolved(i) PROVE IInv'
<1>1. ListInv' /\ docs' = docs
  BY DEF IInv, ListInv, ProfileResolved, files
<1>2. ASSUME resets' = 0
      PROVE  FlowInv'
  <2>1. PICK f : i = 1 /\ flows = <<f>> /\ flows[i] = f /\ Resolves(f)
    BY <1>2, Alone DEF ProfileResolved, Reads, Turns
  <2>2. context' \in Issued(f)
    BY <2>1 DEF ProfileResolved
  <2>3. ContextFits'
    BY <1>1, <2>1, <2>2 DEF Issued, ContextFits, Resolves
  <2>4. CASE afterSummary /\ Finish(i)
    BY <2>1, <2>3, <2>4, Ends DEF afterSummary
  <2>5. CASE continueGoal(RemoveAt(flows, i), FALSE)
    <3>1. PICK others : others = RemoveAt(flows, i)
      OBVIOUS
    <3>2. others = <<>> /\ continueGoal(others, FALSE)
      BY <2>1, <2>5, <3>1, One
    <3>. QED
      BY <2>3, <3>2, GoesOn
  <2>. QED
    BY <2>4, <2>5 DEF ProfileResolved
<1>. QED
  BY <1>1, <1>2 DEF IInv, ProfileResolved

LEMMA ResolveEnds == ASSUME IInv, NEW i \in DOMAIN flows, ResolveFails(i) PROVE IInv'
<1>1. CASE Echoed(i) /\ UNCHANGED screen
  <2>1. /\ docs' \in [Documents -> Listed]
        /\ \A d \in Documents : docs'[d].status = docs[d].status
    BY <1>1 DEF Echoed, IInv, ListInv, Listed
  <2>2. ListInv'
    BY <2>1, Relists DEF IInv, ResolveFails
  <2>3. ASSUME resets' = 0
        PROVE  FlowInv'
    <3>1. PICK f : i = 1 /\ busy /\ flows = <<f>> /\ flows[i] = f /\ Resolves(f)
      BY <2>3, Alone DEF ResolveFails, Reads, Turns
    <3>2. PICK g : g = Resolving(docs', f.week, f.decisions, f.next, TRUE)
      OBVIOUS
    <3>3. Continue(1, g) /\ context' = {} /\ busy' = busy
      BY <1>1, <3>1, <3>2 DEF Echoed, screen
    <3>4. Resolves(g)'
      BY <3>1, <3>2, <3>3 DEF Resolving, Resolves, ContextFits
    <3>. QED
      BY <3>1, <3>3, <3>4, Continues
  <2>. QED
    BY <2>2, <2>3 DEF IInv, ResolveFails
<1>2. CASE /\ Finish(i) /\ UNCHANGED docs
           /\ IF flows[i].next = "summary"
              THEN knowledge' = {} /\ context' = {} /\ UNCHANGED decisions /\ afterSummary
              ELSE busy' = FALSE /\ UNCHANGED <<phase, started, profile>>
  <2>1. ListInv'
    BY <1>2 DEF IInv, ListInv, ResolveFails
  <2>2. ASSUME resets' = 0
        PROVE  FlowInv'
    <3>1. PICK f : i = 1 /\ flows = <<f>> /\ flows[i] = f /\ Resolves(f)
      BY <2>2, Alone DEF ResolveFails, Reads, Turns
    <3>2. ~busy' /\ ContextFits'
      <4>1. CASE f.next = "summary"
        BY <1>2, <3>1, <4>1 DEF afterSummary, ContextFits
      <4>2. CASE f.next # "summary"
        <5>1. ContextFits /\ ~busy' /\ context' = context
          BY <1>2, <3>1, <4>2 DEF Resolves, profile
        <5>. QED
          BY <1>2, <5>1, StaysFit
      <4>. QED
        BY <4>1, <4>2
    <3>. QED
      BY <1>2, <3>1, <3>2, Ends
  <2>. QED
    BY <2>1, <2>2 DEF IInv, ResolveFails
<1>. QED
  BY <1>1, <1>2 DEF ResolveFails

\* A turn ends on the screen it was sent from.
LEMMA TurnEnds == ASSUME IInv, NEW i \in DOMAIN flows, flows[i].kind = "turn", busy' = FALSE, Finish(i),
                         UNCHANGED <<files, profile, resets>>
                  PROVE  IInv'
<1>1. ListInv' /\ docs' = docs /\ context' = context
  BY DEF IInv, ListInv, files, profile
<1>2. ASSUME resets' = 0
      PROVE  FlowInv'
  <2>1. PICK f : i = 1 /\ flows = <<f>> /\ Turns(f)
    BY <1>2, Alone DEF Reads, Resolves
  <2>2. ContextFits'
    BY <1>1, <2>1, StaysFit DEF Turns
  <2>. QED
    BY <2>1, <2>2, Ends
<1>. QED
  BY <1>1, <1>2 DEF IInv

LEMMA TurnSentAgain == ASSUME IInv, NEW i \in DOMAIN flows, ContextExpired(i) PROVE IInv'
<1>1. /\ docs' \in [Documents -> Listed]
      /\ \A d \in Documents : docs[d].status = "absent" => docs'[d].status = "absent"
  BY DEF ContextExpired, ToReadAgain, IInv, ListInv, Listed, Read
<1>2. ListInv'
  BY <1>1, Relists DEF IInv, ContextExpired
<1>3. ASSUME resets' = 0
      PROVE  FlowInv'
  <2>1. PICK f : i = 1 /\ flows = <<f>>
    BY <1>3, Alone DEF ContextExpired
  <2>2. PICK g : g = Turning(node', {})
    OBVIOUS
  <2>3. Turns(g)'
    BY <2>2 DEF Turns, Turning, ContextExpired, ContextFits
  <2>. QED
    BY <2>1, <2>2, <2>3, Continues DEF ContextExpired
<1>. QED
  BY <1>2, <1>3 DEF IInv, ContextExpired

LEMMA Answers == ASSUME IInv, NEW i \in DOMAIN flows, Answer(i) PROVE IInv'
<1>1. CASE TurnAnswered(i)
  BY <1>1, TurnEnds DEF TurnAnswered
<1>2. CASE TurnFails(i)
  BY <1>2, TurnEnds DEF TurnFails
<1>. QED
  BY <1>1, <1>2, DocumentComes, ProfileComes, ResolveEnds, TurnSentAgain DEF Answer

-----------------------------------------------------------------------------
(* The theorems *)

LEMMA Stutters == ASSUME IInv, UNCHANGED vars PROVE IInv'
BY DEF vars, IInv, ListInv, FlowInv, Reads, Resolves, Turns, ContextFits, Read, Turning, Listed

LEMMA NextIInv == IInv /\ [Next]_vars => IInv'
BY AddsFile, RemovesDocument, ReadsFiles, ContinuesWithout, ChoosesPeriod, ChoosesConflict, ChoosesPercent,
   SendsMessage, Edits, Resets, Answers, Stutters DEF Next

LEMMA Invariance == Spec => []IInv
BY InitIInv, NextIInv, PTL DEF Spec

\* Until a reset leaves a flow behind, the context a turn would name is of exactly the
\* documents listed as read, and a turn in flight is of the context and the scenario its
\* answer will replace, for any documents, annexes and conflicts (r3b-flow.ts).
THEOREM Fits == Spec => []ContextIsOfRead
<1>1. IInv => ContextIsOfRead
  <2>1. ASSUME IInv, resets = 0, ~busy, phase # "period"
        PROVE  \A c \in context : c.docs = Read(docs)
    BY <2>1, Rests DEF ContextFits
  <2>2. ASSUME IInv, resets = 0, NEW i \in DOMAIN flows, flows[i].kind = "turn"
        PROVE  flows[i].context = context /\ (~edited => flows[i].node = node)
    <3>1. PICK f : flows[i] = f /\ Turns(f)
      BY <2>2, Alone DEF Reads, Resolves
    <3>. QED
      BY <3>1 DEF Turns, Turning
  <2>. QED
    BY <2>1, <2>2 DEF ContextIsOfRead
<1>. QED
  BY Invariance, <1>1, PTL
=============================================================================
