-------------------------- MODULE PayslipAnalysis --------------------------
(***************************************************************************)
(* The Payslip Analysis screen (payslip-analysis.ts, PayslipAnalysis.tsx)  *)
(* with the reader adapter (document-facts-reader.ts), the reader route    *)
(* and the replay (pro-facts.controller.ts).                               *)
(*                                                                         *)
(* A file is planned into batches, each batch is one reader call, and what *)
(* the server read it keeps for the browser's session under a reference.   *)
(* Facts and checks are then asked for by reference only.  The reader      *)
(* model, the network, the store and the rates may fail at any call, and   *)
(* what the store keeps may expire at any time.                            *)
(*                                                                         *)
(* What a document prints are entries on its pages; the reader answers for *)
(* each as Answers allows, and the facts are made of the answers           *)
(* (FactExtraction), shown (DocumentKnowledge) and replayed.  What else    *)
(* the computation may lack is chosen at each replay; the checks and the   *)
(* comparison themselves are PayslipReview's.                              *)
(***************************************************************************)
EXTENDS DocumentBatches, DocumentKnowledge

CONSTANTS
  Files,         \* what the user may select
  Sources,       \* what the files may turn out to be: functions from files to their sources; a source also has the
                 \* entries it prints: scalars and lines, each as a reader that errs nowhere would answer for it,
                 \* and a bound: how many reads there may be when it is the file
  Answers(_),    \* what the reader may answer for a printed entry; it may leave it out
  Rejected,      \* the files of a type or size checkFile refuses
  MaxBatches     \* MAX_BATCHES_PER_DOCUMENT, and the most references of a request

ASSUME FilesAssumption ==
  /\ Rejected \subseteq Files /\ MaxBatches \in Nat
  /\ \A s \in Sources, f \in Files :
       /\ s[f].pageCount \in Nat /\ {s[f].chars, s[f].lines} \subseteq [1..s[f].pageCount -> Nat]
       /\ \A p \in 1..s[f].pageCount : s[f].lines[p] <= s[f].chars[p] /\ (s[f].lines[p] = 0 <=> s[f].chars[p] = 0)

VARIABLES
  source,        \* [file -> its source]
  state,         \* the screen's state (PayslipAnalysisState)
  reading,       \* the reader adapter's loop over the plan
  records,       \* the batches the server keeps, in the order they were stored
  reads          \* reads begun so far

analysisVars == <<source, state, reading, records, reads>>

Null == "none"
Nothing == {}
NotReading == [at |-> "idle", file |-> Null, plan |-> [batches |-> <<>>, notProcessedPages |-> {}], next |-> 0, read |-> 0, refs |-> {}, failed |-> {}]

initialPayslipState(available) ==
  [file |-> Null, fileError |-> FALSE, readerAvailable |-> available, phase |-> "empty", error |-> Null,
   coverage |-> Nothing, facts |-> Nothing, contextRef |-> Nothing, replay |-> Null, replayProblem |-> Null, batchRefs |-> {}]

Busy(s) == s.phase \in {"reading", "analysing"}
Batches == reading.plan.batches
AnswerOrNone(entry) == {{}} \cup {{answer} : answer \in Answers(entry)}
Kept(refs) == \A r \in refs : records[r].kept
RecordsOf(refs) == {records[r] : r \in refs}
DocumentOf(refs) == Document!mergeBatches(RecordsOf(refs))

\* parsePayslipBatches: not too many, all of one document, and no page read twice.
consistentBatches(batches) ==
  /\ Cardinality(batches) \in 1..MaxBatches
  /\ \A b, c \in batches : b.total = c.total /\ (b # c => b.pages \cap c.pages = {})
  /\ \A b \in batches : \A p \in b.pages : p <= b.total

AnalysisInit ==
  /\ source \in Sources
  /\ state = initialPayslipState("unknown")
  /\ reading = NotReading
  /\ records = <<>>
  /\ reads = 0

(***************************************************************************)
(* The screen                                                              *)
(***************************************************************************)
CheckReader(answer) ==
  /\ state.readerAvailable = "unknown"
  /\ state' = [state EXCEPT !.readerAvailable = answer]
  /\ UNCHANGED <<source, reading, records, reads>>

MaySelect(s) == ~Busy(s)

\* The file input is shown until the results are.
SelectFile(f) ==
  /\ MaySelect(state) /\ state.phase # "done"
  /\ state' = IF f \in Rejected
                THEN [state EXCEPT !.fileError = TRUE]
                ELSE [initialPayslipState(state.readerAvailable) EXCEPT !.file = f, !.phase = "selected"]
  /\ UNCHANGED <<source, reading, records, reads>>

RemoveFile ==
  /\ ~Busy(state) /\ state.phase # "done" /\ state.file # Null
  /\ state' = initialPayslipState(state.readerAvailable)
  /\ UNCHANGED <<source, reading, records, reads>>

\* "Read": after a selection or a failed read, and in the results when the server no longer has the document.
OffersRead == \/ state.phase = "selected"
              \/ state.phase = "done" /\ state.error = Null /\ state.replayProblem = "document_expired"

Read ==
  /\ OffersRead /\ state.file # Null /\ state.readerAvailable # "no" /\ reads < source[state.file].reads
  /\ state' = [state EXCEPT !.phase = "reading", !.error = Null, !.coverage = Nothing, !.facts = Nothing,
                            !.contextRef = Nothing, !.replay = Null, !.replayProblem = Null, !.batchRefs = {}]
  /\ reading' = [NotReading EXCEPT !.at = "open", !.file = state.file]
  /\ reads' = reads + 1
  /\ UNCHANGED <<source, records>>

OffersRetry == /\ state.phase = "done" /\ state.batchRefs # {}
               /\ state.error = "facts" \/ (state.error = Null /\ state.replayProblem = "replay_failed")

retryAnalysis ==
  /\ OffersRetry
  /\ state' = [state EXCEPT !.phase = "analysing", !.error = Null]
  /\ reading' = [NotReading EXCEPT !.at = "resolve", !.file = state.file, !.refs = state.batchRefs]
  /\ UNCHANGED <<source, records, reads>>

Reset ==
  /\ state.phase = "done"
  /\ state' = initialPayslipState(state.readerAvailable)
  /\ UNCHANGED <<source, reading, records, reads>>

\* Mutant of ReadFails: the error is noted and the screen goes on waiting.
ReadFailsSilently == state' = [state EXCEPT !.error = "read"]

(***************************************************************************)
(* readDocumentFacts: the file is opened, then one call per batch          *)
(***************************************************************************)
ReadFails == state' = [state EXCEPT !.phase = "selected", !.error = "read"]

OpenFile ==
  /\ reading.at = "open"
  /\ \/ /\ reading' = [reading EXCEPT !.at = "batches", !.next = 1, !.plan = planDocumentBatches(source[reading.file])]
        /\ UNCHANGED state
     \/ reading' = NotReading /\ ReadFails                \* file_unreadable
  /\ UNCHANGED <<source, records, reads>>

\* Mutant of BatchFailed: a call that failed leaves no trace of its pages.
BatchFailedSilently(batch) == [reading EXCEPT !.next = @ + 1]

BatchFailed(batch) == [reading EXCEPT !.next = @ + 1, !.failed = @ \cup batch.pages]

\* The pages could not be prepared, no answer came, or it was an error: the network, the deadline, the model, the rate limit.
LoseBatch ==
  /\ reading.at = "batches" /\ reading.next \in DOMAIN Batches
  /\ reading' = BatchFailed(Batches[reading.next])
  /\ UNCHANGED <<source, state, records, reads>>

\* What the reader may answer for the entries of a call's pages: for each one answer, or none.
Responses(batch) ==
  LET printed == {e \in source[reading.file].prints : e.page \in batch.pages}
  IN  {UNION {c[e] : e \in printed} :
         c \in {d \in [printed -> UNION {AnswerOrNone(e) : e \in printed}] : \A e \in printed : d[e] \in AnswerOrNone(e)}}

\* The batch the server keeps of a response.
RecordOf(batch, answers) ==
  LET mapped == mapPayslipFactsResponse(answers, batch.pages)
  IN  [file |-> reading.file, kept |-> TRUE, pages |-> batch.pages, total |-> source[reading.file].pageCount,
       facts |-> mapped.facts, lines |-> mapped.lines, premiums |-> {}]

\* The route reads the batch and keeps it, unless the store is unavailable; its answer may still be lost.
ReadBatch ==
  /\ reading.at = "batches" /\ reading.next \in DOMAIN Batches
  /\ LET batch == Batches[reading.next]
         Answered(ref) == [reading EXCEPT !.next = @ + 1, !.read = @ + 1, !.refs = @ \cup ref]
     IN  /\ validateFactRead(source[reading.file], batch)
         /\ \/ /\ \E answers \in Responses(batch) : records' = Append(records, RecordOf(batch, answers))
               /\ reading' \in {Answered({Len(records) + 1}), BatchFailed(batch)}
            \/ /\ reading' = Answered({})
               /\ UNCHANGED records
  /\ UNCHANGED <<source, state, reads>>

\* References only when every batch that was read came with one.
EndRead ==
  /\ reading.at = "batches" /\ reading.next = Len(Batches) + 1
  /\ LET notProcessed == reading.plan.notProcessedPages \cup reading.failed
         refs == IF Cardinality(reading.refs) = reading.read THEN reading.refs ELSE {}
     IN  IF reading.read = 0
           THEN reading' = NotReading /\ ReadFails
           ELSE /\ state' = [state EXCEPT !.coverage = notProcessed, !.batchRefs = refs,
                                          !.phase = IF refs = {} THEN "selected" ELSE "analysing",
                                          !.error = IF refs = {} THEN "reference" ELSE Null]
                /\ reading' = IF refs = {} THEN NotReading ELSE [NotReading EXCEPT !.at = "resolve", !.file = reading.file, !.refs = refs]
  /\ UNCHANGED <<source, records, reads>>

(***************************************************************************)
(* analyse: the profile's document context, then the replay                *)
(***************************************************************************)
resolveProfile ==
  /\ reading.at = "resolve"
  /\ \/ /\ Kept(reading.refs) /\ consistentBatches(RecordsOf(reading.refs))
        /\ reading' = [reading EXCEPT !.at = "replay"]
        /\ UNCHANGED state
     \/ /\ state' = [state EXCEPT !.phase = "done", !.error = "facts"]
        /\ reading' = NotReading
  /\ UNCHANGED <<source, records, reads>>

\* The facts of the references and the context of the read, with what became of the replay.
Analysed(replay, problem) ==
  [state EXCEPT !.phase = "done", !.facts = buildDocumentKnowledge(DocumentOf(reading.refs)), !.contextRef = reading.refs, !.replay = replay, !.replayProblem = problem]

\* Mutant of comparisonState: the pages that were not read do not limit the comparison.
comparisonStateUnread(typed, complete, gaps, pagesNotRead) ==
  IF ~typed THEN "unavailable"
  ELSE IF ~complete \/ gaps THEN "limited" ELSE "substantiated"

\* comparisonState: what the comparison with Loonto's own computation may show.
comparisonState(typed, complete, gaps, pagesNotRead) ==
  IF ~typed THEN "unavailable"
  ELSE IF ~complete \/ gaps \/ pagesNotRead # {} THEN "limited" ELSE "substantiated"

replayAnswered ==
  /\ Kept(reading.refs)
  /\ LET doc == DocumentOf(reading.refs)
         unreadDeduction == \E l \in doc.lines : l.list = "deduction_lines" /\ l.numbers.amount = {}
     IN  \E computed, otherGaps \in BOOLEAN :
           state' = Analysed(comparisonState(PeriodTypeKnown(doc), computed /\ ~unreadDeduction,
                                             otherGaps \/ UnreadAmounts(doc) # {}, doc.missing), Null)

\* The references are gone (409), the rates cannot be loaded (503), or the call failed.
replayRefused ==
  \/ ~Kept(reading.refs) /\ state' = Analysed(Null, "document_expired")
  \/ state' \in {Analysed(Null, "tax_rates_unavailable"), Analysed(Null, "replay_failed")}

ReplayByRefs ==
  /\ reading.at = "replay"
  /\ replayAnswered \/ replayRefused
  /\ reading' = NotReading
  /\ UNCHANGED <<source, records, reads>>

\* The records of the session expire, or the user deletes them.
Forget ==
  /\ \E r \in DOMAIN records : records[r].kept
  /\ records' = [r \in DOMAIN records |-> [records[r] EXCEPT !.kept = FALSE]]
  /\ UNCHANGED <<source, state, reading, reads>>

System == OpenFile \/ LoseBatch \/ ReadBatch \/ EndRead \/ resolveProfile \/ ReplayByRefs

AnalysisNext ==
  \/ \E answer \in {"yes", "no"} : CheckReader(answer)
  \/ \E f \in Files : SelectFile(f)
  \/ RemoveFile \/ Read \/ retryAnalysis \/ Reset
  \/ System \/ Forget

\* A call always ends: the route's deadline and the platform's limit answer what the reader does not.
AnalysisSpec == AnalysisInit /\ [][AnalysisNext]_analysisVars /\ WF_analysisVars(System)

----------------------------------------------------------------------------
ResultsShown == state.phase = "done" /\ state.error = Null

\* Every call the browser plans passes the route's own checks but for three the plan does not know: a document of
\* more pages than the route counts, more lines than a call may carry, and more text than it may carry, which takes
\* one page alone, or pages that go as images because another has no text.  A page with little text always travels
\* as an image (document-batches.ts, pro-facts.controller.ts).
PlanAccepted ==
  \A i \in DOMAIN Batches :
    LET batch == Batches[i]  text == source[reading.file]
    IN  /\ \/ validateFactRead(text, batch)
           \/ TooLong(text) \/ TooManyLines(text, batch)
           \/ TooMuchText(text, batch) /\ (Cardinality(batch.pages) = 1 \/ ~TextMode(text))
        /\ \A p \in batch.pages : IsThin(text, p) => p \in batch.imagePages

\* A page of the document in the results was read by exactly one batch the server kept for this read, or the
\* results say that it was not read: none is lost, none is counted twice.
PageReadOrReported ==
  ResultsShown =>
    \A p \in PagesOf(source[state.file]) :
      Cardinality({r \in state.batchRefs : p \in records[r].pages}) = IF p \in state.coverage THEN 0 ELSE 1

\* A comparison with Loonto's computation is shown only for a document whose every page was read, whose pages name
\* one period type, and of whose lines none that was read is without its amount.
ComparedWhole ==
  ResultsShown /\ state.replay = "substantiated" =>
    LET batches == RecordsOf(state.batchRefs)
    IN  /\ UNION {b.pages : b \in batches} = PagesOf(source[state.file])
        /\ Cardinality({f.value : f \in {g \in UNION {b.facts : b \in batches} : g.field = "periodType" /\ g.status = "exact"}}) = 1
        /\ \A l \in UNION {b.lines : b \in batches} : "amount" \in DOMAIN l.numbers => l.numbers.amount # {}

Tenfold(v, w) == v # w /\ \E k \in {10, 100, 1000} : v = k * w \/ w = k * v


\* A total in the results is what every page that states it says, no base rate that was read is left out, and of
\* two rates neither is shown as the one.
FiguresAgree ==
  ResultsShown =>
    LET facts == UNION {b.facts : b \in RecordsOf(state.batchRefs)}
        shown == printedSummary(state.facts)
        Stated(field) == {f.value : f \in {g \in facts : g.field = field /\ g.status = "exact"}}
    IN  /\ \A total \in {<<shown.gross, "printedGrossTotal">>, <<shown.net, "printedNet">>, <<shown.payout, "printedPayout">>} :
             total[1] # {} => total[1] = Stated(total[2]) /\ Cardinality(total[1]) = 1
        /\ Stated("hourlyRate") \subseteq shown.rates
        /\ Cardinality(shown.rates) > 1 => \A k \in state.facts : k.key = "hourly_rate" => k.status = "conflict"

\* The screen always comes out of reading and analysing, whatever fails.
Settles == Busy(state) ~> ~Busy(state)

----------------------------------------------------------------------------
(* The inductive invariant behind the safety properties. *)

\* Pages of a text that were called for: each is failed, or of at most one of the records kept under these references.
Split(kept, text, pages, refs, failed) ==
  /\ refs \subseteq DOMAIN kept /\ failed \subseteq pages
  /\ \A r \in refs : /\ kept[r].total = text.pageCount
                      /\ kept[r].pages \subseteq pages \ failed
  /\ \A r, s \in refs : r # s => kept[r].pages \cap kept[s].pages = {}

\* ... and of one at least.
Whole(kept, pages, refs, failed) == \A p \in pages \ failed : \E r \in refs : p \in kept[r].pages

\* What the server keeps of a response: an exact fact has a value and a page number.
WellRead(kept) ==
  /\ DOMAIN kept = {"file", "kept", "pages", "total", "facts", "lines", "premiums"}
  /\ \A f \in kept.facts : /\ DOMAIN f = {"field", "value", "status", "reason", "raw", "page"}
                           /\ f.page \in Nat /\ (f.status = "exact" => f.value # NoValue)

RecordsInv == records \in Seq({records[r] : r \in DOMAIN records}) /\ \A r \in DOMAIN records : WellRead(records[r])

\* The adapter's loop and the screen's phase belong together.
PhaseInv ==
  /\ DOMAIN state = DOMAIN initialPayslipState("unknown") /\ DOMAIN reading = DOMAIN NotReading
  /\ reading.at \in {"idle", "open", "batches", "resolve", "replay"}
  /\ reading.at = "idle" => ~Busy(state)
  /\ reading.at \in {"open", "batches"} => state.phase = "reading"
  /\ reading.at = "open" => reading.read = 0 /\ reading.refs = {} /\ reading.failed = {}
  /\ reading.at \in {"resolve", "replay"} => state.phase = "analysing" /\ reading.refs = state.batchRefs
  /\ reading.at # "idle" => reading.file = state.file /\ state.file \in Files
  /\ state.file # Null => state.file \in Files
  /\ reading.at # "batches" => Batches = <<>>

\* The pages called for so far.
CalledFor(loop) == UNION {loop.plan.batches[i].pages : i \in 1..(loop.next - 1)}

\* While batches are read: when every one that was read came with a reference, the references account for all of them.
LoopInv ==
  reading.at = "batches" =>
    /\ reading.plan = planDocumentBatches(source[reading.file])
    /\ reading.next \in 1..(Len(Batches) + 1) /\ reading.read \in Nat
    /\ Split(records, source[reading.file], CalledFor(reading), reading.refs, reading.failed)
    /\ IsFiniteSet(reading.refs) /\ Cardinality(reading.refs) <= reading.read
    /\ Cardinality(reading.refs) = reading.read => Whole(records, CalledFor(reading), reading.refs, reading.failed)

\* From the analysis on, the references and the pages reported unread account for the document.
ScreenInv ==
  /\ state.phase \in {"analysing", "done"} =>
       LET text == source[state.file]
       IN  /\ state.file \in Files /\ state.batchRefs # {}
           /\ Split(records, text, PagesOf(text), state.batchRefs, state.coverage)
           /\ Whole(records, PagesOf(text), state.batchRefs, state.coverage)
  /\ ResultsShown => state.facts = buildDocumentKnowledge(DocumentOf(state.batchRefs))
  /\ ComparedWhole

AnalysisInv == source \in Sources /\ RecordsInv /\ PhaseInv /\ LoopInv /\ ScreenInv

============================================================================
