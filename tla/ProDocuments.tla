--------------------------- MODULE ProDocuments ---------------------------
(***************************************************************************)
(* The PRO documents page of apps/frontend-react/src/ProDocuments.tsx with *)
(* pro-documents-policy.ts, pro-profile-prefill.ts and                     *)
(* pro-profile-questions.ts: the list of files, the submission that reads  *)
(* them all and asks the backend for the profile, the as-of date, the      *)
(* questions about fields the documents leave open, and the calculator     *)
(* that takes its first values from the profile.                           *)
(*                                                                         *)
(* Every await of the page is a request in `requests' (a call to           *)
(* /api/profile/resolve) or the reading of the files in `reading'; the     *)
(* answer may come whenever it likes, or fail.  profileRequestId is the    *)
(* flag `latest' of the requests: a new request takes it from the others.  *)
(* The backend is the pure function of PayrollProfile and ProfileDecisions.*)
(*                                                                         *)
(* The legacy replay card of a payslip (?diag=1, confirm and correct) is   *)
(* not here: it changes no profile parameter.                              *)
(***************************************************************************)
EXTENDS ProfileDecisions, SequencesExt

CONSTANTS
  Uploads,      \* the files, in the order the user picks them
  Read,         \* [file -> [kind -> facts]]: what the reader finds on a file read as that kind
  Types,        \* [file -> the document types the user may give it]
  AnnexDates,   \* the dates the user may type for an annex
  AsOfDates,    \* complete as-of dates; NoDate is a cleared or half-typed one
  Today,        \* todayIso()
  Entered,      \* the values the user may type into a question
  MaxMoves,     \* how often the user asks for the profile: submissions, new dates, Apply and Undo
  MaxChoices    \* how many questions hold a choice at once

VARIABLES
  docs, added, submitting, hasSubmitted, reading,
  asOfDate, resolvedDocuments, resolvingProfile, requests,
  shown, pending, problems, applying, decisions,
  calculator, moves

listVars   == <<docs, added>>
submitVars == <<submitting, hasSubmitted, reading, resolvedDocuments>>
choiceVars == <<pending, problems>>
vars == <<docs, added, submitting, hasSubmitted, reading, asOfDate, resolvedDocuments, resolvingProfile, requests,
          shown, pending, problems, applying, decisions, calculator, moves>>

Role == {"payslip", "contract_base", "contract_annex"}
routeForDocument(type) == IF type = "payslip" THEN "payslip" ELSE "contract"
NoProfile == <<>>

-----------------------------------------------------------------------------
(* pro-documents-policy.ts *)

addDocument(list, file) == Append(list, [id |-> file, type |-> "payslip", date |-> NoDate, status |-> "pending", facts |-> <<>>])
removeDocument(list, id) == SelectSeq(list, LAMBDA e : e.id # id)
setDocumentType(list, id, type) ==
  [i \in DOMAIN list |-> IF list[i].id # id THEN list[i]
                         ELSE [list[i] EXCEPT !.type = type, !.date = IF type = "contract_annex" THEN @ ELSE NoDate]]
setEffectiveDate(list, id, date) ==
  [i \in DOMAIN list |-> IF list[i].id = id THEN [list[i] EXCEPT !.date = date] ELSE list[i]]
isReadyToSubmit(list) == list # <<>> /\ \A i \in DOMAIN list : list[i].type = "contract_annex" => list[i].date # NoDate

\* The documents of a resolve request: every file that was read.
profileDocument(entry) ==
  [id |-> entry.id, role |-> entry.type, user |-> IF entry.type = "contract_annex" THEN entry.date ELSE NoDate,
   facts |-> entry.facts[1].facts, lines |-> entry.facts[1].lines, premiums |-> entry.facts[1].premiums]
profileDocuments(processed) ==
  LET read == SelectSeq(processed, LAMBDA e : e.status = "done" /\ e.facts # <<>>)
  IN [i \in DOMAIN read |-> profileDocument(read[i])]

-----------------------------------------------------------------------------
(* pro-profile-questions.ts *)

visibleIssues(outcome) == {i \in outcome.issues : i.severity \in {"blocking", "optional"}}
OpenPaths(outcome) == {i.path : i \in visibleIssues(outcome)}

NoChoices == [p \in {} |-> [kind |-> "skip", value |-> NoValue]]
withChoice(map, path, choice) == [p \in DOMAIN map \cup {path} |-> IF p = path THEN choice ELSE map[p]]
withoutField(set, path) == set \ {path}

\* A stale decision as a suggestion.
suggestionFor(issue) ==
  LET previous == issue.previous[1]
  IN [kind  |-> IF previous.kind = "confirm_candidate" /\ previous.value \in {c.value : c \in issue.candidates}
                THEN "candidate" ELSE "manual",
      value |-> previous.value]

\* buildPendingDecisions: a choice that no longer fits its issue is left out.
buildPendingDecisions(visible, choices) ==
  LET ofIssue(i) == choices[i.path]
      valid == {i \in visible : i.path \in DOMAIN choices /\
                  \/ ofIssue(i).kind = "candidate" /\ ofIssue(i).value \in {c.value : c \in i.candidates}
                  \/ ofIssue(i).kind = "manual"}
  IN {Decision(IF ofIssue(i).kind = "candidate" THEN "confirm_candidate" ELSE "correct_value",
               i.path, ofIssue(i).value, i.fingerprint) : i \in valid}

\* What a filter of a list leaves: the elements at these positions, in their order.
filtered(list, kept) ==
  LET rank(i) == Cardinality({j \in kept : j <= i})
  IN [n \in {rank(i) : i \in kept} |-> list[CHOOSE i \in kept : rank(i) = n]]

mergeDecisionSet(current, new) ==
  filtered(current, {i \in DOMAIN current : current[i].path \notin {n.path : n \in new}}) \o SetToSeq(new)
removeDecision(current, path) == filtered(current, {i \in DOMAIN current : current[i].path # path})

\* Mutant of settleDecisions: what could not be applied is forgotten.
settleDecisionsApplied(sent, results) == filtered(sent, {i \in DOMAIN sent : results[i].status = "applied"})

\* settleDecisions: only what the backend rejected leaves the set.
settleDecisions(sent, results) == filtered(sent, {i \in DOMAIN sent : results[i].status # "rejected"})
rejectedPaths(sent, results) == {sent[i].path : i \in {j \in DOMAIN sent : results[j].status = "rejected"}}

settlePending(choices, sent, rejected, open) ==
  LET kept == {p \in DOMAIN choices : p \in open /\ ~(p \in {sent[i].path : i \in DOMAIN sent} /\ p \notin rejected)}
  IN [p \in kept |-> choices[p]]

resolvedByYou(outcome) ==
  {p \in Paths(outcome.profile) : findProfileField(outcome.profile, p).state \in {"user_confirmed", "user_corrected"}}

-----------------------------------------------------------------------------
(* The backend and the calculator's first values *)

resolvedProfile(date, overlaid, sent) ==
  [asOf |-> date, profile |-> overlaid.profile, results |-> overlaid.results,
   issues |-> buildProfileIssues(overlaid.profile, DefaultActiveGroups, sent, overlaid.results)]

Prefilled == {"hourlyRate", "threshold", "tier1", "tier2"}
NoPrefill == [f \in {} |-> NoValue]
profilePrefill(profile) ==
  [f \in {g \in Prefilled : profile.fields[g].state \in Usable} |-> profile.fields[f].value]
contractPrefill(outcome) == IF outcome = NoProfile THEN NoPrefill ELSE profilePrefill(outcome[1].profile)

\* Mutant of Rendered: the key of the calculator is never bumped.
RenderedOnce(bump) ==
  calculator' = IF ~hasSubmitted' \/ resolvingProfile' THEN <<>>
                ELSE IF calculator = <<>> THEN <<contractPrefill(shown')>> ELSE calculator

\* What React renders after the state changes of an action: the calculator is
\* mounted once something was submitted and no date is being resolved, and it
\* reads its prefill only when it is mounted anew (bump: a new key).
Rendered(bump) ==
  calculator' = IF ~hasSubmitted' \/ resolvingProfile' THEN <<>>
                ELSE IF calculator = <<>> \/ bump THEN <<contractPrefill(shown')>> ELSE calculator

-----------------------------------------------------------------------------
(* The list of files: it may change while nothing is submitted; adding is   *)
(* never disabled                                                           *)

handleFilesAdded(n) ==
  /\ added + n <= Len(Uploads)
  /\ docs' = FoldLeft(addDocument, docs, SubSeq(Uploads, added + 1, added + n))
  /\ added' = added + n
  /\ UNCHANGED <<submitVars, asOfDate, resolvingProfile, requests, shown, choiceVars, applying, decisions, calculator, moves>>

EditList(list) ==
  /\ ~submitting
  /\ docs' = list
  /\ UNCHANGED <<added, submitVars, asOfDate, resolvingProfile, requests, shown, choiceVars, applying, decisions, calculator, moves>>

RemoveFile(i) == EditList(removeDocument(docs, docs[i].id))
TypeFile(i, type) == type \in Types[docs[i].id] \ {docs[i].type} /\ EditList(setDocumentType(docs, docs[i].id, type))
DateFile(i, date) == docs[i].type = "contract_annex" /\ date # docs[i].date /\ EditList(setEffectiveDate(docs, docs[i].id, date))

-----------------------------------------------------------------------------
(* Requests to the backend *)

\* Mutant of Superseded: no request is ever outdated.
SupersededNever == requests

Superseded == {[r EXCEPT !.latest = FALSE] : r \in requests}

\* resolveWithDecisions: the newest request takes over from the others.  The
\* backend keeps nothing, so what it answers is fixed when it is asked.
Ask(kind, date, documents, decisionSet) ==
  \E sent \in {decisionSet}, documentary \in {resolvePayrollProfile(documents, date)} :
    \E overlaid \in {applyUserDecisions(documentary, sent)} :
      \E outcome \in {resolvedProfile(date, overlaid, sent)} :
        requests' = Superseded \cup {[kind |-> kind, sent |-> sent, outcome |-> outcome, latest |-> TRUE]}

\* applyOutcome
Lands(r) ==
  LET rejected == rejectedPaths(r.sent, r.outcome.results)
  IN /\ decisions' = settleDecisions(r.sent, r.outcome.results)
     /\ shown' = <<r.outcome>>
     /\ problems' = rejected
     /\ pending' = settlePending(pending, r.sent, rejected, OpenPaths(r.outcome))
LandsNot == UNCHANGED <<decisions, shown, choiceVars>>

-----------------------------------------------------------------------------
(* submitAll *)

submitAll ==
  /\ ~submitting /\ docs # <<>> /\ moves < MaxMoves
  /\ isReadyToSubmit(docs)
  /\ moves' = moves + 1
  /\ submitting' = TRUE
  /\ shown' = NoProfile
  /\ docs' = [i \in DOMAIN docs |-> [docs[i] EXCEPT !.status = "processing"]]
  /\ reading' = <<docs>>
  /\ UNCHANGED <<added, hasSubmitted, resolvedDocuments, asOfDate, resolvingProfile, requests, choiceVars, applying, decisions,
                 calculator>>

\* Every file read, the failed ones marked.  A failed entry keeps the facts of
\* an earlier reading; its status keeps them out of the request.
processedDocs(snapshot, failed) ==
  [i \in DOMAIN snapshot |->
     IF i \in failed THEN [snapshot[i] EXCEPT !.status = "error"]
     ELSE [snapshot[i] EXCEPT !.status = "done", !.facts = <<Read[snapshot[i].id][routeForDocument(snapshot[i].type)]>>]]

\* All files are read or have failed: the list read at submission is written
\* back and the profile is asked for.
ReadingDone(failed) ==
  /\ reading # <<>>
  /\ docs' = processedDocs(reading[1], failed)
  /\ \E documents \in {profileDocuments(processedDocs(reading[1], failed))} :
       resolvedDocuments' = <<documents>> /\ Ask("submit", asOfDate, documents, decisions)
  /\ reading' = <<>>
  /\ UNCHANGED <<added, submitting, hasSubmitted, asOfDate, resolvingProfile, shown, choiceVars, applying, decisions,
                 calculator, moves>>

SubmitAnswered(r, ok) ==
  /\ r.kind = "submit"
  /\ requests' = requests \ {r}
  /\ IF r.latest /\ ok THEN Lands(r) ELSE LandsNot
  /\ submitting' = FALSE
  /\ hasSubmitted' = TRUE
  /\ UNCHANGED <<listVars, reading, resolvedDocuments, asOfDate, resolvingProfile, applying, moves>>
  /\ Rendered(TRUE)

-----------------------------------------------------------------------------
(* changeAsOfDate *)

\* Nothing read yet: the next submission uses the new date.
ChangeDateEarly(date) ==
  /\ ~submitting /\ docs # <<>> /\ date # asOfDate /\ moves < MaxMoves
  /\ resolvedDocuments = <<>>
  /\ asOfDate' = date
  /\ moves' = moves + 1
  /\ UNCHANGED <<listVars, submitVars, resolvingProfile, requests, shown, choiceVars, applying, decisions, calculator>>

ChangeDate(date) ==
  /\ ~submitting /\ docs # <<>> /\ date # asOfDate /\ moves < MaxMoves
  /\ resolvedDocuments # <<>>
  /\ asOfDate' = date
  /\ moves' = moves + 1
  /\ shown' = NoProfile
  /\ resolvingProfile' = (date # NoDate)
  /\ IF date = NoDate THEN requests' = Superseded ELSE Ask("date", date, resolvedDocuments[1], decisions)
  /\ UNCHANGED <<listVars, submitVars, choiceVars, applying, decisions>>
  /\ Rendered(TRUE)

\* A superseded answer is dropped before the spinner is cleared.
DateAnswered(r, ok) ==
  /\ r.kind = "date"
  /\ requests' = requests \ {r}
  /\ IF r.latest /\ ok THEN Lands(r) ELSE LandsNot
  /\ resolvingProfile' = IF r.latest THEN FALSE ELSE resolvingProfile
  /\ UNCHANGED <<listVars, submitVars, asOfDate, applying, moves>>
  /\ Rendered(r.latest /\ ok)

-----------------------------------------------------------------------------
(* The questions: shown with a profile, busy while anything is resolved *)

Asked == shown # NoProfile
Busy == applying \/ resolvingProfile \/ submitting

touchField(path, choice) ==
  /\ Cardinality(DOMAIN pending \cup {path}) <= MaxChoices
  /\ pending' = withChoice(pending, path, choice)
  /\ problems' = withoutField(problems, path)
  /\ UNCHANGED <<listVars, submitVars, asOfDate, resolvingProfile, requests, shown, applying, decisions, calculator, moves>>

chooseCandidate(i, c) == touchField(i.path, [kind |-> "candidate", value |-> c.value])
enterManual(i, v) == touchField(i.path, [kind |-> "manual", value |-> v])
skipIssue(i) == "leave_unresolved" \in i.actions /\ touchField(i.path, [kind |-> "skip", value |-> NoValue])
acceptSuggestion(i) == i.previous # <<>> /\ i.path \notin DOMAIN pending /\ touchField(i.path, suggestionFor(i))

resolveDecisionSet(sent) ==
  /\ ~Busy /\ moves < MaxMoves
  /\ applying' = TRUE
  /\ moves' = moves + 1
  /\ Ask("decide", shown[1].asOf, resolvedDocuments[1], sent)
  /\ UNCHANGED <<listVars, submitVars, asOfDate, resolvingProfile, shown, choiceVars, decisions, calculator>>

applyPendingDecisions ==
  LET new == buildPendingDecisions(visibleIssues(shown[1]), pending)
  IN new # {} /\ resolveDecisionSet(mergeDecisionSet(decisions, new))
undoUserDecision(path) == resolveDecisionSet(removeDecision(decisions, path))

\* Mutant of DecideAnswered: a superseded answer is dropped before the button is freed.
DecideAnsweredDropped(r, ok) ==
  /\ r.kind = "decide"
  /\ requests' = requests \ {r}
  /\ applying' = (applying /\ ~r.latest)
  /\ IF r.latest /\ ok THEN Lands(r) ELSE LandsNot
  /\ UNCHANGED <<listVars, submitVars, asOfDate, resolvingProfile, moves>>
  /\ Rendered(r.latest /\ ok)

\* The answer to Apply or Undo: the button is freed first, whichever it is.
DecideAnswered(r, ok) ==
  /\ r.kind = "decide"
  /\ requests' = requests \ {r}
  /\ applying' = FALSE
  /\ IF r.latest /\ ok THEN Lands(r) ELSE LandsNot
  /\ UNCHANGED <<listVars, submitVars, asOfDate, resolvingProfile, moves>>
  /\ Rendered(r.latest /\ ok)

-----------------------------------------------------------------------------

Init ==
  /\ docs = <<>> /\ added = 0
  /\ submitting = FALSE /\ hasSubmitted = FALSE /\ reading = <<>> /\ resolvedDocuments = <<>>
  /\ asOfDate = Today /\ resolvingProfile = FALSE /\ requests = {}
  /\ shown = NoProfile /\ pending = NoChoices /\ problems = {} /\ applying = FALSE /\ decisions = <<>>
  /\ calculator = <<>> /\ moves = 0

EditFiles ==
  \/ \E n \in 1..Len(Uploads) : handleFilesAdded(n)
  \/ \E i \in DOMAIN docs : RemoveFile(i) \/ (\E type \in Role : TypeFile(i, type)) \/ (\E date \in AnnexDates \cup {NoDate} : DateFile(i, date))

ChangeDates == \E date \in AsOfDates \cup {NoDate} : ChangeDateEarly(date) \/ ChangeDate(date)

AnswerQuestions ==
  /\ Asked
  /\ \/ \E i \in visibleIssues(shown[1]) :
          \/ \E c \in i.candidates : chooseCandidate(i, c)
          \/ \E v \in Entered : enterManual(i, v)
          \/ skipIssue(i)
          \/ acceptSuggestion(i)
     \/ applyPendingDecisions
     \/ \E p \in resolvedByYou(shown[1]) : undoUserDecision(p)

Answered == \E r \in requests, ok \in BOOLEAN : SubmitAnswered(r, ok) \/ DateAnswered(r, ok) \/ DecideAnswered(r, ok)
Reads == \E failed \in SUBSET (IF reading = <<>> THEN {} ELSE DOMAIN reading[1]) : ReadingDone(failed)

Next == EditFiles \/ ChangeDates \/ submitAll \/ AnswerQuestions \/ Reads \/ Answered

\* Only the reader and the backend owe an answer (a fetch ends, with a reply or
\* an error); the user may leave the page as it is.  Reads is the only action
\* that ends a reading, Answered the only one that ends a request.
ReadingEnds == reading # <<>> /\ reading' = <<>>
RequestEnds == \E r \in requests : requests' = requests \ {r}
Fairness == WF_reading(ReadingEnds) /\ WF_requests(RequestEnds)
Spec == Init /\ [][Next]_vars /\ Fairness

-----------------------------------------------------------------------------
(* Properties *)

\* The profile on the page is the one of the as-of date on the page, whichever
\* answers arrive late.
ShownForDate == shown # NoProfile => shown[1].asOf = asOfDate

\* A decision of the user is only in force on the evidence it was made on: the
\* field still offers exactly the candidates and the regime the user saw.
OnSeenEvidence(outcome) ==
  \A p \in resolvedByYou(outcome) :
    LET field == findProfileField(outcome.profile, p)
        seen  == field.resolution[1].decision.fingerprint
    IN seen.candidates = field.candidates /\ seen.regime = field.regime /\ seen.path = p
DecisionOnSeenEvidence == shown # NoProfile => OnSeenEvidence(shown[1])

\* A decision leaves the set only when the user undoes or replaces it, or the
\* backend rejects it: never because of a new date or because the documents
\* were read again, and never because two answers crossed.
DecisionsSurvive ==
  [][\A i \in DOMAIN decisions :
       \/ \E j \in DOMAIN decisions' : decisions'[j].path = decisions[i].path
       \/ decisions[i].path \in problems'
       \/ \E r \in requests \ requests' : r.kind = "decide" /\ \A k \in DOMAIN r.sent : r.sent[k].path # decisions[i].path]_vars

\* Outside a submission the calculator on the page was seeded with the profile
\* on the page: none of its first values is of another date, another decision
\* set or other documents.
CalculatorFollows == ~submitting /\ calculator # <<>> => calculator[1] = contractPrefill(shown)

\* A submission and an Apply always come to an end.
Settles == (submitting \/ applying) ~> (~submitting /\ ~applying)

-----------------------------------------------------------------------------
(* The inductive invariant behind the safety properties. *)

\* A request is a record, its decisions are a list, and its answer applies a decision only on the evidence
\* it was made on.
RequestType ==
  \A r \in requests :
    /\ r = [kind |-> r.kind, sent |-> r.sent, outcome |-> r.outcome, latest |-> r.latest]
    /\ r.latest \in BOOLEAN /\ DOMAIN r.sent \subseteq Nat /\ OnSeenEvidence(r.outcome)

\* The one request whose answer will land asks for the date on the page and, unless it changes the decisions,
\* sends all of them.
LatestRequest ==
  /\ \A r, s \in requests : r.latest /\ s.latest => r = s
  /\ \A r \in requests : r.latest => r.outcome.asOf = asOfDate
  /\ \A r \in requests : r.latest /\ r.kind # "decide" => r.sent = decisions

\* Before the first files are read nothing was asked and nothing is shown.
NothingBeforeReading == resolvedDocuments = <<>> => requests = {} /\ shown = NoProfile

IInv == /\ RequestType /\ LatestRequest /\ NothingBeforeReading /\ DOMAIN decisions \subseteq Nat
        /\ ShownForDate /\ DecisionOnSeenEvidence /\ CalculatorFollows

=============================================================================
