--------------------------- MODULE DocumentFacts ---------------------------
(***************************************************************************)
(* The document facts of apps/backend-node/src/payroll-engine/             *)
(* document-facts.ts: what the reader found on the pages of one document,  *)
(* merged deterministically over the page batches it was read in.          *)
(*                                                                         *)
(* Abstractions.  A value is a positive integer (a sum in cents, a rate, a *)
(* percentage, the code of a word) and 0 is the absence of one, so two     *)
(* values are equal exactly when the code's valuesEqual says so.  A date is*)
(* a day number, 0 when it was not printed or not filled in.  Pages,       *)
(* printed labels and raw text, which only describe where a fact was read, *)
(* are left out; the page NUMBERS of a batch are kept for the coverage.    *)
(***************************************************************************)
EXTENDS Integers, Sequences, FiniteSets

NoValue == 0
NoDate == 0

\* What one reader call returned for the pages it read.
Batch(pages, total, facts, lines, premiums) ==
  [pages |-> pages, total |-> total, facts |-> facts, lines |-> lines, premiums |-> premiums]

occurrences(facts, field) == {f \in facts : f.field = field}

distinctExactValues(facts, field) ==
  {f.value : f \in {g \in occurrences(facts, field) : g.status = "exact" /\ g.value # NoValue}}

\* More than one distinct value.
Several(values) == \E v, w \in values : v # w

singleExactValue(facts, field) ==
  LET stated == distinctExactValues(facts, field)
  IN IF stated # {} /\ ~Several(stated) THEN CHOOSE v \in stated : TRUE ELSE NoValue

\* Mutant of markContradictions: what a document says twice stays as it was read.
markContradictionsNone(facts) == facts

\* A scalar stated with two exact values by one document: every occurrence
\* stays, none of them can be taken as the value.  Employer names are a list of
\* the document, not a scalar.
markContradictions(facts) ==
  {IF f.field # "employer" /\ f.status = "exact" /\ Several(distinctExactValues(facts, f.field))
   THEN [f EXCEPT !.status = "contradiction"] ELSE f : f \in facts}

\* The pages of the document that no batch read.
notProcessedPages(batches) ==
  LET totals == {b.total : b \in batches}
      last   == CHOOSE t \in totals \cup {0} : \A u \in totals : u <= t
  IN (1..last) \ UNION {b.pages : b \in batches}

\* mergePayslipBatches and mergeContractBatches.
mergeBatches(batches) ==
  [facts    |-> markContradictions(UNION {b.facts : b \in batches}),
   lines    |-> UNION {b.lines : b \in batches},
   premiums |-> UNION {b.premiums : b \in batches},
   missing  |-> notProcessedPages(batches)]
=============================================================================
