-------------------------- MODULE DocumentBatches --------------------------
(***************************************************************************)
(* How one document is split into reader calls (document-batches.ts), and  *)
(* what the reader route accepts as one call (pro-facts.controller.ts).    *)
(*                                                                         *)
(* A source is what local-ocr.ts says of a file: pageCount, `chars', the   *)
(* length of the embedded text of each page (0 for a scanned page or a     *)
(* photo), and `lines', the lines that text comes in.  A page has text     *)
(* items, and lines, exactly when it has text; the plan does not look at   *)
(* the lines.                                                              *)
(***************************************************************************)
EXTENDS Naturals, FiniteSets, Sequences, SequencesExt, FiniteSetsExt

CONSTANTS
  MaxPages,      \* MAX_PAGES_PER_DOCUMENT
  ImagePages,    \* IMAGE_PAGES_PER_BATCH, and MAX_IMAGES_PER_CALL of the route
  TextPages,     \* TEXT_PAGES_PER_BATCH, and MAX_PAGES_PER_CALL of the route
  ThinChars,     \* THIN_PAGE_CHARS
  MaxText,       \* MAX_TEXT_CHARS_PER_BATCH
  TextLimit,     \* MAX_TEXT_CHARS_PER_CALL of the route
  LineLimit,     \* MAX_TEXT_LINES_PER_CALL of the route
  PageLimit      \* the highest pageNumber of the route, totalPages included

ASSUME LimitsAssumption == /\ {MaxPages, ImagePages, TextPages, ThinChars, MaxText, TextLimit, LineLimit, PageLimit}
                                \subseteq Nat \ {0}
                           /\ ImagePages <= TextPages /\ MaxText <= TextLimit

PagesOf(source) == 1..source.pageCount
Readable(source) == {p \in PagesOf(source) : p <= MaxPages}
TextMode(source) == Readable(source) # {} /\ \A p \in Readable(source) : source.chars[p] > 0
IsThin(source, p) == source.chars[p] < ThinChars
CharsOf(source, pages) == MapThenSumSet(LAMBDA p : source.chars[p], pages)

\* One reader call: a short one carries every page as an image, a longer one its thin pages.
Batch(source, pages) ==
  [pages |-> pages,
   imagePages |-> IF Cardinality(pages) <= ImagePages THEN pages ELSE {p \in pages : IsThin(source, p)}]

\* Mutant of Full: the thin pages of a batch are counted without the page that joins it.
FullThinUncounted(source, current, p) ==
  \/ Cardinality(current) >= TextPages
  \/ CharsOf(source, current \cup {p}) > MaxText
  \/ /\ Cardinality(current) >= ImagePages
     /\ Cardinality({q \in current : IsThin(source, q)}) > ImagePages

\* Page p starts a new batch of the text plan.
Full(source, current, p) ==
  \/ Cardinality(current) >= TextPages
  \/ CharsOf(source, current \cup {p}) > MaxText
  \/ /\ Cardinality(current) >= ImagePages
     /\ Cardinality({q \in current \cup {p} : IsThin(source, q)}) > ImagePages

\* A page joins the batch that is being filled, or closes it and starts the next.
Place(source, plan, p) ==
  IF plan.current # {} /\ Full(source, plan.current, p)
    THEN [closed |-> Append(plan.closed, plan.current), current |-> {p}]
    ELSE [closed |-> plan.closed, current |-> plan.current \cup {p}]

TextPlan(source) ==
  FoldLeft(LAMBDA plan, p : Place(source, plan, p), [closed |-> <<>>, current |-> {}], [p \in Readable(source) |-> p])

TextBatches(source) ==
  LET runs == Append(TextPlan(source).closed, TextPlan(source).current)
  IN  [i \in DOMAIN runs |-> Batch(source, runs[i])]

ImageBatches(source) ==
  LET pages == Readable(source)
      count == (Cardinality(pages) + ImagePages - 1) \div ImagePages
      Chunk(i) == {p \in pages : (p - 1) \div ImagePages = i - 1}
  IN  [i \in 1..count |-> [pages |-> Chunk(i), imagePages |-> Chunk(i)]]

planDocumentBatches(source) ==
  [batches |-> IF TextMode(source) THEN TextBatches(source) ELSE ImageBatches(source),
   notProcessedPages |-> PagesOf(source) \ Readable(source)]

(***************************************************************************)
(* What the route reads (its schema, then the structural checks).          *)
(***************************************************************************)
\* More text than one call may carry; the pages without any send none.
TooMuchText(source, batch) == CharsOf(source, {p \in batch.pages : source.chars[p] > 0}) > TextLimit

\* More lines than one call may carry, however short they are.
TooManyLines(source, batch) == MapThenSumSet(LAMBDA p : source.lines[p], batch.pages) > LineLimit

\* A document of more pages than a call may name: every one of its calls names them.
TooLong(source) == source.pageCount > PageLimit

validateFactRead(source, batch) ==
  /\ ~TooLong(source)
  /\ Cardinality(batch.pages) \in 1..TextPages
  /\ Cardinality(batch.imagePages) <= ImagePages
  /\ batch.pages \subseteq PagesOf(source) /\ batch.imagePages \subseteq batch.pages
  /\ batch.imagePages # {} \/ \E p \in batch.pages : source.chars[p] > 0
  /\ ~TooManyLines(source, batch) /\ ~TooMuchText(source, batch)

============================================================================
