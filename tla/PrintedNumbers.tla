--------------------------- MODULE PrintedNumbers ---------------------------
(***************************************************************************)
(* What a printed number may mean (apps/backend-node/src/ocr-service/      *)
(* number-parser.ts), and which numbers a printed fragment supports        *)
(* (fact-extraction.ts).                                                   *)
(*                                                                         *)
(* A token is a run of digits and marks without a blank:                   *)
(*   whole, width        the digits before the decimal mark: their value   *)
(*                       and how many there are                            *)
(*   grouped             dots stand between groups of them ("1.234,56")    *)
(*   mark                "comma", "dot" or "none"                          *)
(*   fraction, decimals  the digits after the mark                         *)
(*   minus               the ends that carry a minus sign                  *)
(* A fragment is [tokens, plus, personal]: its tokens in order, whether it *)
(* prints a plus sign, and whether it matches a personal-data pattern.     *)
(* Values are in hundredths.  Currency signs and words are left out.       *)
(***************************************************************************)
EXTENDS Integers, Sequences, SequencesExt

Hundredths(t) == 100 * t.whole + (IF t.decimals = 1 THEN 10 * t.fraction ELSE t.fraction)
Signed(t, value) == IF t.minus = {} THEN value ELSE -value
Unsigned(value) == IF value < 0 THEN -value ELSE value

\* The number a token is, as a set of at most one: the comma is the decimal mark, and a dot without a comma is ambiguous.
parsePrintedNumber(t) ==
  LET readable == /\ Cardinality(t.minus) < 2 /\ t.width > 0
                  /\ \/ t.mark = "comma" /\ t.decimals \in 1..2
                     \/ t.mark = "none" /\ ~t.grouped
  IN  {v \in {Signed(t, Hundredths(t))} : readable}

\* One or two digits after a dot can only be decimals: a thousands group has three.
dotDecimal(t) ==
  {v \in {Hundredths(t)} :
     "trailing" \notin t.minus /\ ~t.grouped /\ t.width \in 1..6 /\ t.mark = "dot" /\ t.decimals \in 1..2}

\* "1" and "234,56" may be one number whose groups a blank separates.
looksLikeSplitThousandsPair(a, b) ==
  /\ a.minus = {} /\ b.minus = {} /\ ~a.grouped /\ ~b.grouped
  /\ a.mark = "none" /\ a.width \in 1..3
  /\ b.mark = "comma" /\ b.width = 3 /\ b.decimals = 2

Joined(a, b) == [b EXCEPT !.whole = 1000 * a.whole + @, !.width = a.width + @]

TokenNumber(t) == IF parsePrintedNumber(t) # {} THEN parsePrintedNumber(t) ELSE dotDecimal(t)
AsSequence(values) == SetToSeq({Unsigned(v) : v \in values})

\* Every number printed in a fragment, token by token, and the pairs that may be one.
numbersInRaw(raw) ==
  LET n == Len(raw.tokens)
      single(i) == AsSequence(TokenNumber(raw.tokens[i]))
      pair(i) == IF looksLikeSplitThousandsPair(raw.tokens[i], raw.tokens[i + 1])
                   THEN AsSequence(parsePrintedNumber(Joined(raw.tokens[i], raw.tokens[i + 1]))) ELSE <<>>
  IN  FlattenSeq([i \in 1..n |-> single(i)]) \o FlattenSeq([i \in 1..(n - 1) |-> pair(i)])

\* A value is supported by the fragment cited for it; a fragment that is missing or prints no number supports any.
rawSupportsNumber(evidence, value) ==
  \A raw \in evidence :
    LET numbers == numbersInRaw(raw)
    IN  \/ numbers = <<>>
        \/ Unsigned(value) \in Range(numbers)
        \/ raw.plus /\ Len(numbers) > 1 /\ FoldLeft(LAMBDA a, b : a + b, 0, numbers) = Unsigned(value)
=============================================================================
