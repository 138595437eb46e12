------------------------- MODULE ProfileResolution -------------------------
(***************************************************************************)
(* POST /api/profile/resolve (profile.controller.ts) as the browser drives *)
(* it: one request after another, each with the whole set of documents read*)
(* so far and an as-of date.  The endpoint keeps nothing, so its state is  *)
(* the request; the properties say what the answer may be.                 *)
(*                                                                         *)
(* Readings is the set of documents the readers may have produced, with    *)
(* their contradictions marked as mergeContractBatches leaves them; a      *)
(* document appears once in a request (duplicateDocumentIds is a 400).     *)
(***************************************************************************)
EXTENDS ProfileDecisions, SequencesExt

CONSTANTS Readings,     \* the documents with their merged facts
          ResolveDates, \* the dates the user may ask about
          MaxDocuments  \* MAX_DOCUMENTS of the request schema

ASSUME ReadingsAssumption ==
  /\ \A d, e \in Readings : d.id = e.id => d = e
  /\ \A d \in Readings : /\ d.role \in {"contract_base", "contract_annex", "payslip"}
                         /\ d.id \in Nat /\ d.user \in Nat
                         /\ d.facts \subseteq [field : STRING, value : Nat, status : STRING]
                         /\ d.facts = markContradictions(d.facts)
                         /\ \A f, g \in d.facts : f.field = g.field /\ f.status = "contradiction" => g.status # "exact"
                         /\ \A l \in d.lines : l.value \in Int
ASSUME ResolveDatesAssumption == ResolveDates \subseteq Nat

VARIABLES given,   \* the documents of the last request
          onDate,  \* its as-of date
          answer   \* the documentary profile answered
resolutionVars == <<given, onDate, answer>>

NothingResolved == given = <<>> /\ onDate \in ResolveDates /\ answer = resolvePayrollProfile(<<>>, onDate)

Resolve(documents, date) ==
  /\ given' = documents
  /\ onDate' = date
  /\ answer' = resolvePayrollProfile(documents, date)

\* A request with one more document.
WithDocument(d) ==
  /\ Len(given) < MaxDocuments
  /\ \A i \in DOMAIN given : given[i].id # d.id
  /\ Resolve(Append(given, d), onDate)

\* The same documents on another date.
OnOtherDate(date) == date # onDate /\ Resolve(given, date)

NextResolution == (\E d \in Readings : WithDocument(d)) \/ (\E date \in ResolveDates : OnOtherDate(date))

Resolutions == NothingResolved /\ [][NextResolution]_resolutionVars

-----------------------------------------------------------------------------
(* What the answer may be *)

Rate == "hourlyRate"
rate == answer.fields[Rate]
side == contractSide(given)

\* The contracts whose statement of the rate holds on the as-of date under one
\* reading of the disputed annex dates: nothing in force says it later.
Holding(dates) ==
  LET saying == {i \in applicableContracts(side, dates, onDate) : distinctExactValues(side[i].facts, Rate) # {}}
  IN {i \in saying : \A j \in saying : dates[j] <= dates[i]}

\* A payslip whose period lies where those statements hold: not before them and
\* before the next annex that says anything of the rate.
WithinRegime(d, dates) ==
  LET from == singleExactValue(d.facts, "periodStart")
      to   == singleExactValue(d.facts, "periodEnd")
      next == {dates[j] : j \in {k \in DOMAIN side : dates[k] > onDate /\ occurrences(side[k].facts, Rate) # {}}}
  IN /\ isPayslip(d) /\ hasUsableDate(from) /\ hasUsableDate(to)
     /\ \A i \in Holding(dates) : dates[i] <= from /\ dates[i] <= to
     /\ \A n \in next : from < n /\ to < n

\* A rate the calculator may use is what the contract in force on that date
\* says, under every reading of the annex dates in dispute, with no newer
\* statement that could not be read, and no payslip of its period was paid at
\* another rate.
RateIsInForce ==
  rate.state \in Usable =>
    \A dates \in Variants(side) :
      /\ \A i \in Holding(dates) : distinctExactValues(side[i].facts, Rate) = {rate.value}
      /\ \A i \in Holding(dates), j \in applicableContracts(side, dates, onDate) :
           dates[j] > dates[i] => \A f \in occurrences(side[j].facts, Rate) : f.status \notin {"ambiguous", "implausible"}
      /\ \A k \in DOMAIN given : WithinRegime(given[k], dates) =>
           \A l \in LinesOf(given[k], {"regular"}) : l.issue = "none" /\ l.value > 0 => l.value = rate.value

\* No contract says a value twice, once clearly and once not.
ClearOrUnclear ==
  \A i \in DOMAIN side : \A f, g \in side[i].facts :
    f.field = g.field /\ f.status = "exact" => g.status \notin {"ambiguous", "implausible"}

\* Whatever order the files were added in, every field comes out with the same
\* state and value: no document wins by its place in the list.  Of more
\* disputed dates than are enumerated the first ones count, and of two contracts
\* of one date with the same value the first one stands for both, with or
\* without an unclear statement of its own: there the place does matter.
OrderIrrelevant ==
  LET other == resolvePayrollProfile(Reverse(given), onDate)
  IN Enumerated(side) = Disputed(side) /\ ClearOrUnclear =>
       \A f \in Fields : other.fields[f].state = answer.fields[f].state /\ other.fields[f].value = answer.fields[f].value

\* A payslip confirms a value or puts it in doubt: handing in one more never
\* replaces a value that may be used by another one.
PayslipNeverReplaces ==
  [][\A d \in Readings : isPayslip(d) /\ WithDocument(d) =>
       \A f \in Fields : answer.fields[f].state \in Usable /\ answer'.fields[f].state \in Usable
                         => answer'.fields[f].value = answer.fields[f].value]_resolutionVars

\* No evidence of the rate is dropped without a word.  What a payslip or an
\* annex without a date states exactly is named with its document, offered or
\* set aside with a reason; what a contract in force on that date states exactly
\* is among the values named (of contracts of one date that agree, the code
\* names one).
EvidenceAccounted ==
  LET named   == rate.candidates \cup {x.source : x \in rate.excluded}
      dates   == userVariant(side)
      stated(d) == distinctExactValues(d.facts, Rate)
  IN /\ \A i \in DOMAIN given : isPayslip(given[i]) \/ i \in undatedAnnexes(side, dates) =>
          \A v \in stated(given[i]) : \E e \in named : e.doc = given[i].id /\ e.value = v
     /\ \A i \in applicableContracts(side, dates, onDate) : \A v \in stated(side[i]) : \E e \in named : e.value = v

-----------------------------------------------------------------------------
(* The inductive invariant: the answer is always that of the last request. *)

ResolutionInv ==
  /\ given \in Seq(Readings) /\ \A i, j \in DOMAIN given : given[i].id = given[j].id => i = j
  /\ onDate \in ResolveDates /\ answer = resolvePayrollProfile(given, onDate)
=============================================================================
