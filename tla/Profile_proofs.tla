--------------------------- MODULE Profile_proofs ---------------------------
(***************************************************************************)
(* Proofs about the payroll profile.  First the resolver itself, as        *)
(* ProfileResolution drives it: for every sequence of requests, whatever   *)
(* the documents say and in whatever order they are listed.  Then the page *)
(* that asks it, ProDocuments: for every list of files, whatever the       *)
(* reader finds in them, and every order of the answers.                   *)
(***************************************************************************)
EXTENDS ProDocuments, ProfileResolution, FiniteSetTheorems, WellFoundedInduction, SequenceTheorems, TLAPS

-----------------------------------------------------------------------------
(* The resolver. *)

\* Of numbers there is a first one.
LEMMA NatMin ==
  ASSUME NEW T \in SUBSET Nat, NEW x \in T
  PROVE  \E m \in T : \A y \in T : m <= y
<1>1. PICK R : R = OpToRel(<, Nat)
  OBVIOUS
<1>2. \A a, b \in Nat : <<a, b>> \in R <=> a < b
  BY <1>1 DEF OpToRel
<1>3. IsWellFoundedOn(R, Nat)
  BY <1>1, NatLessThanWellFounded
<1>4. PICK m \in T : \A y \in T : ~(<<y, m>> \in R)
  BY <1>3, WFMin
<1>5. \A y \in T : y \in Nat
  OBVIOUS
<1>6. \A y \in T : m <= y
  <2> TAKE y \in T
  <2>1. y \in Nat /\ m \in Nat
    BY <1>5
  <2>2. ~(y < m)
    BY <1>2, <1>4, <2>1, Zenon
  <2> QED
    BY <2>1, <2>2
<1> QED
  BY <1>6

\* Of numbers below a bound there is a last one.
LEMMA NatMax ==
  ASSUME NEW T \in SUBSET Nat, NEW x \in T, NEW bound \in Nat, \A y \in T : y <= bound
  PROVE  \E m \in T : \A y \in T : y <= m
<1>0. \A y \in T : y \in Nat /\ y <= bound
  OBVIOUS
<1>1. {bound - y : y \in T} \in SUBSET Nat
  BY <1>0
<1>2. PICK d \in {bound - y : y \in T} : \A e \in {bound - y : y \in T} : d <= e
  BY <1>1, NatMin, ZenonT(30)
<1>3. PICK m \in T : d = bound - m
  BY <1>2
<1>4. \A y \in T : bound - m <= bound - y
  BY <1>2, <1>3
<1>5. \A y \in T : y <= m
  BY <1>0, <1>4
<1> QED
  BY <1>5

LEMMA EarliestOf ==
  ASSUME NEW T \in SUBSET Nat, NEW x \in T
  PROVE  Earliest(T) \in T
BY NatMin DEF Earliest

\* A side of contracts, and dates for them.
Sided(C) == DOMAIN C \subseteq Nat /\ \A i \in DOMAIN C : C[i] \in Readings
Dated(C, dates) == \A i \in DOMAIN C : dates[i] \in Nat

\* What a document with marked contradictions states exactly, it states once.
LEMMA StatedOnce ==
  ASSUME NEW d \in Readings, NEW field, field # "employer"
  PROVE  ~Several(distinctExactValues(d.facts, field))
<1> SUFFICES ASSUME Several(distinctExactValues(d.facts, field))
             PROVE  FALSE
  OBVIOUS
<1>1. d.facts \subseteq [field : STRING, value : Nat, status : STRING] /\ d.facts = markContradictions(d.facts)
  BY ReadingsAssumption
<1>2. PICK g \in d.facts : g.field = field /\ g.status = "exact"
  BY DEF Several, distinctExactValues, occurrences
<1>3. PICK f \in d.facts :
        g = IF f.field # "employer" /\ f.status = "exact" /\ Several(distinctExactValues(d.facts, f.field))
            THEN [f EXCEPT !.status = "contradiction"] ELSE f
  BY <1>1, <1>2 DEF markContradictions
<1>4. f \in [field : STRING, value : Nat, status : STRING]
  BY <1>1
<1>5. CASE f.field # "employer" /\ f.status = "exact" /\ Several(distinctExactValues(d.facts, f.field))
  BY <1>2, <1>3, <1>4, <1>5
<1>6. CASE ~(f.field # "employer" /\ f.status = "exact" /\ Several(distinctExactValues(d.facts, f.field)))
  BY <1>2, <1>3, <1>6
<1> QED
  BY <1>5, <1>6

LEMMA ExactValue ==
  ASSUME NEW d \in Readings, NEW field
  PROVE  /\ distinctExactValues(d.facts, field) \subseteq Nat \ {NoValue}
         /\ singleExactValue(d.facts, field) \in Nat
         /\ singleExactValue(d.facts, field) # NoValue =>
              distinctExactValues(d.facts, field) = {singleExactValue(d.facts, field)}
         /\ field # "employer" =>
              \A v \in distinctExactValues(d.facts, field) : singleExactValue(d.facts, field) = v
<1>1. d.facts \subseteq [field : STRING, value : Nat, status : STRING]
  BY ReadingsAssumption
<1>2. PICK stated : stated = distinctExactValues(d.facts, field)
  OBVIOUS
<1>3. stated \subseteq Nat \ {NoValue}
  BY <1>1, <1>2 DEF distinctExactValues, occurrences
<1>4. singleExactValue(d.facts, field) = IF stated # {} /\ ~Several(stated) THEN CHOOSE v \in stated : TRUE ELSE NoValue
  BY <1>2 DEF singleExactValue
<1>5. field # "employer" => ~Several(stated)
  BY <1>2, StatedOnce
<1>6. stated # {} => (CHOOSE v \in stated : TRUE) \in stated
  OBVIOUS
<1>7. ~Several(stated) => \A v, w \in stated : v = w
  BY DEF Several
<1> QED
  BY <1>2, <1>3, <1>4, <1>5, <1>6, <1>7 DEF NoValue

LEMMA VariantDated ==
  ASSUME NEW C, Sided(C), NEW dates \in Variants(C)
  PROVE  /\ Dated(C, dates)
         /\ \A i \in DOMAIN C : ~isAnnex(C[i]) => dates[i] = NoDate
         /\ DOMAIN dates = DOMAIN C
<1>1. \A i \in DOMAIN C : C[i].user \in Nat /\ printedDate(C[i]) \in Nat
  BY ReadingsAssumption, ExactValue DEF Sided, printedDate
<1>2. PICK printed : dates = variantDates(C, printed)
  BY DEF Variants
<1> QED
  BY <1>1, <1>2 DEF variantDates, Dated, NoDate

LEMMA UserVariant == \A C : userVariant(C) \in Variants(C)
BY DEF userVariant, Variants

\* The contracts in force that state a field, and those of them that state it last.
Stating(C, dates, field, t) == {i \in applicableContracts(C, dates, t) : distinctExactValues(C[i].facts, field) # {}}
Latest(C, dates, field, t) ==
  {i \in Stating(C, dates, field, t) : \A j \in Stating(C, dates, field, t) : sortKey(C, dates, j) <= sortKey(C, dates, i)}

LEMMA SortKeys ==
  ASSUME NEW C, Sided(C), NEW dates, Dated(C, dates), NEW t \in Nat, NEW i \in applicableContracts(C, dates, t)
  PROVE  /\ i \in DOMAIN C /\ i \in Nat /\ C[i] \in Readings
         /\ sortKey(C, dates, i) \in Nat /\ sortKey(C, dates, i) <= t
BY DEF Sided, Dated, applicableContracts, sortKey, NoDate

LEMMA LatestExists ==
  ASSUME NEW C, Sided(C), NEW dates, Dated(C, dates), NEW t \in Nat, NEW field,
         NEW i \in Stating(C, dates, field, t)
  PROVE  \E w \in Latest(C, dates, field, t) : TRUE
<1> DEFINE keys == {sortKey(C, dates, j) : j \in Stating(C, dates, field, t)}
<1>1. \A j \in Stating(C, dates, field, t) : sortKey(C, dates, j) \in Nat /\ sortKey(C, dates, j) <= t
  BY SortKeys DEF Stating
<1>2. keys \in SUBSET Nat /\ sortKey(C, dates, i) \in keys /\ \A k \in keys : k <= t
  BY <1>1
<1> HIDE DEF keys
<1>3. PICK m \in keys : \A k \in keys : k <= m
  BY <1>2, NatMax
<1> QED
  BY <1>3 DEF keys, Latest

\* The timeline names the first of the latest statements when they agree, all of them when they do not.
LEMMA TimelineOf ==
  ASSUME NEW C, Sided(C), NEW dates, Dated(C, dates), NEW t \in Nat, NEW field, field # "employer"
  PROVE  LET T == Timeline(C, dates, field, t)
         IN \/ /\ Stating(C, dates, field, t) = {} /\ T.at = {} /\ T.outcome \notin {"value", "disagreement"}
            \/ /\ T.outcome = "value"
               /\ \E w \in Latest(C, dates, field, t) : T.at = {w}
               /\ \A i, j \in Latest(C, dates, field, t) :
                    distinctExactValues(C[i].facts, field) = distinctExactValues(C[j].facts, field)
            \/ /\ T.outcome = "disagreement" /\ T.at = Latest(C, dates, field, t)
               /\ \E w \in Latest(C, dates, field, t) : TRUE
<1> DEFINE stating    == {i \in DOMAIN C : singleExactValue(C[i].facts, field) # NoValue}
           applicable == stating \cap applicableContracts(C, dates, t)
           undated    == {i \in stating : isAnnex(C[i]) /\ ~hasUsableDate(dates[i])}
           atMax      == {i \in applicable : \A j \in applicable : sortKey(C, dates, j) <= sortKey(C, dates, i)}
           values     == {singleExactValue(C[i].facts, field) : i \in atMax}
           S == Stating(C, dates, field, t)
           L == Latest(C, dates, field, t)
<1>1. PICK T : T = Timeline(C, dates, field, t)
  OBVIOUS
<1>2. T = IF applicable = {} THEN [outcome |-> IF undated # {} THEN "undated_document" ELSE "silent", at |-> {}]
          ELSE IF Several(values) THEN [outcome |-> "disagreement", at |-> atMax]
          ELSE [outcome |-> "value", at |-> {Earliest(atMax)}]
  BY <1>1 DEF Timeline
<1>3. \A i \in applicableContracts(C, dates, t) :
        /\ i \in DOMAIN C
        /\ singleExactValue(C[i].facts, field) # NoValue <=> distinctExactValues(C[i].facts, field) # {}
  <2> TAKE i \in applicableContracts(C, dates, t)
  <2>1. i \in DOMAIN C /\ C[i] \in Readings
    BY SortKeys
  <2>2. PICK stated : stated = distinctExactValues(C[i].facts, field)
    OBVIOUS
  <2>3. PICK single : single = singleExactValue(C[i].facts, field)
    OBVIOUS
  <2>4. /\ single # NoValue => stated = {single}
        /\ \A v \in stated : single = v /\ v # NoValue
    BY <2>1, <2>2, <2>3, ExactValue
  <2> QED
    BY <2>1, <2>2, <2>3, <2>4
<1>4. applicable = S
  BY <1>3 DEF Stating
<1>5. atMax = L
  BY <1>4 DEF Latest
<1>6. L \subseteq Nat /\ L \subseteq S
  BY SortKeys DEF Latest, Stating
<1>7. CASE S = {}
  BY <1>1, <1>2, <1>4, <1>7
<1>8. CASE S # {} /\ Several(values)
  <2>1. \E w \in L : TRUE
    BY <1>8, LatestExists
  <2> HIDE DEF applicable, atMax, values, undated, S, L
  <2>2. T = [outcome |-> "disagreement", at |-> L]
    BY <1>2, <1>4, <1>5, <1>8
  <2> QED
    BY <1>1, <2>1, <2>2 DEF L
<1>9. CASE S # {} /\ ~Several(values)
  <2>1. PICK w \in L : TRUE
    BY <1>9, LatestExists
  <2>2. Earliest(L) \in L
    BY <1>6, <2>1, EarliestOf
  <2>3. \A i, j \in L : singleExactValue(C[i].facts, field) = singleExactValue(C[j].facts, field)
    BY <1>5, <1>9 DEF Several
  <2>4. \A i \in L : distinctExactValues(C[i].facts, field) = {singleExactValue(C[i].facts, field)}
    <3> TAKE i \in L
    <3>1. i \in applicable
      BY <1>5
    <3>2. C[i] \in Readings /\ singleExactValue(C[i].facts, field) # NoValue
      BY <3>1, SortKeys
    <3> QED
      BY <3>2, ExactValue
  <2>5. \A i, j \in L : distinctExactValues(C[i].facts, field) = distinctExactValues(C[j].facts, field)
    BY <2>3, <2>4
  <2> HIDE DEF applicable, atMax, values, undated, S, L
  <2>6. T = [outcome |-> "value", at |-> {Earliest(L)}]
    BY <1>2, <1>4, <1>5, <1>9
  <2> QED
    BY <1>1, <2>2, <2>5, <2>6 DEF L
<1> QED
  BY <1>7, <1>8, <1>9

\* The exact evidence of contracts is what they state, each value with its document.
LEMMA ExactEvidence ==
  ASSUME NEW C, NEW dates, NEW field, NEW S, NEW E, E = exactEvidence(C, dates, field, S)
  PROVE  /\ \A i \in S : \A v \in distinctExactValues(C[i].facts, field) : \E e \in E : e.doc = C[i].id /\ e.value = v
         /\ \A e \in E : \E i \in S : e.value \in distinctExactValues(C[i].facts, field)
<1> DEFINE exact(i) == {g \in occurrences(C[i].facts, field) : g.status = "exact" /\ g.value # NoValue}
           found(i) == factEvidence(C[i], dates[i], {f \in occurrences(C[i].facts, field) : f.status = "exact"}).candidates
<1>1. \A i, f : Evidence(C[i], dates[i], f.value).doc = C[i].id /\ Evidence(C[i], dates[i], f.value).value = f.value
  BY DEF Evidence
<1>2. \A i : found(i) = {Evidence(C[i], dates[i], f.value) : f \in exact(i)}
  <2> TAKE i
  <2>1. {g \in {f \in occurrences(C[i].facts, field) : f.status = "exact"} :
           g.status \in {"exact", "contradiction"} /\ g.value # NoValue} = exact(i)
    OBVIOUS
  <2> QED
    BY <2>1 DEF factEvidence, Found
<1>3. \A i : distinctExactValues(C[i].facts, field) = {f.value : f \in exact(i)}
  BY DEF distinctExactValues
<1>4. E = UNION {found(i) : i \in S}
  BY DEF exactEvidence
<1> HIDE DEF exact, found
<1>5. ASSUME NEW i \in S, NEW v \in distinctExactValues(C[i].facts, field)
      PROVE  \E e \in E : e.doc = C[i].id /\ e.value = v
  <2>1. PICK X : X = exact(i)
    OBVIOUS
  <2>4. distinctExactValues(C[i].facts, field) = {f.value : f \in X}
    BY <1>3, <2>1
  <2>2. PICK f \in X : f.value = v
    BY <1>5, <2>4
  <2>3. Evidence(C[i], dates[i], f.value) \in found(i)
    BY <1>2, <2>1, <2>2
  <2>5. PICK e : e = Evidence(C[i], dates[i], f.value)
    OBVIOUS
  <2>6. e \in E
    BY <1>4, <2>3, <2>5
  <2>7. e.doc = C[i].id /\ e.value = v
    BY <1>1, <2>2, <2>5
  <2> QED
    BY <2>6, <2>7
<1>6. ASSUME NEW e \in E
      PROVE  \E i \in S : e.value \in distinctExactValues(C[i].facts, field)
  <2>1. PICK i \in S : e \in found(i)
    BY <1>4, <1>6
  <2>2. PICK X : X = exact(i)
    OBVIOUS
  <2>3. found(i) = {Evidence(C[i], dates[i], f.value) : f \in X} /\ distinctExactValues(C[i].facts, field) = {f.value : f \in X}
    BY <1>2, <1>3, <2>2
  <2>4. PICK f \in X : e = Evidence(C[i], dates[i], f.value)
    BY <2>1, <2>3
  <2> QED
    BY <1>1, <2>3, <2>4
<1> QED
  BY <1>5, <1>6

LEMMA FirstDocument ==
  ASSUME NEW C, Sided(C), NEW S \in SUBSET DOMAIN C, NEW x \in S
  PROVE  firstDocument(C, S) \in S
<1>1. {C[i].id : i \in S} \in SUBSET Nat /\ C[x].id \in {C[i].id : i \in S}
  BY ReadingsAssumption DEF Sided
<1>2. PICK m \in {C[i].id : i \in S} : \A n \in {C[i].id : i \in S} : m <= n
  BY <1>1, NatMin
<1>3. \E i \in S : \A j \in S : C[i].id <= C[j].id
  BY <1>2
<1> QED
  BY <1>3 DEF firstDocument

\* The regime of a field starts with the latest annexes that state it.
LEMMA RegimeStart ==
  ASSUME NEW C, Sided(C), NEW dates, Dated(C, dates), NEW t \in Nat, NEW field,
         NEW T, \A i \in T.at : i \in Latest(C, dates, field, t), NEW w \in T.at,
         NEW start, start = regimeStart(C, dates, T)
  PROVE  \/ ~isAnnex(C[w]) /\ sortKey(C, dates, w) = NoDate
         \/ isAnnex(C[w]) /\ start # NoBound /\ start.date = sortKey(C, dates, w)
<1> DEFINE starts == {i \in T.at : isAnnex(C[i])}
<1>0. \A i \in T.at : /\ i \in DOMAIN C /\ i \in applicableContracts(C, dates, t)
                      /\ sortKey(C, dates, i) \in Nat
                      /\ \A j \in T.at : sortKey(C, dates, j) <= sortKey(C, dates, i)
  BY SortKeys DEF Latest, Stating
<1>1. \A i, j \in T.at : sortKey(C, dates, i) = sortKey(C, dates, j)
  BY <1>0
<1>2. CASE ~isAnnex(C[w])
  BY <1>2 DEF sortKey
<1>3. CASE isAnnex(C[w])
  <2>1. starts \in SUBSET DOMAIN C /\ w \in starts
    BY <1>0, <1>3
  <2>2. PICK f : f = firstDocument(C, starts)
    OBVIOUS
  <2>3. f \in starts
    BY <2>1, <2>2, FirstDocument
  <2>4. start = [date |-> dates[f], doc |-> C[f].id]
    BY <2>1, <2>2 DEF regimeStart, boundOf
  <2>5. dates[f] = sortKey(C, dates, f) /\ sortKey(C, dates, f) = sortKey(C, dates, w)
    BY <1>1, <2>3 DEF sortKey
  <2>6. hasUsableDate(dates[f])
    BY <1>0, <2>3 DEF applicableContracts
  <2>7. start.date # NoDate
    BY <2>4, <2>6 DEF hasUsableDate
  <2> QED
    BY <1>3, <2>4, <2>5, <2>7 DEF NoBound
<1> QED
  BY <1>2, <1>3

\* What the evidence of a field names: what it offers and what it sets aside.
Named(V) == V.candidates \cup {x.source : x \in V.excluded}

Earlier(C, dates, S, date) == {i \in S : sortKey(C, dates, i) < date}

\* The parts of the evidence of one reading of the dates.
LEMMA VariantParts ==
  ASSUME NEW C, NEW dates, NEW field, NEW t, NEW V, V = variantEvidence(C, dates, field, t),
         NEW T, T = Timeline(C, dates, field, t),
         NEW others, others = applicableContracts(C, dates, t) \ (T.at \cup undatedAnnexes(C, dates)),
         NEW start, start = regimeStart(C, dates, T),
         NEW earlier, earlier = Earlier(C, dates, others, start.date)
  PROVE  /\ exactEvidence(C, dates, field, T.at) \subseteq V.candidates
         /\ exactEvidence(C, dates, field, undatedAnnexes(C, dates)) \subseteq Named(V)
         /\ start # NoBound => exactEvidence(C, dates, field, earlier) \subseteq Named(V)
<1> DEFINE winnerKey  == IF T.outcome = "value" THEN sortKey(C, dates, CHOOSE i \in T.at : TRUE) ELSE NoDate
           laterOnes  == {i \in others : sortKey(C, dates, i) >= winnerKey}
           overridden == {i \in others : start # NoBound /\ sortKey(C, dates, i) < start.date}
           clear(S)   == exactEvidence(C, dates, field, S)
           missing    == {Excluded(c, "annex_effective_date_missing") : c \in clear(undatedAnnexes(C, dates))}
           older      == {ExcludedBy(c, "superseded_by_later_document", "superseded_by", start) : c \in clear(overridden)}
<1>1. V = evidenceAlong(C, dates, field, t, T, others, start)
  BY DEF variantEvidence, evidenceOfTimeline
<1>2. /\ V.candidates = clear(T.at) \cup unclearEvidence(C, dates, field, laterOnes).candidates
      /\ V.excluded = missing \cup unclearEvidence(C, dates, field, laterOnes).excluded \cup older
  BY <1>1 DEF evidenceAlong
<1>3. \A c : Excluded(c, "annex_effective_date_missing").source = c
  BY DEF Excluded
<1>4. \A c : ExcludedBy(c, "superseded_by_later_document", "superseded_by", start).source = c
  BY DEF ExcludedBy
<1> HIDE DEF clear
<1>5. clear(undatedAnnexes(C, dates)) \subseteq {x.source : x \in V.excluded}
  BY <1>2, <1>3
<1>6. clear(overridden) \subseteq {x.source : x \in V.excluded}
  BY <1>2, <1>4, ZenonT(30)
<1>7. start # NoBound => overridden = earlier
  BY DEF Earlier
<1> QED
  BY <1>2, <1>5, <1>6, <1>7 DEF Named, clear

LEMMA VariantNames ==
  ASSUME NEW C, Sided(C), NEW dates, Dated(C, dates), NEW t \in Nat, NEW field, field # "employer",
         NEW V, V = variantEvidence(C, dates, field, t)
  PROVE  /\ \A i \in undatedAnnexes(C, dates) : \A v \in distinctExactValues(C[i].facts, field) :
              \E e \in Named(V) : e.doc = C[i].id /\ e.value = v
         /\ \A i \in applicableContracts(C, dates, t) : \A v \in distinctExactValues(C[i].facts, field) :
              \E e \in Named(V) : e.value = v
<1>1. PICK T : T = Timeline(C, dates, field, t)
  OBVIOUS
<1>2. PICK others : others = applicableContracts(C, dates, t) \ (T.at \cup undatedAnnexes(C, dates))
  OBVIOUS
<1>3. PICK start : start = regimeStart(C, dates, T)
  OBVIOUS
<1>7. PICK earlier : earlier = Earlier(C, dates, others, start.date)
  OBVIOUS
<1>4. /\ exactEvidence(C, dates, field, T.at) \subseteq Named(V)
      /\ exactEvidence(C, dates, field, undatedAnnexes(C, dates)) \subseteq Named(V)
      /\ start # NoBound => exactEvidence(C, dates, field, earlier) \subseteq Named(V)
  <2>1. /\ exactEvidence(C, dates, field, T.at) \subseteq V.candidates
        /\ exactEvidence(C, dates, field, undatedAnnexes(C, dates)) \subseteq Named(V)
        /\ start # NoBound => exactEvidence(C, dates, field, earlier) \subseteq Named(V)
    BY <1>1, <1>2, <1>3, <1>7, VariantParts
  <2> QED
    BY <2>1 DEF Named
<1>5. ASSUME NEW S, exactEvidence(C, dates, field, S) \subseteq Named(V)
      PROVE  \A i \in S : \A v \in distinctExactValues(C[i].facts, field) : \E e \in Named(V) : e.doc = C[i].id /\ e.value = v
  <2>1. PICK E : E = exactEvidence(C, dates, field, S)
    OBVIOUS
  <2>2. \A i \in S : \A v \in distinctExactValues(C[i].facts, field) : \E e \in E : e.doc = C[i].id /\ e.value = v
    BY <2>1, ExactEvidence
  <2> QED
    BY <1>5, <2>1, <2>2
<1>6. ASSUME NEW i \in applicableContracts(C, dates, t), NEW v \in distinctExactValues(C[i].facts, field)
      PROVE  \E e \in Named(V) : e.value = v
  <2> DEFINE L == Latest(C, dates, field, t)
  <2>1. i \in Stating(C, dates, field, t)
    BY <1>6 DEF Stating
  <2>2. /\ T.at \subseteq L
        /\ \E w \in T.at : TRUE
        /\ T.at = L \/ \A j, k \in L : distinctExactValues(C[j].facts, field) = distinctExactValues(C[k].facts, field)
    BY <1>1, <2>1, TimelineOf
  <2>3. PICK w \in T.at : TRUE
    BY <2>2
  <2>4. /\ w \in L
        /\ sortKey(C, dates, w) \in Nat /\ sortKey(C, dates, i) \in Nat
        /\ sortKey(C, dates, i) <= sortKey(C, dates, w)
    BY <2>1, <2>2, <2>3, SortKeys DEF Latest, Stating
  <2>5. CASE i \in L
    <3>1. \E j \in T.at : v \in distinctExactValues(C[j].facts, field)
      BY <1>6, <2>2, <2>3, <2>4, <2>5
    <3> QED
      BY <1>4, <1>5, <3>1
  <2>6. CASE i \notin L
    <3>1. sortKey(C, dates, i) < sortKey(C, dates, w)
      <4>1. \A j \in Stating(C, dates, field, t) : sortKey(C, dates, j) \in Nat /\ sortKey(C, dates, j) <= sortKey(C, dates, w)
        BY <2>4, SortKeys DEF Latest, Stating
      <4>2. sortKey(C, dates, i) = sortKey(C, dates, w) => i \in L
        BY <2>1, <4>1 DEF Latest
      <4> QED
        BY <2>4, <2>6, <4>2
    <3>2. start # NoBound /\ start.date = sortKey(C, dates, w)
      <4>1. \/ ~isAnnex(C[w]) /\ sortKey(C, dates, w) = NoDate
            \/ isAnnex(C[w]) /\ start # NoBound /\ start.date = sortKey(C, dates, w)
        BY <1>3, <2>2, <2>3, RegimeStart, ZenonT(30)
      <4>2. sortKey(C, dates, w) # NoDate
        BY <2>4, <3>1 DEF NoDate
      <4> QED
        BY <4>1, <4>2
    <3>3. i \notin undatedAnnexes(C, dates)
      BY <1>6 DEF undatedAnnexes, applicableContracts
    <3>4. i \in earlier
      BY <1>2, <1>7, <1>6, <2>2, <2>6, <3>1, <3>2, <3>3 DEF Earlier
    <3>5. exactEvidence(C, dates, field, earlier) \subseteq Named(V)
      BY <1>4, <3>2
    <3> QED
      BY <1>5, <1>6, <3>4, <3>5
  <2> QED
    BY <2>5, <2>6
<1> QED
  BY <1>4, <1>5, <1>6


\* Placing the payslips takes nothing away, and names each of theirs.
LEMMA PlacementNames ==
  ASSUME NEW variant, NEW slips, NEW V, V = placePayslipEvidence(variant, slips)
  PROVE  Named(variant) \subseteq Named(V) /\ slips.candidates \subseteq Named(V)
<1> DEFINE out(c) == Placement(c, variant).reason # "none"
           aside(c) == ExcludedBy(c, Placement(c, variant).reason, Placement(c, variant).code, Placement(c, variant).bound)
<1>1. V.candidates = variant.candidates \cup {c \in slips.candidates : ~out(c)}
  BY DEF placePayslipEvidence
<1>2. V.excluded = variant.excluded \cup slips.excluded \cup {aside(c) : c \in {x \in slips.candidates : out(x)}}
  BY DEF placePayslipEvidence
<1>3. \A c : aside(c).source = c
  BY DEF ExcludedBy
<1> HIDE DEF out, aside
<1>4. variant.candidates \subseteq V.candidates /\ variant.excluded \subseteq V.excluded
  BY <1>1, <1>2
<1>5. ASSUME NEW c \in slips.candidates
      PROVE  c \in Named(V)
  <2>1. CASE out(c)
    <3>1. aside(c) \in V.excluded
      BY <1>2, <2>1
    <3> QED
      BY <1>3, <3>1 DEF Named
  <2>2. CASE ~out(c)
    BY <1>1, <2>2 DEF Named
  <2> QED
    BY <2>1, <2>2
<1> QED
  BY <1>4, <1>5 DEF Named

\* A field keeps the evidence it was resolved from.
LEMMA ResolvedEvidence ==
  ASSUME NEW evidence, NEW emptyReason, NEW forced, NEW regime,
         NEW F, F = resolveField(evidence, emptyReason, forced, regime)
  PROVE  F.candidates = evidence.candidates /\ F.excluded = evidence.excluded
BY DEF resolveField

LEMMA AnswerNames ==
  ASSUME NEW variants, NEW first \in variants, NEW emptyReason, NEW F, F = oneAnswer(variants, first, emptyReason)
  PROVE  Named(first) \subseteq Named(F)
<1>1. PICK e : /\ F.candidates = e.candidates /\ F.excluded = e.excluded
               /\ e = Found(first.candidates, first.excluded) \/ e = Together(variants)
  BY ResolvedEvidence DEF oneAnswer
<1>2. first.candidates \subseteq e.candidates /\ first.excluded \subseteq e.excluded
  BY <1>1 DEF Found, Together
<1> QED
  BY <1>1, <1>2 DEF Named

LEMMA TimelineFieldNames ==
  ASSUME NEW C, NEW field, NEW t, NEW slips, NEW emptyReason,
         NEW F, F = timelineField(C, field, t, slips, emptyReason)
  PROVE  /\ slips.candidates \subseteq Named(F)
         /\ DOMAIN C # {} => Named(variantEvidence(C, userVariant(C), field, t)) \subseteq Named(F)
<1>1. CASE DOMAIN C = {}
  <2>1. F = plainField(slips, emptyReason)
    BY <1>1 DEF timelineField
  <2> QED
    BY <1>1, <2>1, ResolvedEvidence DEF plainField, Named
<1>2. CASE DOMAIN C # {}
  <2>1. PICK variants : variants = {fieldVariant(C, dates, field, t, slips) : dates \in Variants(C)}
    OBVIOUS
  <2>2. PICK first : first = fieldVariant(C, userVariant(C), field, t, slips)
    OBVIOUS
  <2>3. first \in variants
    BY <2>1, <2>2, UserVariant
  <2>4. F = oneAnswer(variants, first, emptyReason)
    BY <1>2, <2>1, <2>2 DEF timelineField
  <2>5. Named(first) \subseteq Named(F)
    BY <2>3, <2>4, AnswerNames
  <2>6. first = placePayslipEvidence(variantEvidence(C, userVariant(C), field, t), slips)
    BY <2>2 DEF fieldVariant
  <2>7. Named(variantEvidence(C, userVariant(C), field, t)) \subseteq Named(first) /\ slips.candidates \subseteq Named(first)
    BY <2>6, PlacementNames
  <2> QED
    BY <2>5, <2>7
<1> QED
  BY <1>1, <1>2

\* What a payslip states exactly is evidence of the rate.
LEMMA PayslipEvidence ==
  ASSUME NEW documents, NEW d \in Slips(documents), NEW v \in distinctExactValues(d.facts, Rate)
  PROVE  \E c \in regularRateEvidence(documents).candidates : c.doc = d.id /\ c.value = v
<1>1. PICK f \in occurrences(d.facts, "hourlyRate") : f.status = "exact" /\ f.value # NoValue /\ f.value = v
  BY DEF distinctExactValues, Rate
<1>2. PICK e : e = factEvidence(d, NoDate, occurrences(d.facts, "hourlyRate"))
  OBVIOUS
<1>3. Evidence(d, NoDate, f.value) \in e.candidates
  BY <1>1, <1>2 DEF factEvidence, Found
<1>4. PICK c : c = Evidence(d, NoDate, f.value)
  OBVIOUS
<1>5. c.doc = d.id /\ c.value = v
  BY <1>1, <1>4 DEF Evidence
<1>6. e.candidates \subseteq regularRateEvidence(documents).candidates
  BY <1>2 DEF regularRateEvidence, Together, Found
<1> QED
  BY <1>3, <1>4, <1>5, <1>6

\* Every answer is that of its request.
THEOREM Resolved == Resolutions => []ResolutionInv
<1>1. NothingResolved => ResolutionInv
  BY DEF NothingResolved, ResolutionInv
<1>2. ResolutionInv /\ [NextResolution]_resolutionVars => ResolutionInv'
  <2> SUFFICES ASSUME ResolutionInv, [NextResolution]_resolutionVars
               PROVE  ResolutionInv'
    OBVIOUS
  <2>1. ASSUME NEW d \in Readings, WithDocument(d)
        PROVE  ResolutionInv'
    <3>1. given \in Seq(Readings)
      BY DEF ResolutionInv
    <3>2. /\ Append(given, d) \in Seq(Readings) /\ DOMAIN Append(given, d) = DOMAIN given \cup {Len(given) + 1}
          /\ \A i \in DOMAIN given : Append(given, d)[i] = given[i]
          /\ Append(given, d)[Len(given) + 1] = d
      BY <3>1
    <3>3. \A i, j \in DOMAIN Append(given, d) : Append(given, d)[i].id = Append(given, d)[j].id => i = j
      BY <2>1, <3>2 DEF WithDocument, ResolutionInv
    <3> QED
      BY <2>1, <3>2, <3>3 DEF WithDocument, Resolve, ResolutionInv
  <2>2. ASSUME NEW date \in ResolveDates, OnOtherDate(date)
        PROVE  ResolutionInv'
    BY <2>2 DEF OnOtherDate, Resolve, ResolutionInv
  <2>3. CASE UNCHANGED resolutionVars
    BY <2>3 DEF resolutionVars, ResolutionInv
  <2> QED
    BY <2>1, <2>2, <2>3 DEF NextResolution
<1> QED
  BY <1>1, <1>2, PTL DEF Resolutions

\* The side of a request, and the rate along it.
LEMMA RequestSide ==
  ASSUME ResolutionInv
  PROVE  /\ Sided(side) /\ onDate \in Nat
         /\ \A i \in DOMAIN given : given[i] \in Readings
         /\ \A i \in DOMAIN side : i \in DOMAIN given /\ side[i] = given[i] /\ isContract(given[i])
         /\ \E why : rate = timelineField(side, "hourlyRate", onDate, regularRateEvidence(given), why)
<1>1. given \in Seq(Readings) /\ DOMAIN given = 1 .. Len(given) /\ Len(given) \in Nat
  BY DEF ResolutionInv
<1>2. \A i \in DOMAIN given : i \in Nat /\ given[i] \in Readings
  BY <1>1
<1>3. rate = timelineField(side, "hourlyRate", onDate, regularRateEvidence(given),
                           IF given = <<>> THEN "no_documents" ELSE "not_on_documents")
  BY DEF ResolutionInv, resolvePayrollProfile, rate, Rate, side, Fields
<1>4. onDate \in Nat
  BY ResolveDatesAssumption DEF ResolutionInv
<1>5. \A i \in DOMAIN side : i \in DOMAIN given /\ side[i] = given[i] /\ isContract(given[i])
  BY DEF side, contractSide
<1> QED
  BY <1>2, <1>3, <1>4, <1>5 DEF Sided

\* No exact statement of the rate is dropped without a word: what a payslip or an undated annex says is
\* named with its document, what a contract in force says is among the values named.
THEOREM EvidenceKept == Resolutions => []EvidenceAccounted
<1>1. ResolutionInv => EvidenceAccounted
  <2> SUFFICES ASSUME ResolutionInv
               PROVE  EvidenceAccounted
    OBVIOUS
  <2> DEFINE dates == userVariant(side)
             named == rate.candidates \cup {x.source : x \in rate.excluded}
             stated(d) == distinctExactValues(d.facts, Rate)
  <2>1. /\ Sided(side) /\ onDate \in Nat /\ \A i \in DOMAIN given : given[i] \in Readings
        /\ \A i \in DOMAIN side : i \in DOMAIN given /\ side[i] = given[i]
    BY RequestSide
  <2>2. named = Named(rate)
    BY DEF Named
  <2>3. PICK V : V = variantEvidence(side, dates, "hourlyRate", onDate)
    OBVIOUS
  <2>4. /\ regularRateEvidence(given).candidates \subseteq named
        /\ DOMAIN side # {} => Named(V) \subseteq named
    <3>1. PICK why : rate = timelineField(side, "hourlyRate", onDate, regularRateEvidence(given), why)
      BY RequestSide
    <3> QED
      BY <2>2, <2>3, <3>1, TimelineFieldNames
  <2>5. Dated(side, dates)
    BY <2>1, UserVariant, VariantDated
  <2> HIDE DEF named, dates
  <2>6. /\ \A i \in undatedAnnexes(side, dates) : \A v \in distinctExactValues(side[i].facts, "hourlyRate") :
             \E e \in Named(V) : e.doc = side[i].id /\ e.value = v
        /\ \A i \in applicableContracts(side, dates, onDate) : \A v \in distinctExactValues(side[i].facts, "hourlyRate") :
             \E e \in Named(V) : e.value = v
    BY <2>1, <2>3, <2>5, VariantNames
  <2>7. ASSUME NEW i \in DOMAIN given, isPayslip(given[i]), NEW v \in stated(given[i])
        PROVE  \E e \in named : e.doc = given[i].id /\ e.value = v
    <3>1. given[i] \in Slips(given)
      BY <2>7 DEF Slips
    <3> QED
      BY <2>4, <2>7, <3>1, PayslipEvidence
  <2>8. ASSUME NEW i \in DOMAIN given, i \in undatedAnnexes(side, dates), NEW v \in stated(given[i])
        PROVE  \E e \in named : e.doc = given[i].id /\ e.value = v
    <3>1. i \in DOMAIN side /\ side[i] = given[i]
      BY <2>1, <2>8 DEF undatedAnnexes
    <3> QED
      BY <2>4, <2>6, <2>8, <3>1 DEF Rate
  <2>9. ASSUME NEW i \in applicableContracts(side, dates, onDate), NEW v \in stated(side[i])
        PROVE  \E e \in named : e.value = v
    <3>1. i \in DOMAIN side
      BY <2>9 DEF applicableContracts
    <3> QED
      BY <2>4, <2>6, <2>9, <3>1 DEF Rate
  <2> QED
    BY <2>7, <2>8, <2>9 DEF EvidenceAccounted, named, dates
<1> QED
  BY <1>1, Resolved, PTL

-----------------------------------------------------------------------------
(* A rate that may be used *)

\* A usable field has evidence of one value and nothing that forces a conflict.
LEMMA UsableField ==
  ASSUME NEW evidence, NEW emptyReason, NEW forced, NEW regime,
         NEW F, F = resolveField(evidence, emptyReason, forced, regime), F.state \in Usable
  PROVE  forced.code = "none" /\ {c.value : c \in evidence.candidates} = {F.value}
<1> DEFINE values == {c.value : c \in evidence.candidates}
<1>1. values # {} /\ ~Several(values) /\ forced.code = "none" /\ F.value = CHOOSE v \in values : TRUE
  BY DEF resolveField, Usable
<1>2. F.value \in values
  BY <1>1
<1>3. \A v \in values : v = F.value
  BY <1>1, <1>2 DEF Several
<1> QED
  BY <1>1, <1>2, <1>3

\* A usable answer is that of every reading of the dates.
LEMMA UsableAnswer ==
  ASSUME NEW variants, NEW first \in variants, NEW emptyReason,
         NEW F, F = oneAnswer(variants, first, emptyReason), F.state \in Usable
  PROVE  \A V \in variants : V.forced.code = "none" /\ {c.value : c \in V.candidates} = {F.value}
<1>1. PICK disputed : disputed = [code |-> "annex_effective_date_disputed", doc |-> 0, date |-> NoDate]
  OBVIOUS
<1>2. disputed.code # "none"
  BY <1>1
<1>3. \A V \in variants : signature(V) = signature(first)
  <2> SUFFICES ASSUME ~(\A V \in variants : signature(V) = signature(first))
               PROVE  FALSE
    OBVIOUS
  <2>1. F = resolveField(Together(variants), emptyReason, disputed, fieldRegime(variants))
    BY <1>1 DEF oneAnswer
  <2> QED
    BY <1>2, <2>1, UsableField
<1>4. PICK evidence : evidence = Found(first.candidates, first.excluded)
  OBVIOUS
<1>5. F = resolveField(evidence, emptyReason, first.forced, fieldRegime({first}))
  BY <1>3, <1>4 DEF oneAnswer
<1>6. first.forced.code = "none" /\ {c.value : c \in evidence.candidates} = {F.value}
  BY <1>5, UsableField
<1>7. evidence.candidates = first.candidates
  BY <1>4 DEF Found
<1>8. \A V \in variants : /\ {c.value : c \in V.candidates} = {c.value : c \in first.candidates}
                          /\ V.forced.code = first.forced.code
  BY <1>3 DEF signature
<1> QED
  BY <1>6, <1>7, <1>8

LEMMA UsableRate ==
  ASSUME NEW C, NEW field, NEW t, NEW slips, NEW emptyReason,
         NEW F, F = timelineField(C, field, t, slips, emptyReason), F.state \in Usable
  PROVE  /\ DOMAIN C = {} => {c.value : c \in slips.candidates} = {F.value}
         /\ DOMAIN C # {} =>
              \A dates \in Variants(C) :
                 LET V == fieldVariant(C, dates, field, t, slips)
                 IN V.forced.code = "none" /\ {c.value : c \in V.candidates} = {F.value}
<1>1. CASE DOMAIN C = {}
  <2>1. F = resolveField(slips, emptyReason, NoReason, NoRegime)
    BY <1>1 DEF timelineField, plainField
  <2> QED
    BY <1>1, <2>1, UsableField
<1>2. CASE DOMAIN C # {}
  <2>1. PICK variants : variants = {fieldVariant(C, dates, field, t, slips) : dates \in Variants(C)}
    OBVIOUS
  <2>2. PICK first : first = fieldVariant(C, userVariant(C), field, t, slips)
    OBVIOUS
  <2>3. first \in variants /\ F = oneAnswer(variants, first, emptyReason)
    BY <1>2, <2>1, <2>2, UserVariant DEF timelineField
  <2>4. \A V \in variants : V.forced.code = "none" /\ {c.value : c \in V.candidates} = {F.value}
    BY <2>3, UsableAnswer, SMTT(30)
  <2>5. \A dates \in Variants(C) : fieldVariant(C, dates, field, t, slips) \in variants
    BY <2>1
  <2> QED
    BY <1>2, <2>4, <2>5
<1> QED
  BY <1>1, <1>2

\* A contract says something of the field that could not be read.
Unclear(C, dates, field, i) == unclearEvidence(C, dates, field, {i}).excluded # {}

\* Nothing is forced on a reading of the dates: the latest statements agree, and what comes with or after
\* them says nothing unclear of the field.
LEMMA UnforcedVariant ==
  ASSUME NEW C, NEW dates, NEW field, NEW t, NEW slips,
         NEW V, V = variantEvidence(C, dates, field, t), placePayslipEvidence(V, slips).forced.code = "none",
         NEW T, T = Timeline(C, dates, field, t),
         NEW others, others = applicableContracts(C, dates, t) \ (T.at \cup undatedAnnexes(C, dates))
  PROVE  /\ T.outcome # "disagreement"
         /\ T.outcome = "value" =>
              \A w \in T.at : (\A x \in T.at : x = w) =>
                \A i \in others : sortKey(C, dates, i) >= sortKey(C, dates, w) => ~Unclear(C, dates, field, i)
<1>1. PICK start : start = regimeStart(C, dates, T)
  OBVIOUS
<1>2. V = evidenceAlong(C, dates, field, t, T, others, start)
  BY <1>1 DEF variantEvidence, evidenceOfTimeline
<1>0. PICK winner : winner = CHOOSE i \in T.at : TRUE
  OBVIOUS
<1>3. PICK winnerKey : winnerKey = IF T.outcome = "value" THEN sortKey(C, dates, winner) ELSE NoDate
  OBVIOUS
<1>4. PICK laterOnes : laterOnes = {i \in others : sortKey(C, dates, i) >= winnerKey}
  OBVIOUS
<1>5. V.forced = forcedBy(C, dates, field, t, T, laterOnes)
  BY <1>0, <1>2, <1>3, <1>4 DEF evidenceAlong
<1> DEFINE unclear == {i \in laterOnes : unclearEvidence(C, dates, field, {i}).excluded # {}}
           at == firstEarliest(C, dates, unclear)
<1>6. V.forced = CASE T.outcome = "disagreement" -> [code |-> "timeline_disagreement", doc |-> 0, date |-> t]
                   [] T.outcome = "value" /\ unclear # {} ->
                        [code |-> "later_document_unclear", doc |-> C[at].id, date |-> sortKey(C, dates, at)]
                   [] OTHER -> NoReason
  BY <1>5 DEF forcedBy
<1> HIDE DEF unclear, at
<1>7. /\ T.outcome = "disagreement" => V.forced.code = "timeline_disagreement"
      /\ T.outcome = "value" /\ unclear # {} => V.forced.code = "later_document_unclear"
  BY <1>6
<1>8. V.forced # NoReason => placePayslipEvidence(V, slips).forced = V.forced
  BY DEF placePayslipEvidence
<1>9. V.forced.code = "none"
  BY <1>8 DEF NoReason
<1>10. T.outcome # "disagreement" /\ (T.outcome = "value" => unclear = {})
  BY <1>7, <1>9
<1>11. ASSUME T.outcome = "value", NEW w \in T.at, \A x \in T.at : x = w,
              NEW i \in others, sortKey(C, dates, i) >= sortKey(C, dates, w)
       PROVE  ~Unclear(C, dates, field, i)
  <2>1. (CHOOSE j \in T.at : TRUE) = w
    BY <1>11
  <2>2. i \in laterOnes
    BY <1>0, <1>3, <1>4, <1>11, <2>1
  <2> QED
    BY <1>10, <1>11, <2>2 DEF unclear, Unclear
<1> QED
  BY <1>10, <1>11

\* An unclear statement of a contract is set aside, not overlooked.
LEMMA UnclearStatement ==
  ASSUME NEW C, NEW dates, NEW field, NEW i, NEW f \in occurrences(C[i].facts, field),
         f.status \in {"ambiguous", "implausible"}
  PROVE  Unclear(C, dates, field, i)
<1>1. PICK facts : facts = {g \in occurrences(C[i].facts, field) : g.status # "exact"}
  OBVIOUS
<1>2. PICK e : e = factEvidence(C[i], dates[i], facts)
  OBVIOUS
<1>3. f \in facts
  BY <1>1
<1>4. e.excluded # {}
  BY <1>2, <1>3 DEF factEvidence, Found
<1>5. unclearEvidence(C, dates, field, {i}) = Together({factEvidence(C[j], dates[j], {g \in occurrences(C[j].facts, field) : g.status # "exact"}) : j \in {i}})
  BY DEF unclearEvidence
<1>6. {factEvidence(C[j], dates[j], {g \in occurrences(C[j].facts, field) : g.status # "exact"}) : j \in {i}} = {e}
  BY <1>1, <1>2
<1>7. unclearEvidence(C, dates, field, {i}) = Together({e})
  BY <1>5, <1>6
<1> QED
  BY <1>4, <1>7 DEF Together, Found, Unclear

\* All the evidence offered is of one value.
OffersOnly(V, r) == \A c \in V.candidates : c.value = r
SaysOnly(d, field, r) == distinctExactValues(d.facts, field) = {r}

\* What the contracts that hold the field state is offered by every reading of the dates.
LEMMA HoldingIsOffered ==
  ASSUME NEW C, Sided(C), NEW dates, Dated(C, dates), NEW t \in Nat, NEW field, field # "employer", NEW slips,
         placePayslipEvidence(variantEvidence(C, dates, field, t), slips).forced.code = "none",
         NEW r, OffersOnly(variantEvidence(C, dates, field, t), r),
         NEW i \in Latest(C, dates, field, t)
  PROVE  /\ SaysOnly(C[i], field, r)
         /\ \A j \in applicableContracts(C, dates, t) :
              sortKey(C, dates, j) > sortKey(C, dates, i) =>
                \A f \in occurrences(C[j].facts, field) : f.status \notin {"ambiguous", "implausible"}
         /\ \E w \in Latest(C, dates, field, t) : \A x : x \in Timeline(C, dates, field, t).at <=> x = w
<1>0. PICK V : V = variantEvidence(C, dates, field, t)
  OBVIOUS
<1>1. PICK T : T = Timeline(C, dates, field, t)
  OBVIOUS
<1>2. PICK others : others = applicableContracts(C, dates, t) \ (T.at \cup undatedAnnexes(C, dates))
  OBVIOUS
<1>3. /\ T.outcome # "disagreement"
      /\ T.outcome = "value" =>
           \A w \in T.at : (\A x \in T.at : x = w) =>
             \A j \in others : sortKey(C, dates, j) >= sortKey(C, dates, w) => ~Unclear(C, dates, field, j)
  BY <1>0, <1>1, <1>2, UnforcedVariant
<1>4. i \in Stating(C, dates, field, t)
  BY DEF Latest
<1>5. /\ T.outcome = "value"
      /\ \E w \in Latest(C, dates, field, t) : T.at = {w}
      /\ \A k, j \in Latest(C, dates, field, t) :
           distinctExactValues(C[k].facts, field) = distinctExactValues(C[j].facts, field)
  BY <1>1, <1>3, <1>4, TimelineOf
<1>6. PICK w \in Latest(C, dates, field, t) : T.at = {w}
  BY <1>5
<1>7. distinctExactValues(C[i].facts, field) = distinctExactValues(C[w].facts, field)
  BY <1>5, <1>6
<1>8. \A v \in distinctExactValues(C[w].facts, field) : v = r
  <2>1. PICK start : start = regimeStart(C, dates, T)
    OBVIOUS
  <2>2. PICK earlier : earlier = Earlier(C, dates, others, start.date)
    OBVIOUS
  <2>3. PICK E : E = exactEvidence(C, dates, field, T.at)
    OBVIOUS
  <2>4. E \subseteq V.candidates
    BY <1>0, <1>1, <1>2, <2>1, <2>2, <2>3, VariantParts
  <2>5. \A v \in distinctExactValues(C[w].facts, field) : \E e \in E : e.value = v
    BY <1>6, <2>3, ExactEvidence
  <2> QED
    BY <1>0, <2>4, <2>5 DEF OffersOnly
<1>9. SaysOnly(C[i], field, r)
  BY <1>4, <1>7, <1>8 DEF Stating, SaysOnly
<1>10. sortKey(C, dates, w) = sortKey(C, dates, i) /\ sortKey(C, dates, i) \in Nat
  BY <1>4, <1>6, SortKeys DEF Latest, Stating
<1>11. ASSUME NEW j \in applicableContracts(C, dates, t), sortKey(C, dates, j) > sortKey(C, dates, i),
              NEW f \in occurrences(C[j].facts, field), f.status \in {"ambiguous", "implausible"}
       PROVE  FALSE
  <2>1. sortKey(C, dates, j) \in Nat
    BY <1>11, SortKeys
  <2>2. j # w /\ sortKey(C, dates, j) >= sortKey(C, dates, w)
    BY <1>10, <1>11, <2>1
  <2>3. j \notin undatedAnnexes(C, dates)
    BY <1>11 DEF undatedAnnexes, applicableContracts
  <2>4. j \in others
    BY <1>2, <1>6, <1>11, <2>2, <2>3
  <2>5. ~Unclear(C, dates, field, j)
    BY <1>3, <1>5, <1>6, <2>2, <2>4
  <2> QED
    BY <1>11, <2>5, UnclearStatement
<1> QED
  BY <1>1, <1>6, <1>9, <1>11

\* The regime ends with an annex of a later date that says something of the field.
LEMMA RegimeEnd ==
  ASSUME NEW C, Sided(C), NEW dates, Dated(C, dates), NEW t \in Nat, NEW field,
         NEW end, end = regimeEnd(C, dates, field, t)
  PROVE  \/ end = NoBound
         \/ \E j \in DOMAIN C : dates[j] > t /\ occurrences(C[j].facts, field) # {} /\ end.date = dates[j]
<1> DEFINE future == {i \in DOMAIN C : isAnnex(C[i]) /\ dates[i] > t /\ occurrences(C[i].facts, field) # {}}
           first == {i \in future : \A j \in future : sortKey(C, dates, i) <= sortKey(C, dates, j)}
<1>1. end = IF future = {} THEN NoBound ELSE boundOf(C, dates, firstDocument(C, first))
  BY DEF regimeEnd, nextAnnex, firstEarliest
<1>2. \A i \in future : i \in DOMAIN C /\ sortKey(C, dates, i) = dates[i] /\ dates[i] \in Nat
  BY DEF sortKey, Dated
<1>3. ASSUME NEW x \in future
      PROVE  firstDocument(C, first) \in future
  <2>1. PICK keys : keys = {sortKey(C, dates, i) : i \in future}
    OBVIOUS
  <2>2. keys \in SUBSET Nat /\ sortKey(C, dates, x) \in keys
    BY <1>2, <2>1
  <2>3. PICK m \in keys : \A k \in keys : m <= k
    BY <2>2, NatMin
  <2>4. PICK i \in future : m = sortKey(C, dates, i)
    BY <2>1, <2>3
  <2>5. i \in first
    BY <2>1, <2>3, <2>4
  <2>6. first \in SUBSET DOMAIN C
    OBVIOUS
  <2> HIDE DEF first
  <2>7. firstDocument(C, first) \in first
    BY <2>5, <2>6, FirstDocument
  <2> QED
    BY <2>7 DEF first
<1>4. CASE future = {}
  BY <1>1, <1>4
<1>5. CASE future # {}
  <2>1. PICK f : f = firstDocument(C, first)
    OBVIOUS
  <2>2. f \in future
    BY <1>3, <1>5, <2>1
  <2>3. end.date = dates[f]
    BY <1>1, <1>5, <2>1 DEF boundOf
  <2> QED
    BY <2>2, <2>3
<1> QED
  BY <1>4, <1>5

\* A payslip candidate whose period lies within the regime is one of its values.
LEMMA PlacedWithin ==
  ASSUME NEW V, NEW c, c.from \in Nat, c.to \in Nat, hasUsableDate(c.from), hasUsableDate(c.to),
         V.start = NoBound \/ (V.start.date \in Nat /\ V.start.date <= c.from /\ V.start.date <= c.to),
         V.end = NoBound \/ (V.end.date \in Nat /\ c.from < V.end.date /\ c.to < V.end.date)
  PROVE  Placement(c, V).reason = "none"
BY DEF Placement, hasUsableDate, NoDate

LEMMA VariantRegime ==
  ASSUME NEW C, NEW dates, NEW field, NEW t, NEW V, V = variantEvidence(C, dates, field, t)
  PROVE  V.start = regimeStart(C, dates, Timeline(C, dates, field, t)) /\ V.end = regimeEnd(C, dates, field, t)
BY DEF variantEvidence, evidenceOfTimeline, evidenceAlong

\* A regular line of a payslip is evidence of the rate, with the period of its payslip.
LEMMA RegularLine ==
  ASSUME NEW documents, NEW d \in Slips(documents), NEW l \in LinesOf(d, {"regular"}), l.issue = "none", l.value > 0
  PROVE  \E c \in regularRateEvidence(documents).candidates :
           /\ c.value = l.value
           /\ isPayslip(d) => /\ c.from = singleExactValue(d.facts, "periodStart")
                              /\ c.to = singleExactValue(d.facts, "periodEnd")
<1> DEFINE line(k) == IF k.issue # "none" THEN Found({}, {issueExclusion(Evidence(d, NoDate, k.value), k)})
                      ELSE IF k.value > 0 THEN Found({Evidence(d, NoDate, k.value)}, {}) ELSE Nothing
<1>1. PICK c : c = Evidence(d, NoDate, l.value)
  OBVIOUS
<1>2. line(l) = Found({c}, {})
  BY <1>1
<1>3. c \in line(l).candidates
  BY <1>2 DEF Found
<1>4. line(l) \in {line(k) : k \in LinesOf(d, {"regular"})}
  OBVIOUS
<1> HIDE DEF line
<1>5. c \in regularRateEvidence(documents).candidates
  <2>1. PICK own : own = {line(k) : k \in LinesOf(d, {"regular"})}
    OBVIOUS
  <2>2. own \in {{IF k.issue # "none" THEN Found({}, {issueExclusion(Evidence(e, NoDate, k.value), k)})
                  ELSE IF k.value > 0 THEN Found({Evidence(e, NoDate, k.value)}, {}) ELSE Nothing
                  : k \in LinesOf(e, {"regular"})} : e \in Slips(documents)}
    BY <2>1 DEF line
  <2>3. PICK lines : lines = UNION {{IF k.issue # "none" THEN Found({}, {issueExclusion(Evidence(e, NoDate, k.value), k)})
                  ELSE IF k.value > 0 THEN Found({Evidence(e, NoDate, k.value)}, {}) ELSE Nothing
                  : k \in LinesOf(e, {"regular"})} : e \in Slips(documents)}
    OBVIOUS
  <2>4. line(l) \in lines
    BY <1>4, <2>1, <2>2, <2>3
  <2>5. PICK headers : headers = {factEvidence(e, NoDate, occurrences(e.facts, "hourlyRate")) : e \in Slips(documents)}
    OBVIOUS
  <2>6. regularRateEvidence(documents) = Together(headers \cup lines)
    BY <2>3, <2>5 DEF regularRateEvidence
  <2> QED
    BY <1>3, <2>4, <2>6 DEF Together, Found
<1> QED
  BY <1>1, <1>5 DEF Evidence

\* The contracts that hold the rate are the latest ones that state it.
LEMMA HoldingIsLatest ==
  ASSUME ResolutionInv, NEW dates \in Variants(side)
  PROVE  /\ Holding(dates) = Latest(side, dates, "hourlyRate", onDate)
         /\ \A i \in applicableContracts(side, dates, onDate) : sortKey(side, dates, i) = dates[i]
<1>1. \A i \in DOMAIN side : ~isAnnex(side[i]) => dates[i] = NoDate
  BY RequestSide, VariantDated
<1>2. \A i \in applicableContracts(side, dates, onDate) : sortKey(side, dates, i) = dates[i]
  BY <1>1 DEF applicableContracts, sortKey
<1> DEFINE S == Stating(side, dates, "hourlyRate", onDate)
<1>3. Holding(dates) = {i \in S : \A j \in S : dates[j] <= dates[i]}
  BY DEF Holding, Stating, Rate
<1>4. \A i \in S : sortKey(side, dates, i) = dates[i]
  BY <1>2 DEF Stating
<1>5. Holding(dates) = Latest(side, dates, "hourlyRate", onDate)
  BY <1>3, <1>4 DEF Latest
<1> QED
  BY <1>2, <1>5

\* A rate that may be used is the one in force, under every reading of the dates in dispute.
THEOREM RateInForce == Resolutions => []RateIsInForce
<1>1. ResolutionInv => RateIsInForce
  <2> SUFFICES ASSUME ResolutionInv, rate.state \in Usable, NEW dates \in Variants(side)
               PROVE  /\ \A i \in Holding(dates) : distinctExactValues(side[i].facts, Rate) = {rate.value}
                      /\ \A i \in Holding(dates), j \in applicableContracts(side, dates, onDate) :
                           dates[j] > dates[i] => \A f \in occurrences(side[j].facts, Rate) : f.status \notin {"ambiguous", "implausible"}
                      /\ \A k \in DOMAIN given : WithinRegime(given[k], dates) =>
                           \A l \in LinesOf(given[k], {"regular"}) : l.issue = "none" /\ l.value > 0 => l.value = rate.value
    BY DEF RateIsInForce
  <2>1. /\ Sided(side) /\ onDate \in Nat /\ \A k \in DOMAIN given : given[k] \in Readings
    BY RequestSide
  <2>2. Dated(side, dates)
    BY <2>1, VariantDated
  <2>3. PICK r : r = rate.value
    OBVIOUS
  <2>4. PICK slips : slips = regularRateEvidence(given)
    OBVIOUS
  <2>5. PICK why : rate = timelineField(side, "hourlyRate", onDate, slips, why)
    BY <2>4, RequestSide
  <2>6. PICK V : V = variantEvidence(side, dates, "hourlyRate", onDate)
    OBVIOUS
  <2>7. PICK P : P = placePayslipEvidence(V, slips)
    OBVIOUS
  <2>8. DOMAIN side # {} => P.forced.code = "none" /\ {c.value : c \in P.candidates} = {r}
    <3>1. P = fieldVariant(side, dates, "hourlyRate", onDate, slips)
      BY <2>6, <2>7 DEF fieldVariant
    <3> QED
      BY <2>3, <2>5, <3>1, UsableRate
  <2>9. V.candidates \subseteq P.candidates
    BY <2>7 DEF placePayslipEvidence
  <2>10. \A c \in slips.candidates : Placement(c, V).reason = "none" => c \in P.candidates
    BY <2>7 DEF placePayslipEvidence
  <2>11. ASSUME NEW i \in Holding(dates)
         PROVE  /\ distinctExactValues(side[i].facts, "hourlyRate") = {r}
                /\ \A j \in applicableContracts(side, dates, onDate) : dates[j] > dates[i] =>
                     \A f \in occurrences(side[j].facts, "hourlyRate") : f.status \notin {"ambiguous", "implausible"}
                /\ \E w \in Holding(dates) : Timeline(side, dates, "hourlyRate", onDate).at = {w}
    <3>1. i \in Latest(side, dates, "hourlyRate", onDate) /\ Latest(side, dates, "hourlyRate", onDate) = Holding(dates)
      BY <2>11, HoldingIsLatest
    <3>2. i \in applicableContracts(side, dates, onDate)
      BY <3>1 DEF Latest, Stating
    <3>3. DOMAIN side # {}
      BY <3>2 DEF applicableContracts
    <3>4. P.forced.code = "none" /\ \A c \in V.candidates : c.value = r
      BY <2>8, <2>9, <3>3
    <3>7. /\ placePayslipEvidence(variantEvidence(side, dates, "hourlyRate", onDate), slips).forced.code = "none"
          /\ OffersOnly(variantEvidence(side, dates, "hourlyRate", onDate), r)
      BY <2>6, <2>7, <3>4 DEF OffersOnly
    <3>5. /\ SaysOnly(side[i], "hourlyRate", r)
          /\ \A j \in applicableContracts(side, dates, onDate) : sortKey(side, dates, j) > sortKey(side, dates, i) =>
               \A f \in occurrences(side[j].facts, "hourlyRate") : f.status \notin {"ambiguous", "implausible"}
          /\ \E w \in Latest(side, dates, "hourlyRate", onDate) :
               \A x : x \in Timeline(side, dates, "hourlyRate", onDate).at <=> x = w
      BY <2>1, <2>2, <3>1, <3>7, HoldingIsOffered
    <3>6. \A j \in applicableContracts(side, dates, onDate) : sortKey(side, dates, j) = dates[j]
      BY HoldingIsLatest
    <3> QED
      BY <3>1, <3>2, <3>5, <3>6 DEF SaysOnly
  <2>12. ASSUME NEW k \in DOMAIN given, WithinRegime(given[k], dates), NEW l \in LinesOf(given[k], {"regular"}),
                l.issue = "none", l.value > 0
         PROVE  l.value = r
    <3>1. isPayslip(given[k]) /\ given[k] \in Slips(given)
      BY <2>12 DEF WithinRegime, Slips
    <3>2. PICK c \in slips.candidates : /\ c.value = l.value
                                        /\ c.from = singleExactValue(given[k].facts, "periodStart")
                                        /\ c.to = singleExactValue(given[k].facts, "periodEnd")
      BY <2>4, <2>12, <3>1, RegularLine
    <3>3. CASE DOMAIN side = {}
      <4>1. {x.value : x \in slips.candidates} = {r}
        BY <2>3, <2>5, <3>3, UsableRate
      <4> QED
        BY <3>2, <4>1
    <3>4. CASE DOMAIN side # {}
      <4>1. c.from \in Nat /\ c.to \in Nat /\ hasUsableDate(c.from) /\ hasUsableDate(c.to)
        BY <2>1, <2>12, <3>2, ExactValue DEF WithinRegime
      <4>2. V.start = NoBound \/ (V.start.date \in Nat /\ V.start.date <= c.from /\ V.start.date <= c.to)
        <5>1. PICK T : T = Timeline(side, dates, "hourlyRate", onDate)
          OBVIOUS
        <5>2. V.start = regimeStart(side, dates, T)
          BY <2>6, <5>1, VariantRegime
        <5>3. CASE T.at = {}
          BY <5>2, <5>3 DEF regimeStart
        <5>4. CASE T.at # {}
          <6>1. PICK h \in Holding(dates) : TRUE
            BY <2>1, <2>2, <5>1, <5>4, HoldingIsLatest, TimelineOf
          <6>2. PICK w \in Holding(dates) : T.at = {w}
            BY <2>11, <5>1, <6>1
          <6>3. CASE isAnnex(side[w])
            <7>1. w \in T.at /\ \A i \in T.at : i \in Latest(side, dates, "hourlyRate", onDate)
              BY <6>2, HoldingIsLatest
            <7>2. V.start # NoBound /\ V.start.date = sortKey(side, dates, w)
              BY <2>1, <2>2, <5>2, <6>2, <6>3, <7>1, RegimeStart
            <7>3. w \in applicableContracts(side, dates, onDate)
              BY <6>2, HoldingIsLatest DEF Latest, Stating
            <7>4. sortKey(side, dates, w) = dates[w] /\ sortKey(side, dates, w) \in Nat
              BY <2>1, <2>2, <7>3, SortKeys, HoldingIsLatest
            <7>5. dates[w] <= c.from /\ dates[w] <= c.to
              BY <2>12, <3>2, <6>2 DEF WithinRegime
            <7> QED
              BY <7>2, <7>4, <7>5
          <6>4. CASE ~isAnnex(side[w])
            BY <5>2, <6>2, <6>4 DEF regimeStart
          <6> QED
            BY <6>3, <6>4
        <5> QED
          BY <5>3, <5>4
      <4>3. V.end = NoBound \/ (V.end.date \in Nat /\ c.from < V.end.date /\ c.to < V.end.date)
        <5>1. \/ V.end = NoBound
              \/ \E j \in DOMAIN side : dates[j] > onDate /\ occurrences(side[j].facts, "hourlyRate") # {} /\ V.end.date = dates[j]
          BY <2>1, <2>2, <2>6, VariantRegime, RegimeEnd
        <5>2. \A j \in DOMAIN side : dates[j] > onDate /\ occurrences(side[j].facts, "hourlyRate") # {} =>
                c.from < dates[j] /\ c.to < dates[j]
          BY <2>12, <3>2 DEF WithinRegime, Rate
        <5> QED
          BY <2>2, <5>1, <5>2 DEF Dated
      <4>4. c \in P.candidates
        BY <2>10, <4>1, <4>2, <4>3, PlacedWithin
      <4> QED
        BY <2>8, <3>2, <3>4, <4>4
    <3> QED
      BY <3>3, <3>4
  <2> QED
    BY <2>3, <2>11, <2>12 DEF Rate
<1> QED
  BY <1>1, Resolved, PTL

-----------------------------------------------------------------------------
(* One more payslip. *)

\* More evidence: every candidate is still there.
Grows(e, more) == e.candidates \subseteq more.candidates

LEMMA TogetherGrows ==
  ASSUME NEW S, NEW R, S \subseteq R
  PROVE  Grows(Together(S), Together(R))
BY DEF Grows, Together, Found

LEMMA PayslipEvidenceGrows ==
  ASSUME NEW before, NEW after, Slips(before) \subseteq Slips(after)
  PROVE  /\ Grows(regularRateEvidence(before), regularRateEvidence(after))
         /\ \A field : Grows(payslipScalarEvidence(before, field), payslipScalarEvidence(after, field))
         /\ Grows(employerEvidence(before), employerEvidence(after))
         /\ \A inForce, tiers : Grows(overtimeEvidence(before, inForce, tiers), overtimeEvidence(after, inForce, tiers))
         /\ \A kind : Grows(deductionEvidence(before, kind), deductionEvidence(after, kind))
<1>1. Grows(regularRateEvidence(before), regularRateEvidence(after))
  <2> DEFINE header(d) == factEvidence(d, NoDate, occurrences(d.facts, "hourlyRate"))
             lines(d) == {IF l.issue # "none" THEN Found({}, {issueExclusion(Evidence(d, NoDate, l.value), l)})
                          ELSE IF l.value > 0 THEN Found({Evidence(d, NoDate, l.value)}, {}) ELSE Nothing
                          : l \in LinesOf(d, {"regular"})}
             all(D) == {header(d) : d \in D} \cup UNION {lines(d) : d \in D}
  <2>1. \A D : regularRateEvidence(D) = Together(all(Slips(D)))
    BY DEF regularRateEvidence
  <2> HIDE DEF header, lines
  <2>2. all(Slips(before)) \subseteq all(Slips(after))
    OBVIOUS
  <2> QED
    BY <2>1, <2>2, TogetherGrows
<1>2. ASSUME NEW field
      PROVE  Grows(payslipScalarEvidence(before, field), payslipScalarEvidence(after, field))
  <2> DEFINE said(d) == factEvidence(d, NoDate, occurrences(d.facts, field))
             all(D) == {said(d) : d \in D}
  <2>1. \A D : payslipScalarEvidence(D, field) = Together(all(Slips(D)))
    BY DEF payslipScalarEvidence
  <2> HIDE DEF said
  <2>2. all(Slips(before)) \subseteq all(Slips(after))
    OBVIOUS
  <2> HIDE DEF all
  <2> QED
    BY <2>1, <2>2, TogetherGrows
<1>3. Grows(employerEvidence(before), employerEvidence(after))
  <2> DEFINE said(d) == LET found == factEvidence(d, NoDate, occurrences(d.facts, "employer"))
                        IN IF Several({f.value : f \in {g \in occurrences(d.facts, "employer") : g.status = "exact"}})
                           THEN Found({}, found.excluded \cup {Excluded(c, "multiple_employers_on_payslip") : c \in found.candidates})
                           ELSE found
             all(D) == {said(d) : d \in D}
  <2>1. \A D : employerEvidence(D) = Together(all(Slips(D)))
    BY DEF employerEvidence
  <2> HIDE DEF said
  <2>2. all(Slips(before)) \subseteq all(Slips(after))
    OBVIOUS
  <2> QED
    BY <2>1, <2>2, TogetherGrows
<1>4. ASSUME NEW inForce, NEW tiers
      PROVE  Grows(overtimeEvidence(before, inForce, tiers), overtimeEvidence(after, inForce, tiers))
  <2> DEFINE lines(d) == {overtimeLine(d, l) : l \in {k \in LinesOf(d, {"overtime"}) : k.adds # "no" /\ k.tier \in tiers}}
             printed == UNION {{premiumEvidence(c[1], c[2], p) : p \in {q \in c[1].premiums : q.category = "overtime" /\ q.tier \in tiers}} : c \in inForce}
             all(D) == (UNION {lines(d) : d \in D}) \cup printed
  <2>1. \A D : overtimeEvidence(D, inForce, tiers) = Together(all(Slips(D)))
    BY DEF overtimeEvidence
  <2> HIDE DEF lines, printed
  <2>2. all(Slips(before)) \subseteq all(Slips(after))
    OBVIOUS
  <2> HIDE DEF all
  <2> QED
    BY <2>1, <2>2, TogetherGrows
<1>5. ASSUME NEW kind
      PROVE  Grows(deductionEvidence(before, kind), deductionEvidence(after, kind))
  <2> DEFINE lines(d) == {percentLineEvidence(d, l) : l \in LinesOf(d, {kind})}
             all(D) == UNION {lines(d) : d \in D}
  <2>1. \A D : deductionEvidence(D, kind) = Together(all(Slips(D)))
    BY DEF deductionEvidence
  <2> HIDE DEF lines
  <2>2. all(Slips(before)) \subseteq all(Slips(after))
    OBVIOUS
  <2> HIDE DEF all
  <2> QED
    BY <2>1, <2>2, TogetherGrows
<1> QED
  BY <1>1, <1>2, <1>3, <1>4, <1>5

\* Evidence of one value only.
OneValue(e, r) == (\E c \in e.candidates : TRUE) /\ \A c \in e.candidates : c.value = r

LEMMA UsablePlain ==
  ASSUME NEW e, NEW why, plainField(e, why).state \in Usable
  PROVE  OneValue(e, plainField(e, why).value)
<1>1. PICK F : F = plainField(e, why)
  OBVIOUS
<1>2. F = resolveField(e, why, NoReason, NoRegime)
  BY <1>1 DEF plainField
<1>3. {c.value : c \in e.candidates} = {F.value}
  BY <1>1, <1>2, UsableField
<1> QED
  BY <1>1, <1>3 DEF OneValue

LEMMA UsableTimeline ==
  ASSUME NEW C, NEW field, NEW t, NEW slips, NEW why, timelineField(C, field, t, slips, why).state \in Usable
  PROVE  OneValue(IF DOMAIN C = {} THEN slips ELSE fieldVariant(C, userVariant(C), field, t, slips),
                  timelineField(C, field, t, slips, why).value)
<1>1. PICK F : F = timelineField(C, field, t, slips, why)
  OBVIOUS
<1>2. CASE DOMAIN C = {}
  <2>1. {c.value : c \in slips.candidates} = {F.value}
    BY <1>1, <1>2, UsableRate
  <2> QED
    BY <1>1, <1>2, <2>1 DEF OneValue
<1>3. CASE DOMAIN C # {}
  <2>1. PICK V : V = fieldVariant(C, userVariant(C), field, t, slips)
    OBVIOUS
  <2>2. {c.value : c \in V.candidates} = {F.value}
    BY <1>1, <1>3, <2>1, UsableRate, UserVariant
  <2> QED
    BY <1>1, <1>3, <2>1, <2>2 DEF OneValue
<1> QED
  BY <1>2, <1>3

\* Of two usable fields, one with all the candidates of the other has its value.
LEMMA PlainFieldKept ==
  ASSUME NEW e, NEW more, Grows(e, more), NEW why, NEW because,
         plainField(e, why).state \in Usable, plainField(more, because).state \in Usable
  PROVE  plainField(more, because).value = plainField(e, why).value
<1>1. OneValue(e, plainField(e, why).value) /\ OneValue(more, plainField(more, because).value)
  BY UsablePlain
<1> QED
  BY <1>1 DEF OneValue, Grows

LEMMA TimelineFieldKept ==
  ASSUME NEW C, NEW field, NEW t, NEW slips, NEW more, Grows(slips, more), NEW why, NEW because,
         timelineField(C, field, t, slips, why).state \in Usable, timelineField(C, field, t, more, because).state \in Usable
  PROVE  timelineField(C, field, t, more, because).value = timelineField(C, field, t, slips, why).value
<1>1. PICK V : V = IF DOMAIN C = {} THEN slips ELSE fieldVariant(C, userVariant(C), field, t, slips)
  OBVIOUS
<1>2. PICK W : W = IF DOMAIN C = {} THEN more ELSE fieldVariant(C, userVariant(C), field, t, more)
  OBVIOUS
<1>3. OneValue(V, timelineField(C, field, t, slips, why).value) /\ OneValue(W, timelineField(C, field, t, more, because).value)
  BY <1>1, <1>2, UsableTimeline
<1>4. V.candidates \subseteq W.candidates
  BY <1>1, <1>2 DEF fieldVariant, placePayslipEvidence, Grows
<1> QED
  BY <1>3, <1>4 DEF OneValue

\* One more payslip: the contracts are the same, and so are the payslips there were.
LEMMA OnePayslipMore ==
  ASSUME NEW documents \in Seq(Readings), NEW d \in Readings, isPayslip(d)
  PROVE  /\ contractSide(Append(documents, d)) = contractSide(documents)
         /\ Slips(documents) \subseteq Slips(Append(documents, d))
<1>1. PICK longer : longer = Append(documents, d)
  OBVIOUS
<1>2. /\ Len(documents) \in Nat /\ DOMAIN documents = 1 .. Len(documents)
      /\ DOMAIN longer = 1 .. Len(documents) + 1
      /\ \A i \in DOMAIN documents : longer[i] = documents[i]
      /\ longer[Len(documents) + 1] = d
  BY <1>1
<1>3. ~isContract(d)
  BY DEF isPayslip, isContract
<1>4. {j \in DOMAIN longer : isContract(longer[j])} = {j \in DOMAIN documents : isContract(documents[j])}
  BY <1>2, <1>3
<1>5. contractSide(longer) = contractSide(documents)
  BY <1>2, <1>4 DEF contractSide
<1>6. Slips(documents) \subseteq Slips(longer)
  BY <1>2 DEF Slips
<1> QED
  BY <1>1, <1>5, <1>6

\* What the contracts in force say of the phase and of Saturdays.
PhaseEvidence(inForce) ==
  Together({factEvidence(c[1], c[2], occurrences(c[1].facts, "caoPhase")) : c \in inForce})
SaturdayEvidence(inForce) ==
  Together(UNION {{premiumEvidence(c[1], c[2], p) : p \in {q \in c[1].premiums : q.category = "saturday"}} : c \in inForce})

\* What the fields of a profile are resolved from.
LEMMA ProfileFields ==
  ASSUME NEW documents, NEW t, NEW P, P = resolvePayrollProfile(documents, t),
         NEW C, C = contractSide(documents), NEW inForce, inForce = anyVariantApplicable(C, t)
  PROVE  /\ \E why : P.fields["hourlyRate"] = timelineField(C, "hourlyRate", t, regularRateEvidence(documents), why)
         /\ \E why : P.fields["threshold"] = timelineField(C, "threshold", t, Nothing, why)
         /\ \E why : P.fields["caoPhase"] = plainField(PhaseEvidence(inForce), why)
         /\ \E why : P.fields["periodType"] = plainField(payslipScalarEvidence(documents, "periodType"), why)
         /\ \E why : P.fields["employer"] = plainField(employerEvidence(documents), why)
         /\ \E why : P.fields["tier1"] = plainField(Found(overtimeEvidence(documents, inForce, {1}).candidates, {}), why)
         /\ \E why : P.fields["tier2"] = plainField(Found(overtimeEvidence(documents, inForce, {2}).candidates, {}), why)
         /\ \E why : P.fields["saturday"] = plainField(SaturdayEvidence(inForce), why)
         /\ \E why : P.fields["pension"] = plainField(deductionEvidence(documents, "pension"), why)
<1> DEFINE anything    == IF documents = <<>> THEN "no_documents" ELSE "not_on_documents"
           onPayslips  == IF Slips(documents) = {} THEN "no_payslip_document" ELSE "not_on_payslips"
           inContracts == IF DOMAIN C = {} THEN "no_contract_document" ELSE "not_in_contract_extraction"
           tierReason  == IF overtimeEvidence(documents, inForce, 0..2) # Nothing THEN "tier_identity_not_evidenced" ELSE anything
<1>1. P.fields["hourlyRate"] = timelineField(C, "hourlyRate", t, regularRateEvidence(documents), anything)
  BY DEF resolvePayrollProfile, Fields
<1>2. P.fields["threshold"] = timelineField(C, "threshold", t, Nothing, inContracts)
  BY DEF resolvePayrollProfile, Fields
<1>3. P.fields["caoPhase"] = plainField(PhaseEvidence(inForce), inContracts)
  BY DEF resolvePayrollProfile, Fields, PhaseEvidence
<1>4. P.fields["periodType"] = plainField(payslipScalarEvidence(documents, "periodType"), onPayslips)
  BY DEF resolvePayrollProfile, Fields
<1>5. P.fields["employer"] = plainField(employerEvidence(documents), onPayslips)
  BY DEF resolvePayrollProfile, Fields
<1>6. P.fields["tier1"] = plainField(Found(overtimeEvidence(documents, inForce, {1}).candidates, {}), tierReason)
  BY DEF resolvePayrollProfile, Fields
<1>7. P.fields["tier2"] = plainField(Found(overtimeEvidence(documents, inForce, {2}).candidates, {}), tierReason)
  BY DEF resolvePayrollProfile, Fields
<1>8. P.fields["saturday"] = plainField(SaturdayEvidence(inForce), "no_weekday_evidence")
  BY DEF resolvePayrollProfile, Fields, SaturdayEvidence
<1>9. P.fields["pension"] = plainField(deductionEvidence(documents, "pension"), onPayslips)
  BY DEF resolvePayrollProfile, Fields
<1> QED
  BY <1>1, <1>2, <1>3, <1>4, <1>5, <1>6, <1>7, <1>8, <1>9

\* One more payslip never replaces a value that may be used by another one.
LEMMA PayslipKeeps ==
  ASSUME NEW documents \in Seq(Readings), NEW d \in Readings, isPayslip(d), NEW t,
         NEW P, P = resolvePayrollProfile(documents, t),
         NEW Q, Q = resolvePayrollProfile(Append(documents, d), t),
         NEW f \in Fields, P.fields[f].state \in Usable, Q.fields[f].state \in Usable
  PROVE  Q.fields[f].value = P.fields[f].value
<1>1. PICK longer : longer = Append(documents, d)
  OBVIOUS
<1>2. PICK C : C = contractSide(documents)
  OBVIOUS
<1>3. C = contractSide(longer) /\ Slips(documents) \subseteq Slips(longer)
  BY <1>1, <1>2, OnePayslipMore
<1>4. PICK inForce : inForce = anyVariantApplicable(C, t)
  OBVIOUS
<1>5. /\ Grows(regularRateEvidence(documents), regularRateEvidence(longer))
      /\ \A field : Grows(payslipScalarEvidence(documents, field), payslipScalarEvidence(longer, field))
      /\ Grows(employerEvidence(documents), employerEvidence(longer))
      /\ \A tiers : Grows(overtimeEvidence(documents, inForce, tiers), overtimeEvidence(longer, inForce, tiers))
      /\ \A kind : Grows(deductionEvidence(documents, kind), deductionEvidence(longer, kind))
  BY <1>3, PayslipEvidenceGrows
<1>6. \A e : Grows(e, e)
  BY DEF Grows
<1>7. Q = resolvePayrollProfile(longer, t)
  BY <1>1
<1>8. \A e, more, why, because : Grows(e, more) /\ P.fields[f] = plainField(e, why) /\ Q.fields[f] = plainField(more, because)
        => Q.fields[f].value = P.fields[f].value
  BY PlainFieldKept
<1>9. \A slips, more, why, because :
        Grows(slips, more) /\ P.fields[f] = timelineField(C, f, t, slips, why) /\ Q.fields[f] = timelineField(C, f, t, more, because)
        => Q.fields[f].value = P.fields[f].value
  BY TimelineFieldKept
<1>10. CASE f = "hourlyRate"
  <2>1. \E why : P.fields[f] = timelineField(C, f, t, regularRateEvidence(documents), why)
    BY <1>2, <1>4, <1>10, ProfileFields
  <2>2. \E why : Q.fields[f] = timelineField(C, f, t, regularRateEvidence(longer), why)
    BY <1>3, <1>4, <1>7, <1>10, ProfileFields
  <2> QED
    BY <1>5, <1>9, <2>1, <2>2
<1>11. CASE f = "threshold"
  <2>1. \E why : P.fields[f] = timelineField(C, f, t, Nothing, why)
    BY <1>2, <1>4, <1>11, ProfileFields
  <2>2. \E why : Q.fields[f] = timelineField(C, f, t, Nothing, why)
    BY <1>3, <1>4, <1>7, <1>11, ProfileFields
  <2> QED
    BY <1>6, <1>9, <2>1, <2>2
<1>12. CASE f = "caoPhase"
  <2>1. PICK e : e = PhaseEvidence(inForce)
    OBVIOUS
  <2>2. \E why : P.fields[f] = plainField(e, why)
    BY <1>2, <1>4, <1>12, <2>1, ProfileFields
  <2>3. \E why : Q.fields[f] = plainField(e, why)
    BY <1>3, <1>4, <1>7, <1>12, <2>1, ProfileFields
  <2> QED
    BY <1>6, <1>8, <2>2, <2>3
<1>13. CASE f = "periodType"
  <2>1. \E why : P.fields[f] = plainField(payslipScalarEvidence(documents, "periodType"), why)
    BY <1>2, <1>4, <1>13, ProfileFields
  <2>2. \E why : Q.fields[f] = plainField(payslipScalarEvidence(longer, "periodType"), why)
    BY <1>3, <1>4, <1>7, <1>13, ProfileFields
  <2> QED
    BY <1>5, <1>8, <2>1, <2>2
<1>14. CASE f = "employer"
  <2>1. \E why : P.fields[f] = plainField(employerEvidence(documents), why)
    BY <1>2, <1>4, <1>14, ProfileFields
  <2>2. \E why : Q.fields[f] = plainField(employerEvidence(longer), why)
    BY <1>3, <1>4, <1>7, <1>14, ProfileFields
  <2> QED
    BY <1>5, <1>8, <2>1, <2>2
<1>15. CASE f = "tier1"
  <2>1. PICK e : e = Found(overtimeEvidence(documents, inForce, {1}).candidates, {})
    OBVIOUS
  <2>2. PICK more : more = Found(overtimeEvidence(longer, inForce, {1}).candidates, {})
    OBVIOUS
  <2>3. Grows(e, more)
    BY <1>5, <2>1, <2>2 DEF Grows, Found
  <2>4. \E why : P.fields[f] = plainField(e, why)
    BY <1>2, <1>4, <1>15, <2>1, ProfileFields
  <2>5. \E why : Q.fields[f] = plainField(more, why)
    BY <1>3, <1>4, <1>7, <1>15, <2>2, ProfileFields
  <2> QED
    BY <1>8, <2>3, <2>4, <2>5
<1>16. CASE f = "tier2"
  <2>1. PICK e : e = Found(overtimeEvidence(documents, inForce, {2}).candidates, {})
    OBVIOUS
  <2>2. PICK more : more = Found(overtimeEvidence(longer, inForce, {2}).candidates, {})
    OBVIOUS
  <2>3. Grows(e, more)
    BY <1>5, <2>1, <2>2 DEF Grows, Found
  <2>4. \E why : P.fields[f] = plainField(e, why)
    BY <1>2, <1>4, <1>16, <2>1, ProfileFields
  <2>5. \E why : Q.fields[f] = plainField(more, why)
    BY <1>3, <1>4, <1>7, <1>16, <2>2, ProfileFields
  <2> QED
    BY <1>8, <2>3, <2>4, <2>5
<1>17. CASE f = "saturday"
  <2>1. PICK e : e = SaturdayEvidence(inForce)
    OBVIOUS
  <2>2. \E why : P.fields[f] = plainField(e, why)
    BY <1>2, <1>4, <1>17, <2>1, ProfileFields
  <2>3. \E why : Q.fields[f] = plainField(e, why)
    BY <1>3, <1>4, <1>7, <1>17, <2>1, ProfileFields
  <2> QED
    BY <1>6, <1>8, <2>2, <2>3
<1>18. CASE f = "pension"
  <2>1. \E why : P.fields[f] = plainField(deductionEvidence(documents, "pension"), why)
    BY <1>2, <1>4, <1>18, ProfileFields
  <2>2. \E why : Q.fields[f] = plainField(deductionEvidence(longer, "pension"), why)
    BY <1>3, <1>4, <1>7, <1>18, ProfileFields
  <2> QED
    BY <1>5, <1>8, <2>1, <2>2
<1> QED
  BY <1>10, <1>11, <1>12, <1>13, <1>14, <1>15, <1>16, <1>17, <1>18 DEF Fields

\* A payslip confirms a value or puts it in doubt: handing in one more never replaces a value that may be
\* used by another one.
THEOREM PayslipsOnlyConfirm == Resolutions => PayslipNeverReplaces
<1>1. ResolutionInv =>
        \A d \in Readings : isPayslip(d) /\ WithDocument(d) =>
          \A f \in Fields : answer.fields[f].state \in Usable /\ answer'.fields[f].state \in Usable
                            => answer'.fields[f].value = answer.fields[f].value
  <2> SUFFICES ASSUME ResolutionInv, NEW d \in Readings, isPayslip(d), WithDocument(d), NEW f \in Fields,
                      answer.fields[f].state \in Usable, answer'.fields[f].state \in Usable
               PROVE  answer'.fields[f].value = answer.fields[f].value
    OBVIOUS
  <2>1. PICK documents : documents = given
    OBVIOUS
  <2>2. PICK date : date = onDate
    OBVIOUS
  <2>3. PICK P : P = answer
    OBVIOUS
  <2>4. PICK Q : Q = answer'
    OBVIOUS
  <2>5. documents \in Seq(Readings) /\ P = resolvePayrollProfile(documents, date)
    BY <2>1, <2>2, <2>3 DEF ResolutionInv
  <2>6. Q = resolvePayrollProfile(Append(documents, d), date)
    BY <2>1, <2>2, <2>4 DEF WithDocument, Resolve
  <2>7. Q.fields[f].value = P.fields[f].value
    BY <2>3, <2>4, <2>5, <2>6, PayslipKeeps
  <2> QED
    BY <2>3, <2>4, <2>7
<1> QED
  BY <1>1, Resolved, PTL DEF PayslipNeverReplaces

-----------------------------------------------------------------------------
(* The order of the documents: the two sides hold the same ones, at other places. *)

\* Two sides hold the same documents: what is at place i of the one is at place p[i] of the other.
Moved(C, D, p) ==
  /\ \A i \in DOMAIN C : p[i] \in DOMAIN D /\ D[p[i]] = C[i]
  /\ \A i, j \in DOMAIN C : p[i] = p[j] => i = j
  /\ \A k \in DOMAIN D : \E i \in DOMAIN C : k = p[i]
Places(p, S) == {p[i] : i \in S}

\* The dates of the other side are those of the same documents.
Along(C, p, dates, e) == \A i \in DOMAIN C : e[p[i]] = dates[i]

\* What depends on a document and its date alone does not depend on its place.
LEMMA PlaceAlone ==
  ASSUME NEW C, NEW D, NEW p, Moved(C, D, p), NEW dates, NEW e, Along(C, p, dates, e), NEW t
  PROVE  /\ applicableContracts(D, e, t) = Places(p, applicableContracts(C, dates, t))
         /\ undatedAnnexes(D, e) = Places(p, undatedAnnexes(C, dates))
         /\ \A i \in DOMAIN C : sortKey(D, e, p[i]) = sortKey(C, dates, i)
<1>1. \A i \in DOMAIN C : p[i] \in DOMAIN D /\ D[p[i]] = C[i] /\ e[p[i]] = dates[i]
  BY DEF Moved, Along
<1>2. \A k \in DOMAIN D : \E i \in DOMAIN C : k = p[i]
  BY DEF Moved
<1>3. applicableContracts(D, e, t) = Places(p, applicableContracts(C, dates, t))
  <2>1. \A i \in DOMAIN C : p[i] \in applicableContracts(D, e, t) <=> i \in applicableContracts(C, dates, t)
    BY <1>1 DEF applicableContracts
  <2>2. applicableContracts(D, e, t) \subseteq DOMAIN D /\ applicableContracts(C, dates, t) \subseteq DOMAIN C
    BY DEF applicableContracts
  <2> QED
    BY <1>2, <2>1, <2>2 DEF Places
<1>4. undatedAnnexes(D, e) = Places(p, undatedAnnexes(C, dates))
  <2>1. \A i \in DOMAIN C : p[i] \in undatedAnnexes(D, e) <=> i \in undatedAnnexes(C, dates)
    BY <1>1 DEF undatedAnnexes
  <2>2. undatedAnnexes(D, e) \subseteq DOMAIN D /\ undatedAnnexes(C, dates) \subseteq DOMAIN C
    BY DEF undatedAnnexes
  <2> QED
    BY <1>2, <2>1, <2>2 DEF Places
<1>5. \A i \in DOMAIN C : sortKey(D, e, p[i]) = sortKey(C, dates, i)
  BY <1>1 DEF sortKey
<1> QED
  BY <1>3, <1>4, <1>5

\* Places are taken over one by one.
LEMMA PlacesOf ==
  ASSUME NEW C, NEW D, NEW p, Moved(C, D, p)
  PROVE  /\ \A S \in SUBSET DOMAIN C : \A i \in DOMAIN C : p[i] \in Places(p, S) <=> i \in S
         /\ \A S \in SUBSET DOMAIN C : Places(p, S) \subseteq DOMAIN D
         /\ \A R \in SUBSET DOMAIN D : R = Places(p, {i \in DOMAIN C : p[i] \in R})
BY DEF Moved, Places

\* The same documents give the same evidence, exact or unclear.
LEMMA EvidenceOfPlaces ==
  ASSUME NEW C, NEW D, NEW p, Moved(C, D, p), NEW dates, NEW e, Along(C, p, dates, e),
         NEW field, NEW S \in SUBSET DOMAIN C
  PROVE  /\ exactEvidence(D, e, field, Places(p, S)) = exactEvidence(C, dates, field, S)
         /\ unclearEvidence(D, e, field, Places(p, S)) = unclearEvidence(C, dates, field, S)
<1>1. \A i \in S : D[p[i]] = C[i] /\ e[p[i]] = dates[i]
  BY DEF Moved, Along
<1> DEFINE clear(X, x, i) == factEvidence(X[i], x[i], {f \in occurrences(X[i].facts, field) : f.status = "exact"}).candidates
           other(X, x, i) == factEvidence(X[i], x[i], {f \in occurrences(X[i].facts, field) : f.status # "exact"})
<1>2. \A i \in S : clear(D, e, p[i]) = clear(C, dates, i) /\ other(D, e, p[i]) = other(C, dates, i)
  BY <1>1
<1>3. /\ exactEvidence(D, e, field, Places(p, S)) = UNION {clear(D, e, k) : k \in Places(p, S)}
      /\ exactEvidence(C, dates, field, S) = UNION {clear(C, dates, i) : i \in S}
  BY DEF exactEvidence
<1>4. /\ unclearEvidence(D, e, field, Places(p, S)) = Together({other(D, e, k) : k \in Places(p, S)})
      /\ unclearEvidence(C, dates, field, S) = Together({other(C, dates, i) : i \in S})
  BY DEF unclearEvidence
<1> HIDE DEF clear, other
<1>5. /\ {clear(D, e, k) : k \in Places(p, S)} = {clear(C, dates, i) : i \in S}
      /\ {other(D, e, k) : k \in Places(p, S)} = {other(C, dates, i) : i \in S}
  BY <1>2 DEF Places
<1> QED
  BY <1>3, <1>4, <1>5

\* A set of dated documents has a first one by its date.
LEMMA FirstEarliest ==
  ASSUME NEW C, Sided(C), NEW dates, Dated(C, dates), NEW S \in SUBSET DOMAIN C, NEW x \in S
  PROVE  /\ firstEarliest(C, dates, S) \in S
         /\ \A j \in S : sortKey(C, dates, firstEarliest(C, dates, S)) <= sortKey(C, dates, j)
<1> DEFINE first == {i \in S : \A j \in S : sortKey(C, dates, i) <= sortKey(C, dates, j)}
<1>1. firstEarliest(C, dates, S) = firstDocument(C, first)
  BY DEF firstEarliest
<1>2. \A i \in S : sortKey(C, dates, i) \in Nat
  BY DEF sortKey, Dated, NoDate
<1>3. PICK keys : keys = {sortKey(C, dates, i) : i \in S}
  OBVIOUS
<1>4. keys \in SUBSET Nat /\ sortKey(C, dates, x) \in keys
  BY <1>2, <1>3
<1>5. PICK m \in keys : \A k \in keys : m <= k
  BY <1>4, NatMin
<1>6. PICK i \in S : m = sortKey(C, dates, i)
  BY <1>3, <1>5
<1>7. i \in first /\ first \in SUBSET DOMAIN C
  BY <1>3, <1>5, <1>6
<1> HIDE DEF first
<1>8. firstDocument(C, first) \in first
  BY <1>7, FirstDocument
<1> QED
  BY <1>1, <1>8 DEF first

\* The regime ends on the same date.
LEMMA EndOfPlaces ==
  ASSUME NEW C, Sided(C), NEW D, Sided(D), NEW p, Moved(C, D, p), NEW dates, Dated(C, dates), NEW e, Dated(D, e),
         Along(C, p, dates, e), NEW field, NEW t \in Nat,
         NEW X, X = regimeEnd(C, dates, field, t), NEW Y, Y = regimeEnd(D, e, field, t)
  PROVE  X.date = Y.date /\ (X = NoBound <=> Y = NoBound)
<1> DEFINE future == {i \in DOMAIN C : isAnnex(C[i]) /\ dates[i] > t /\ occurrences(C[i].facts, field) # {}}
           moved  == {k \in DOMAIN D : isAnnex(D[k]) /\ e[k] > t /\ occurrences(D[k].facts, field) # {}}
<1>1. moved = Places(p, future)
  <2>1. \A i \in DOMAIN C : p[i] \in DOMAIN D /\ D[p[i]] = C[i] /\ e[p[i]] = dates[i]
    BY DEF Moved, Along
  <2>2. \A k \in DOMAIN D : \E i \in DOMAIN C : k = p[i]
    BY DEF Moved
  <2>3. \A i \in DOMAIN C : p[i] \in moved <=> i \in future
    BY <2>1
  <2>4. future \subseteq DOMAIN C /\ moved \subseteq DOMAIN D
    OBVIOUS
  <2> HIDE DEF future, moved
  <2> QED
    BY <2>2, <2>3, <2>4 DEF Places
<1>2. X = nextAnnex(C, dates, future) /\ Y = nextAnnex(D, e, moved)
  BY DEF regimeEnd
<1>3. future \in SUBSET DOMAIN C /\ moved \in SUBSET DOMAIN D
  OBVIOUS
<1>4. \A i \in future : sortKey(C, dates, i) = dates[i] /\ dates[i] \in Nat /\ dates[i] > t
  BY DEF sortKey, Dated
<1>5. \A i \in moved : sortKey(D, e, i) = e[i] /\ e[i] \in Nat /\ e[i] > t
  BY DEF sortKey, Dated
<1>6. \A i \in DOMAIN C : sortKey(D, e, p[i]) = sortKey(C, dates, i)
  BY PlaceAlone
<1> HIDE DEF future, moved
<1>7. CASE future = {}
  <2>1. moved = {}
    BY <1>1, <1>7 DEF Places
  <2> QED
    BY <1>2, <1>7, <2>1 DEF nextAnnex
<1>8. CASE future # {}
  <2>1. PICK x \in future : TRUE
    BY <1>8
  <2>2. p[x] \in moved
    BY <1>1 DEF Places
  <2>3. PICK v : v = firstEarliest(C, dates, future)
    OBVIOUS
  <2>4. PICK w : w = firstEarliest(D, e, moved)
    OBVIOUS
  <2>5. v \in future /\ \A j \in future : sortKey(C, dates, v) <= sortKey(C, dates, j)
    BY <1>3, <2>1, <2>3, FirstEarliest
  <2>6. w \in moved /\ \A j \in moved : sortKey(D, e, w) <= sortKey(D, e, j)
    BY <1>3, <2>2, <2>4, FirstEarliest
  <2>7. PICK u \in future : w = p[u]
    BY <1>1, <2>6 DEF Places
  <2>8. p[v] \in moved
    BY <1>1, <2>5 DEF Places
  <2>9. sortKey(C, dates, v) = sortKey(D, e, w)
    <3>1. sortKey(C, dates, v) <= sortKey(C, dates, u) /\ sortKey(D, e, w) <= sortKey(D, e, p[v])
      BY <2>5, <2>6, <2>8
    <3>2. sortKey(D, e, p[v]) = sortKey(C, dates, v) /\ sortKey(D, e, w) = sortKey(C, dates, u)
      BY <1>3, <1>6, <2>5, <2>7
    <3>3. sortKey(C, dates, v) \in Nat /\ sortKey(C, dates, u) \in Nat
      BY <1>4, <2>5
    <3> QED
      BY <3>1, <3>2, <3>3
  <2>10. X = boundOf(C, dates, v) /\ Y = boundOf(D, e, w)
    BY <1>2, <1>8, <2>2, <2>3, <2>4 DEF nextAnnex
  <2>11. X.date = dates[v] /\ Y.date = e[w]
    BY <2>10 DEF boundOf
  <2>12. dates[v] = e[w] /\ dates[v] > t /\ dates[v] \in Nat
    BY <1>4, <1>5, <2>5, <2>6, <2>9
  <2> QED
    BY <2>11, <2>12 DEF NoBound, NoDate
<1> QED
  BY <1>7, <1>8

\* When the latest statements disagree, two of them do.
LEMMA DisagreementOf ==
  ASSUME NEW C, Sided(C), NEW dates, Dated(C, dates), NEW t \in Nat, NEW field, field # "employer",
         Timeline(C, dates, field, t).outcome = "disagreement"
  PROVE  \E w, x \in Latest(C, dates, field, t) :
           distinctExactValues(C[w].facts, field) # distinctExactValues(C[x].facts, field)
<1> DEFINE single(i)  == singleExactValue(C[i].facts, field)
           stating    == {i \in DOMAIN C : single(i) # NoValue}
           applicable == stating \cap applicableContracts(C, dates, t)
           atMax      == {i \in applicable : \A j \in applicable : sortKey(C, dates, j) <= sortKey(C, dates, i)}
           values     == {single(i) : i \in atMax}
<1>1. \A i \in applicableContracts(C, dates, t) :
        /\ i \in DOMAIN C
        /\ single(i) # NoValue <=> distinctExactValues(C[i].facts, field) # {}
        /\ single(i) # NoValue => distinctExactValues(C[i].facts, field) = {single(i)}
  <2> TAKE i \in applicableContracts(C, dates, t)
  <2>1. i \in DOMAIN C /\ C[i] \in Readings
    BY SortKeys
  <2>2. PICK said : said = distinctExactValues(C[i].facts, field)
    OBVIOUS
  <2>3. PICK one : one = single(i)
    OBVIOUS
  <2>4. /\ one # NoValue => said = {one}
        /\ \A v \in said : one = v /\ v # NoValue
    BY <2>1, <2>2, <2>3, ExactValue
  <2> QED
    BY <2>1, <2>2, <2>3, <2>4
<1>2. applicable = Stating(C, dates, field, t)
  BY <1>1 DEF Stating
<1>3. atMax = Latest(C, dates, field, t)
  BY <1>2 DEF Latest
<1>4. Several(values)
  <2>1. Timeline(C, dates, field, t).outcome = "disagreement" => Several(values)
    BY DEF Timeline
  <2> QED
    BY <2>1
<1>5. \A i \in atMax : distinctExactValues(C[i].facts, field) = {single(i)}
  BY <1>1
<1> HIDE DEF single, atMax
<1>6. PICK w, x \in atMax : single(w) # single(x)
  BY <1>4 DEF Several
<1> QED
  BY <1>3, <1>5, <1>6

\* The latest statements of the other side are those of the same documents.
LEMMA LatestOfPlaces ==
  ASSUME NEW C, NEW D, NEW p, Moved(C, D, p), NEW dates, NEW e, Along(C, p, dates, e), NEW field, NEW t
  PROVE  Latest(D, e, field, t) = Places(p, Latest(C, dates, field, t))
<1>1. /\ applicableContracts(D, e, t) = Places(p, applicableContracts(C, dates, t))
      /\ \A i \in DOMAIN C : sortKey(D, e, p[i]) = sortKey(C, dates, i)
  BY PlaceAlone
<1>2. \A i \in DOMAIN C : D[p[i]] = C[i]
  BY DEF Moved
<1>3. applicableContracts(C, dates, t) \subseteq DOMAIN C
  BY DEF applicableContracts
<1>4. Stating(D, e, field, t) = Places(p, Stating(C, dates, field, t))
  BY <1>1, <1>2, <1>3 DEF Stating, Places
<1>5. Stating(C, dates, field, t) \subseteq DOMAIN C
  BY <1>3 DEF Stating
<1>6. PICK S : S = Stating(C, dates, field, t)
  OBVIOUS
<1>7. Latest(D, e, field, t) = {k \in Places(p, S) : \A j \in Places(p, S) : sortKey(D, e, j) <= sortKey(D, e, k)}
  BY <1>4, <1>6 DEF Latest
<1>8. Latest(C, dates, field, t) = {i \in S : \A j \in S : sortKey(C, dates, j) <= sortKey(C, dates, i)}
  BY <1>6 DEF Latest
<1> QED
  BY <1>1, <1>5, <1>6, <1>7, <1>8 DEF Places

\* Two sides of the same documents with the same dates.
Twins(C, D, p, dates, e) ==
  /\ Sided(C) /\ Sided(D) /\ Dated(C, dates) /\ Dated(D, e)
  /\ Moved(C, D, p) /\ Along(C, p, dates, e)

PickedOne(T, S) == \E w \in S : T.at = {w}

\* Two timelines that say the same; of statements that agree either side names one.
SameTimelines(T, U, p, L, C, field) ==
  \/ /\ T.at = {} /\ U.at = {}
     /\ T.outcome \notin {"value", "disagreement"} /\ U.outcome \notin {"value", "disagreement"}
  \/ /\ T.outcome = "disagreement" /\ U.outcome = "disagreement"
     /\ T.at = L /\ U.at = Places(p, T.at) /\ \E w \in T.at : TRUE
  \/ /\ T.outcome = "value" /\ U.outcome = "value"
     /\ \E w, x \in L :
          /\ T.at = {w} /\ U.at = {p[x]}
          /\ distinctExactValues(C[w].facts, field) = distinctExactValues(C[x].facts, field)

LEMMA TimelineOfPlaces ==
  ASSUME NEW C, NEW D, NEW p, NEW dates, NEW e, Twins(C, D, p, dates, e), NEW field, field # "employer", NEW t \in Nat,
         NEW T, T = Timeline(C, dates, field, t), NEW U, U = Timeline(D, e, field, t)
  PROVE  SameTimelines(T, U, p, Latest(C, dates, field, t), C, field)
<1>1. /\ Sided(C) /\ Sided(D) /\ Dated(C, dates) /\ Dated(D, e) /\ Moved(C, D, p) /\ Along(C, p, dates, e)
  BY DEF Twins
<1>2. PICK L : L = Latest(C, dates, field, t)
  OBVIOUS
<1>3. Latest(D, e, field, t) = Places(p, L)
  BY <1>1, <1>2, LatestOfPlaces
<1>4. L \subseteq DOMAIN C /\ \A i \in L : D[p[i]] = C[i]
  BY <1>1, <1>2 DEF Latest, Stating, applicableContracts, Moved
<1>5. Stating(C, dates, field, t) = {} => L = {}
  BY <1>2 DEF Latest
<1>6. Stating(D, e, field, t) = {} => Places(p, L) = {}
  BY <1>3 DEF Latest
<1>7. (\E i \in L : TRUE) <=> \E k \in Places(p, L) : TRUE
  BY DEF Places
<1>8. \/ /\ Stating(C, dates, field, t) = {} /\ T.at = {} /\ T.outcome \notin {"value", "disagreement"}
      \/ /\ T.outcome = "value" /\ \E w \in L : T.at = {w}
         /\ \A i, j \in L : distinctExactValues(C[i].facts, field) = distinctExactValues(C[j].facts, field)
      \/ /\ T.outcome = "disagreement" /\ T.at = L /\ \E w \in L : TRUE
  BY <1>1, <1>2, TimelineOf
<1>9. \/ /\ Stating(D, e, field, t) = {} /\ U.at = {} /\ U.outcome \notin {"value", "disagreement"}
      \/ /\ U.outcome = "value" /\ \E w \in Places(p, L) : U.at = {w}
         /\ \A i, j \in Places(p, L) : distinctExactValues(D[i].facts, field) = distinctExactValues(D[j].facts, field)
      \/ /\ U.outcome = "disagreement" /\ U.at = Places(p, L) /\ \E w \in Places(p, L) : TRUE
  BY <1>1, <1>3, TimelineOf
<1>10. T.outcome = "disagreement" =>
         \E w, x \in L : distinctExactValues(C[w].facts, field) # distinctExactValues(C[x].facts, field)
  BY <1>1, <1>2, DisagreementOf
<1>11. U.outcome = "disagreement" =>
         \E w, x \in Places(p, L) : distinctExactValues(D[w].facts, field) # distinctExactValues(D[x].facts, field)
  BY <1>1, <1>3, DisagreementOf
<1>12. T.outcome = "value" => U.outcome # "disagreement"
  BY <1>4, <1>8, <1>11 DEF Places
<1>13. U.outcome = "value" => T.outcome # "disagreement"
  <2> SUFFICES ASSUME U.outcome = "value", T.outcome = "disagreement"
               PROVE  FALSE
    OBVIOUS
  <2>1. PICK w, x \in L : distinctExactValues(C[w].facts, field) # distinctExactValues(C[x].facts, field)
    BY <1>10
  <2>2. p[w] \in Places(p, L) /\ p[x] \in Places(p, L) /\ D[p[w]] = C[w] /\ D[p[x]] = C[x]
    BY <1>4 DEF Places
  <2> QED
    BY <1>9, <2>1, <2>2
<1>14. CASE L = {}
  BY <1>2, <1>7, <1>8, <1>9, <1>14 DEF SameTimelines
<1>15. CASE L # {} /\ T.outcome = "disagreement"
  BY <1>2, <1>5, <1>6, <1>7, <1>8, <1>9, <1>13, <1>15 DEF SameTimelines
<1>16. CASE L # {} /\ T.outcome # "disagreement"
  <2>1. T.outcome = "value" /\ PickedOne(T, L)
    BY <1>5, <1>8, <1>16 DEF PickedOne
  <2>2. U.outcome = "value" /\ PickedOne(U, Places(p, L))
    BY <1>6, <1>7, <1>9, <1>12, <1>16, <2>1 DEF PickedOne
  <2>3. PICK w \in L : T.at = {w}
    BY <2>1 DEF PickedOne
  <2>4. PICK x \in L : U.at = {p[x]}
    BY <2>2 DEF PickedOne, Places
  <2>5. distinctExactValues(C[w].facts, field) = distinctExactValues(C[x].facts, field)
    BY <1>8, <2>1, <2>3
  <2> QED
    BY <1>2, <2>1, <2>2, <2>3, <2>4, <2>5 DEF SameTimelines
<1> QED
  BY <1>14, <1>15, <1>16

\* The regime of a timeline starts on the date of its statements, when that is the date of an annex.
LEMMA StartKey ==
  ASSUME NEW C, Sided(C), NEW dates, Dated(C, dates), NEW t \in Nat, NEW field,
         NEW T, \A i \in T.at : i \in Latest(C, dates, field, t), NEW w \in T.at,
         NEW start, start = regimeStart(C, dates, T)
  PROVE  start.date = sortKey(C, dates, w) /\ (start = NoBound <=> sortKey(C, dates, w) = NoDate)
<1> DEFINE starts == {i \in T.at : isAnnex(C[i])}
<1>1. \A i \in T.at : /\ i \in applicableContracts(C, dates, t)
                      /\ sortKey(C, dates, i) \in Nat
                      /\ \A j \in T.at : sortKey(C, dates, j) <= sortKey(C, dates, i)
  BY SortKeys DEF Latest, Stating
<1>2. \A i \in T.at : sortKey(C, dates, i) = sortKey(C, dates, w)
  BY <1>1
<1>3. \A i \in starts : sortKey(C, dates, i) # NoDate
  BY <1>1 DEF applicableContracts, sortKey, hasUsableDate
<1>4. CASE ~isAnnex(C[w])
  <2>1. sortKey(C, dates, w) = NoDate
    BY <1>4 DEF sortKey
  <2>2. starts = {}
    BY <1>2, <1>3, <2>1
  <2>3. start = NoBound
    BY <2>2 DEF regimeStart
  <2> QED
    BY <2>1, <2>3 DEF NoBound
<1>5. CASE isAnnex(C[w])
  <2>1. start # NoBound /\ start.date = sortKey(C, dates, w)
    BY <1>5, RegimeStart
  <2>2. sortKey(C, dates, w) # NoDate
    BY <1>3, <1>5
  <2> QED
    BY <2>1, <2>2
<1> QED
  BY <1>4, <1>5

\* The regime starts on the same date.
LEMMA StartOfPlaces ==
  ASSUME NEW C, NEW D, NEW p, NEW dates, NEW e, Twins(C, D, p, dates, e), NEW field, field # "employer", NEW t \in Nat,
         NEW T, T = Timeline(C, dates, field, t), NEW U, U = Timeline(D, e, field, t),
         NEW X, X = regimeStart(C, dates, T), NEW Y, Y = regimeStart(D, e, U)
  PROVE  X.date = Y.date /\ (X = NoBound <=> Y = NoBound)
<1>1. /\ Sided(C) /\ Sided(D) /\ Dated(C, dates) /\ Dated(D, e) /\ Moved(C, D, p) /\ Along(C, p, dates, e)
  BY DEF Twins
<1>2. PICK L : L = Latest(C, dates, field, t)
  OBVIOUS
<1>3. Latest(D, e, field, t) = Places(p, L)
  BY <1>1, <1>2, LatestOfPlaces
<1>4. \A i \in L : sortKey(D, e, p[i]) = sortKey(C, dates, i)
  <2>1. \A i \in DOMAIN C : sortKey(D, e, p[i]) = sortKey(C, dates, i)
    BY <1>1, PlaceAlone
  <2> QED
    BY <1>2, <2>1 DEF Latest, Stating, applicableContracts
<1>5. \A i, j \in L : sortKey(C, dates, i) = sortKey(C, dates, j)
  <2>1. \A i \in L : sortKey(C, dates, i) \in Nat /\ \A j \in L : sortKey(C, dates, j) <= sortKey(C, dates, i)
    BY <1>1, <1>2, SortKeys DEF Latest, Stating
  <2> QED
    BY <2>1
<1>6. CASE T.at = {} /\ U.at = {}
  BY <1>6 DEF regimeStart
<1>7. ASSUME NEW w \in T.at, NEW x \in L, p[x] \in U.at, T.at \subseteq L, U.at \subseteq Places(p, L)
      PROVE  X.date = Y.date /\ (X = NoBound <=> Y = NoBound)
  <2>1. X.date = sortKey(C, dates, w) /\ (X = NoBound <=> sortKey(C, dates, w) = NoDate)
    BY <1>1, <1>2, <1>7, StartKey
  <2>2. PICK y : y = p[x]
    OBVIOUS
  <2>3. Y.date = sortKey(D, e, y) /\ (Y = NoBound <=> sortKey(D, e, y) = NoDate)
    <3>1. y \in U.at /\ \A i \in U.at : i \in Latest(D, e, field, t)
      BY <1>3, <1>7, <2>2
    <3> QED
      BY <1>1, <3>1, StartKey
  <2>4. sortKey(D, e, y) = sortKey(C, dates, w)
    BY <1>4, <1>5, <1>7, <2>2
  <2> QED
    BY <2>1, <2>3, <2>4
<1>8. CASE T.at = L /\ U.at = Places(p, T.at) /\ \E w \in T.at : TRUE
  <2>1. PICK w \in T.at : TRUE
    BY <1>8
  <2>2. w \in L /\ p[w] \in U.at /\ T.at \subseteq L /\ U.at \subseteq Places(p, L)
    BY <1>8 DEF Places
  <2> QED
    BY <1>7, <2>2
<1>9. CASE \E w, x \in L : T.at = {w} /\ U.at = {p[x]}
  <2>1. PICK w, x \in L : T.at = {w} /\ U.at = {p[x]}
    BY <1>9
  <2>2. w \in T.at /\ p[x] \in U.at /\ T.at \subseteq L /\ U.at \subseteq Places(p, L)
    BY <2>1 DEF Places
  <2> QED
    BY <1>7, <2>2
<1>10. SameTimelines(T, U, p, L, C, field)
  BY <1>2, TimelineOfPlaces
<1> QED
  BY <1>6, <1>8, <1>9, <1>10 DEF SameTimelines

\* No value stands once clearly and once not.
ClearDocument(d) ==
  \A f, g \in d.facts : f.field = g.field /\ f.status = "exact" => g.status \notin {"ambiguous", "implausible"}
Silent(C, dates, field, i) ==
  factEvidence(C[i], dates[i], {f \in occurrences(C[i].facts, field) : f.status # "exact"}) = Nothing

\* A document that states a field clearly adds nothing unclear.
LEMMA ClearStatement ==
  ASSUME NEW C, NEW dates, NEW field, NEW i, C[i] \in Readings, ClearDocument(C[i]),
         distinctExactValues(C[i].facts, field) # {}
  PROVE  Silent(C, dates, field, i)
<1>1. PICK d : d = C[i]
  OBVIOUS
<1>2. \A f, g \in d.facts : f.field = g.field /\ f.status = "contradiction" => g.status # "exact"
  BY <1>1, ReadingsAssumption
<1>3. PICK f \in d.facts : f.field = field /\ f.status = "exact"
  BY <1>1 DEF distinctExactValues, occurrences
<1>4. PICK unclear : unclear = {g \in occurrences(d.facts, field) : g.status # "exact"}
  OBVIOUS
<1>5. \A g \in unclear : g.status \notin {"exact", "contradiction", "ambiguous", "implausible"}
  BY <1>1, <1>2, <1>3, <1>4 DEF ClearDocument, occurrences
<1>6. /\ {g \in unclear : g.status \in {"exact", "contradiction"} /\ g.value # NoValue} = {}
      /\ {g \in unclear : g.status = "ambiguous"} = {} /\ {g \in unclear : g.status = "implausible"} = {}
  BY <1>5
<1>7. factEvidence(d, dates[i], unclear) = Nothing
  BY <1>6 DEF factEvidence, Nothing, Found
<1> QED
  BY <1>1, <1>4, <1>7 DEF Silent

\* What adds nothing can be left out.
LEMMA WithoutSilent ==
  ASSUME NEW C, NEW dates, NEW field, NEW S, NEW Q, \A i \in Q : Silent(C, dates, field, i)
  PROVE  unclearEvidence(C, dates, field, S \ Q) = unclearEvidence(C, dates, field, S)
<1> DEFINE other(i) == factEvidence(C[i], dates[i], {f \in occurrences(C[i].facts, field) : f.status # "exact"})
<1>1. \A i \in Q : other(i).candidates = {} /\ other(i).excluded = {}
  BY DEF Silent, Nothing, Found
<1>2. \A R : unclearEvidence(C, dates, field, R) = Found(UNION {other(i).candidates : i \in R}, UNION {other(i).excluded : i \in R})
  <2> TAKE R
  <2>1. unclearEvidence(C, dates, field, R) = Together({other(i) : i \in R})
    BY DEF unclearEvidence
  <2> HIDE DEF other
  <2>2. UNION {x.candidates : x \in {other(i) : i \in R}} = UNION {other(i).candidates : i \in R}
    OBVIOUS
  <2>3. UNION {x.excluded : x \in {other(i) : i \in R}} = UNION {other(i).excluded : i \in R}
    OBVIOUS
  <2> QED
    BY <2>1, <2>2, <2>3 DEF Together
<1> HIDE DEF other
<1>3. UNION {other(i).candidates : i \in S \ Q} = UNION {other(i).candidates : i \in S}
  BY <1>1
<1>4. UNION {other(i).excluded : i \in S \ Q} = UNION {other(i).excluded : i \in S}
  BY <1>1
<1> QED
  BY <1>2, <1>3, <1>4

\* The documents and the values of the evidence offered.
SourcesOf(e) == {c.doc : c \in e.candidates}
ValuesOf(e) == {c.value : c \in e.candidates}

\* The documents in force at or after the one that won.
Others(C, dates, T, t) == applicableContracts(C, dates, t) \ (T.at \cup undatedAnnexes(C, dates))
WinnerKey(C, dates, T) == IF T.outcome = "value" THEN sortKey(C, dates, CHOOSE i \in T.at : TRUE) ELSE NoDate
Later(C, dates, T, t) == {i \in Others(C, dates, T, t) : sortKey(C, dates, i) >= WinnerKey(C, dates, T)}

LEMMA VariantOffers ==
  ASSUME NEW C, NEW dates, NEW field, NEW t, NEW V, V = variantEvidence(C, dates, field, t),
         NEW T, T = Timeline(C, dates, field, t), NEW later, later = Later(C, dates, T, t)
  PROVE  /\ V.candidates = exactEvidence(C, dates, field, T.at) \cup unclearEvidence(C, dates, field, later).candidates
         /\ V.forced = forcedBy(C, dates, field, t, T, later)
         /\ V.start = regimeStart(C, dates, T) /\ V.end = regimeEnd(C, dates, field, t)
<1>1. PICK start : start = regimeStart(C, dates, T)
  OBVIOUS
<1>2. PICK others : others = Others(C, dates, T, t)
  OBVIOUS
<1>3. V = evidenceAlong(C, dates, field, t, T, others, start)
  BY <1>1, <1>2 DEF variantEvidence, evidenceOfTimeline, Others
<1>4. later = {i \in others : sortKey(C, dates, i) >= (IF T.outcome = "value" THEN sortKey(C, dates, CHOOSE i_1 \in T.at : TRUE) ELSE NoDate)}
  BY <1>2 DEF Later, WinnerKey
<1> QED
  BY <1>1, <1>3, <1>4 DEF evidenceAlong

\* What is forced on a reading depends on its outcome and on whether a later document is unclear.
LEMMA ForcedCode ==
  ASSUME NEW C, NEW dates, NEW field, NEW t, NEW T, NEW later, NEW F, F = forcedBy(C, dates, field, t, T, later)
  PROVE  /\ F.code = IF T.outcome = "disagreement" THEN "timeline_disagreement"
                     ELSE IF T.outcome = "value" /\ \E i \in later : Unclear(C, dates, field, i) THEN "later_document_unclear"
                     ELSE "none"
         /\ F = NoReason <=> F.code = "none"
<1> DEFINE unclear == {i \in later : unclearEvidence(C, dates, field, {i}).excluded # {}}
           at == firstEarliest(C, dates, unclear)
<1>1. F = CASE T.outcome = "disagreement" -> [code |-> "timeline_disagreement", doc |-> 0, date |-> t]
            [] T.outcome = "value" /\ unclear # {} ->
                 [code |-> "later_document_unclear", doc |-> C[at].id, date |-> sortKey(C, dates, at)]
            [] OTHER -> NoReason
  BY DEF forcedBy
<1>2. unclear # {} <=> \E i \in later : Unclear(C, dates, field, i)
  BY DEF Unclear
<1> HIDE DEF unclear, at
<1> QED
  BY <1>1, <1>2 DEF NoReason

\* Evidence comes from the documents it is taken from.
LEMMA ContractSources ==
  ASSUME NEW C, NEW dates, NEW field, NEW S
  PROVE  /\ \A c \in exactEvidence(C, dates, field, S) : \E i \in S : c.doc = C[i].id
         /\ \A c \in unclearEvidence(C, dates, field, S).candidates : \E i \in S : c.doc = C[i].id
<1>1. \A d, date, said : \A c \in factEvidence(d, date, said).candidates : c.doc = d.id
  BY DEF factEvidence, Found, Evidence
<1> DEFINE clear(i) == factEvidence(C[i], dates[i], {f \in occurrences(C[i].facts, field) : f.status = "exact"})
           other(i) == factEvidence(C[i], dates[i], {f \in occurrences(C[i].facts, field) : f.status # "exact"})
<1>2. exactEvidence(C, dates, field, S) = UNION {clear(i).candidates : i \in S}
  BY DEF exactEvidence
<1>3. unclearEvidence(C, dates, field, S).candidates = UNION {x.candidates : x \in {other(i) : i \in S}}
  BY DEF unclearEvidence, Together, Found
<1>4. \A i : (\A c \in clear(i).candidates : c.doc = C[i].id) /\ (\A c \in other(i).candidates : c.doc = C[i].id)
  BY <1>1
<1> HIDE DEF clear, other
<1> QED
  BY <1>2, <1>3, <1>4

DocsIn(E) == {c.doc : c \in E}
ValuesIn(E) == {c.value : c \in E}

SaidBy(C, field, i) == distinctExactValues(C[i].facts, field)
OnlyId(C, i) == {C[i].id}

\* The clear evidence of one document is of that document and of what it states.
LEMMA ExactOfOne ==
  ASSUME NEW C, NEW dates, NEW field, NEW w, NEW v \in SaidBy(C, field, w),
         NEW S, S = {w}, NEW E, E = exactEvidence(C, dates, field, S)
  PROVE  DocsIn(E) = OnlyId(C, w) /\ ValuesIn(E) = SaidBy(C, field, w)
<1>1. /\ \A i \in S : \A u \in distinctExactValues(C[i].facts, field) : \E c \in E : c.doc = C[i].id /\ c.value = u
      /\ \A c \in E : \E i \in S : c.value \in distinctExactValues(C[i].facts, field)
  BY ExactEvidence
<1>2. \A c \in E : c.doc = C[w].id
  BY ContractSources
<1>3. PICK said : said = distinctExactValues(C[w].facts, field)
  OBVIOUS
<1>4. \A u \in said : \E c \in E : c.value = u
  BY <1>1, <1>3
<1>5. \A c \in E : c.value \in said
  BY <1>1, <1>3
<1>6. ValuesIn(E) = said
  BY <1>4, <1>5 DEF ValuesIn
<1>7. \E c \in E : TRUE
  BY <1>3, <1>4 DEF SaidBy
<1>8. DocsIn(E) = OnlyId(C, w)
  BY <1>2, <1>7 DEF DocsIn, OnlyId
<1> QED
  BY <1>3, <1>6, <1>8 DEF SaidBy

\* Two sets of documents that differ in one document at most, taken from `ids'.
SameSources(A, B, ids) ==
  /\ A \subseteq ids /\ B \subseteq ids
  /\ A = B \/ \E R, a, b : a \notin R /\ b \notin R /\ A = R \cup {a} /\ B = R \cup {b}
SameBound(X, Y) == X.date = Y.date /\ (X = NoBound <=> Y = NoBound)

\* Evidence that resolves to the same.
Alike(V, W, ids) ==
  /\ ValuesOf(V) = ValuesOf(W) /\ SameSources(SourcesOf(V), SourcesOf(W), ids)
  /\ V.forced.code = W.forced.code /\ (V.forced = NoReason <=> W.forced = NoReason)
  /\ SameBound(V.start, W.start) /\ SameBound(V.end, W.end)

IdsOf(C) == {C[i].id : i \in DOMAIN C}

\* The offers of two timelines with the same statements and the same later documents.
LEMMA OffersAlike ==
  ASSUME NEW C, NEW D, NEW p, NEW dates, NEW e, Twins(C, D, p, dates, e), NEW field, field # "employer", NEW t \in Nat,
         NEW V, V = variantEvidence(C, dates, field, t), NEW W, W = variantEvidence(D, e, field, t),
         NEW T, T = Timeline(C, dates, field, t), NEW U, U = Timeline(D, e, field, t), T.outcome # "value", U.outcome # "value",
         T.outcome = "disagreement" <=> U.outcome = "disagreement",
         T.at \subseteq DOMAIN C, U.at = Places(p, T.at)
  PROVE  Alike(V, W, IdsOf(C))
<1>1. /\ Sided(C) /\ Sided(D) /\ Dated(C, dates) /\ Dated(D, e) /\ Moved(C, D, p) /\ Along(C, p, dates, e)
  BY DEF Twins
<1>2. PICK later : later = Later(C, dates, T, t)
  OBVIOUS
<1>3. PICK after : after = Later(D, e, U, t)
  OBVIOUS
<1>4. after = Places(p, later) /\ later \in SUBSET DOMAIN C
  <2>1. /\ applicableContracts(D, e, t) = Places(p, applicableContracts(C, dates, t))
        /\ undatedAnnexes(D, e) = Places(p, undatedAnnexes(C, dates))
        /\ \A i \in DOMAIN C : sortKey(D, e, p[i]) = sortKey(C, dates, i)
    BY <1>1, PlaceAlone
  <2>2. applicableContracts(C, dates, t) \subseteq DOMAIN C /\ undatedAnnexes(C, dates) \subseteq DOMAIN C
    BY DEF applicableContracts, undatedAnnexes
  <2>3. \A i, j \in DOMAIN C : p[i] = p[j] => i = j
    BY <1>1 DEF Moved
  <2>4. Others(D, e, U, t) = Places(p, Others(C, dates, T, t))
    BY <2>1, <2>2, <2>3 DEF Others, Places
  <2>5. Others(C, dates, T, t) \subseteq DOMAIN C
    BY <2>2 DEF Others
  <2>6. WinnerKey(C, dates, T) = NoDate /\ WinnerKey(D, e, U) = NoDate
    BY DEF WinnerKey
  <2> QED
    BY <1>2, <1>3, <2>1, <2>4, <2>5, <2>6 DEF Later, Places
<1>5. exactEvidence(D, e, field, U.at) = exactEvidence(C, dates, field, T.at)
  BY <1>1, EvidenceOfPlaces
<1>6. unclearEvidence(D, e, field, after) = unclearEvidence(C, dates, field, later)
  BY <1>1, <1>4, EvidenceOfPlaces
<1>7. V.candidates = exactEvidence(C, dates, field, T.at) \cup unclearEvidence(C, dates, field, later).candidates
  BY <1>2, VariantOffers
<1>8. W.candidates = exactEvidence(D, e, field, U.at) \cup unclearEvidence(D, e, field, after).candidates
  BY <1>3, VariantOffers
<1>9. V.candidates = W.candidates
  BY <1>5, <1>6, <1>7, <1>8
<1>10. SourcesOf(V) \subseteq IdsOf(C)
  <2>1. \A c \in exactEvidence(C, dates, field, T.at) : c.doc \in IdsOf(C)
    BY ContractSources DEF IdsOf
  <2>2. \A c \in unclearEvidence(C, dates, field, later).candidates : c.doc \in IdsOf(C)
    BY <1>4, ContractSources DEF IdsOf
  <2> QED
    BY <1>7, <2>1, <2>2 DEF SourcesOf
<1>11. V.forced = forcedBy(C, dates, field, t, T, later) /\ W.forced = forcedBy(D, e, field, t, U, after)
  BY <1>2, <1>3, VariantOffers
<1>12. V.forced.code = W.forced.code /\ (V.forced = NoReason <=> W.forced = NoReason)
  <2>1. /\ V.forced.code = IF T.outcome = "disagreement" THEN "timeline_disagreement" ELSE "none"
        /\ V.forced = NoReason <=> V.forced.code = "none"
    BY <1>11, ForcedCode
  <2>2. /\ W.forced.code = IF U.outcome = "disagreement" THEN "timeline_disagreement" ELSE "none"
        /\ W.forced = NoReason <=> W.forced.code = "none"
    BY <1>11, ForcedCode
  <2> QED
    BY <2>1, <2>2
<1>13. SameBound(V.start, W.start)
  <2>1. V.start = regimeStart(C, dates, T) /\ W.start = regimeStart(D, e, U)
    BY VariantOffers
  <2> QED
    BY <2>1, StartOfPlaces DEF SameBound
<1>14. SameBound(V.end, W.end)
  <2>1. V.end = regimeEnd(C, dates, field, t) /\ W.end = regimeEnd(D, e, field, t)
    BY VariantOffers
  <2> QED
    BY <1>1, <2>1, EndOfPlaces DEF SameBound
<1> QED
  BY <1>9, <1>10, <1>12, <1>13, <1>14 DEF Alike, SameSources, SourcesOf, ValuesOf

ClearSide(C) == \A i \in DOMAIN C : ClearDocument(C[i])
DistinctIds(C) == \A i, j \in DOMAIN C : C[i].id = C[j].id => i = j

\* The later documents of two timelines whose winners are of one date, but for the winners.
LEMMA LaterOfPlaces ==
  ASSUME NEW C, NEW D, NEW p, NEW dates, NEW e, Twins(C, D, p, dates, e), NEW t \in Nat,
         NEW T, NEW U, T.outcome = "value", U.outcome = "value",
         NEW w \in DOMAIN C, NEW x \in DOMAIN C, T.at = {w}, U.at = {p[x]}, sortKey(C, dates, w) = sortKey(C, dates, x)
  PROVE  Later(D, e, U, t) \ {p[w], p[x]} = Places(p, Later(C, dates, T, t) \ {w, x})
<1>1. Moved(C, D, p) /\ Along(C, p, dates, e)
  BY DEF Twins
<1>2. PICK inForce : inForce = applicableContracts(C, dates, t) \ undatedAnnexes(C, dates)
  OBVIOUS
<1>3. inForce \subseteq DOMAIN C
  BY <1>2 DEF applicableContracts
<1>4. \A i \in DOMAIN C : sortKey(D, e, p[i]) = sortKey(C, dates, i)
  BY <1>1, PlaceAlone
<1>5. \A i, j \in DOMAIN C : p[i] = p[j] => i = j
  BY <1>1 DEF Moved
<1>6. applicableContracts(D, e, t) \ undatedAnnexes(D, e) = Places(p, inForce)
  <2>1. /\ applicableContracts(D, e, t) = Places(p, applicableContracts(C, dates, t))
        /\ undatedAnnexes(D, e) = Places(p, undatedAnnexes(C, dates))
    BY <1>1, PlaceAlone
  <2>2. applicableContracts(C, dates, t) \subseteq DOMAIN C /\ undatedAnnexes(C, dates) \subseteq DOMAIN C
    BY DEF applicableContracts, undatedAnnexes
  <2> QED
    BY <1>2, <1>5, <2>1, <2>2 DEF Places
<1>7. PICK k : k = sortKey(C, dates, w)
  OBVIOUS
<1>8. WinnerKey(C, dates, T) = k /\ WinnerKey(D, e, U) = k
  <2>1. (CHOOSE i \in T.at : TRUE) = w /\ (CHOOSE i \in U.at : TRUE) = p[x]
    OBVIOUS
  <2> QED
    BY <1>4, <1>7, <2>1 DEF WinnerKey
<1>9. Later(C, dates, T, t) = {i \in inForce \ {w} : sortKey(C, dates, i) >= k}
  BY <1>2, <1>8 DEF Later, Others
<1>10. Later(D, e, U, t) = {i \in Places(p, inForce) \ {p[x]} : sortKey(D, e, i) >= k}
  BY <1>6, <1>8 DEF Later, Others
<1> QED
  BY <1>3, <1>4, <1>5, <1>9, <1>10 DEF Places

LEMMA SilentNotUnclear ==
  ASSUME NEW C, NEW dates, NEW field, NEW i, Silent(C, dates, field, i)
  PROVE  ~Unclear(C, dates, field, i)
<1>1. unclearEvidence(C, dates, field, {i} \ {i}) = unclearEvidence(C, dates, field, {i})
  BY WithoutSilent
<1>2. unclearEvidence(C, dates, field, {i} \ {i}).excluded = {}
  BY DEF unclearEvidence, Together, Found
<1> QED
  BY <1>1, <1>2 DEF Unclear

Won(T, w) == T.outcome = "value" /\ T.at = {w}

\* Of statements that agree it does not matter which one stands for them.
LEMMA WinnersAlike ==
  ASSUME NEW C, NEW D, NEW p, NEW dates, NEW e, Twins(C, D, p, dates, e), ClearSide(C), DistinctIds(C),
         NEW field, field # "employer", NEW t \in Nat,
         NEW V, V = variantEvidence(C, dates, field, t), NEW W, W = variantEvidence(D, e, field, t),
         NEW T, T = Timeline(C, dates, field, t), NEW U, U = Timeline(D, e, field, t),
         NEW w \in Latest(C, dates, field, t), NEW x \in Latest(C, dates, field, t),
         Won(T, w), Won(U, p[x]), SaidBy(C, field, w) = SaidBy(C, field, x)
  PROVE  Alike(V, W, IdsOf(C))
<1>1. /\ Sided(C) /\ Sided(D) /\ Dated(C, dates) /\ Dated(D, e) /\ Moved(C, D, p) /\ Along(C, p, dates, e)
  BY DEF Twins
<1>2. /\ w \in DOMAIN C /\ distinctExactValues(C[w].facts, field) # {}
      /\ x \in DOMAIN C /\ distinctExactValues(C[x].facts, field) # {}
  BY DEF Latest, Stating, applicableContracts
<1>3. sortKey(C, dates, w) = sortKey(C, dates, x)
  <2>1. /\ sortKey(C, dates, w) \in Nat /\ sortKey(C, dates, x) \in Nat
        /\ sortKey(C, dates, w) <= sortKey(C, dates, x) /\ sortKey(C, dates, x) <= sortKey(C, dates, w)
    BY <1>1, SortKeys DEF Latest, Stating
  <2> QED
    BY <2>1
<1>4. Silent(C, dates, field, w) /\ Silent(C, dates, field, x)
  BY <1>1, <1>2, ClearStatement DEF Sided, ClearSide
<1>5. /\ D[p[w]] = C[w] /\ e[p[w]] = dates[w] /\ D[p[x]] = C[x] /\ e[p[x]] = dates[x]
      /\ \A i, j \in DOMAIN C : p[i] = p[j] => i = j
  BY <1>1, <1>2 DEF Moved, Along
<1>6. Silent(D, e, field, p[w]) /\ Silent(D, e, field, p[x])
  BY <1>4, <1>5 DEF Silent
<1>7. PICK later : later = Later(C, dates, T, t)
  OBVIOUS
<1>8. PICK after : after = Later(D, e, U, t)
  OBVIOUS
<1>9. PICK rest : rest = later \ {w, x}
  OBVIOUS
<1>10. after \ {p[w], p[x]} = Places(p, rest) /\ rest \in SUBSET DOMAIN C
  <2>1. after \ {p[w], p[x]} = Places(p, rest)
    <3>1. /\ T.outcome = "value" /\ T.at = {w} /\ w \in DOMAIN C
          /\ U.outcome = "value" /\ U.at = {p[x]} /\ x \in DOMAIN C
      BY <1>2 DEF Won
    <3>2. Later(D, e, U, t) \ {p[w], p[x]} = Places(p, Later(C, dates, T, t) \ {w, x})
      BY <1>3, <3>1, LaterOfPlaces
    <3> QED
      BY <1>7, <1>8, <1>9, <3>2
  <2>2. rest \subseteq DOMAIN C
    BY <1>7, <1>9 DEF Later, Others, applicableContracts
  <2> QED
    BY <2>1, <2>2
<1>11. PICK found : found = unclearEvidence(C, dates, field, rest)
  OBVIOUS
<1>12. unclearEvidence(C, dates, field, later) = found
  <2>1. PICK Q : Q = {w, x}
    OBVIOUS
  <2>2. \A i \in Q : Silent(C, dates, field, i)
    BY <1>4, <2>1
  <2>3. unclearEvidence(C, dates, field, later \ Q) = unclearEvidence(C, dates, field, later)
    BY <2>2, WithoutSilent
  <2> QED
    BY <1>9, <1>11, <2>1, <2>3
<1>13. unclearEvidence(D, e, field, after) = found
  <2>1. PICK Q : Q = {p[w], p[x]}
    OBVIOUS
  <2>4. \A i \in Q : Silent(D, e, field, i)
    BY <1>6, <2>1
  <2>2. unclearEvidence(D, e, field, after \ Q) = unclearEvidence(D, e, field, after)
    BY <2>4, WithoutSilent
  <2>3. unclearEvidence(D, e, field, Places(p, rest)) = unclearEvidence(C, dates, field, rest)
    BY <1>1, <1>10, EvidenceOfPlaces
  <2> QED
    BY <1>10, <1>11, <2>1, <2>2, <2>3
<1>14. PICK A : A = exactEvidence(C, dates, field, {w})
  OBVIOUS
<1>15. PICK B : B = exactEvidence(D, e, field, {p[x]})
  OBVIOUS
<1>16. DocsIn(A) = OnlyId(C, w) /\ ValuesIn(A) = SaidBy(C, field, w)
  <2>1. PICK S : S = {w}
    OBVIOUS
  <2>2. A = exactEvidence(C, dates, field, S) /\ \E v : v \in SaidBy(C, field, w)
    BY <1>2, <1>14, <2>1 DEF SaidBy
  <2> QED
    BY <2>1, <2>2, ExactOfOne
<1>17. DocsIn(B) = OnlyId(C, x) /\ ValuesIn(B) = SaidBy(C, field, w)
  <2>1. PICK y : y = p[x]
    OBVIOUS
  <2>2. PICK S : S = {y}
    OBVIOUS
  <2>3. SaidBy(D, field, y) = SaidBy(C, field, x) /\ OnlyId(D, y) = OnlyId(C, x)
    BY <1>5, <2>1 DEF SaidBy, OnlyId
  <2>4. B = exactEvidence(D, e, field, S) /\ \E v : v \in SaidBy(D, field, y)
    BY <1>2, <1>15, <2>1, <2>2, <2>3 DEF SaidBy
  <2>5. DocsIn(B) = OnlyId(D, y) /\ ValuesIn(B) = SaidBy(D, field, y)
    BY <2>2, <2>4, ExactOfOne
  <2> QED
    BY <2>3, <2>5
<1>18. V.candidates = A \cup found.candidates /\ W.candidates = B \cup found.candidates
  <2>1. V.candidates = exactEvidence(C, dates, field, T.at) \cup unclearEvidence(C, dates, field, later).candidates
    BY <1>7, VariantOffers
  <2>2. W.candidates = exactEvidence(D, e, field, U.at) \cup unclearEvidence(D, e, field, after).candidates
    BY <1>8, VariantOffers
  <2>3. T.at = {w} /\ U.at = {p[x]}
    BY DEF Won
  <2>4. V.candidates = A \cup found.candidates
    BY <1>12, <1>14, <2>1, <2>3
  <2>5. W.candidates = B \cup found.candidates
    BY <1>13, <1>15, <2>2, <2>3
  <2> QED
    BY <2>4, <2>5
<1>19. ValuesOf(V) = ValuesOf(W)
  <2>1. PICK Q : Q = {c.value : c \in found.candidates}
    OBVIOUS
  <2>2. ValuesOf(V) = ValuesIn(A) \cup Q /\ ValuesOf(W) = ValuesIn(B) \cup Q
    BY <1>18, <2>1 DEF ValuesOf, ValuesIn
  <2> QED
    BY <1>16, <1>17, <2>2
<1>20. SameSources(SourcesOf(V), SourcesOf(W), IdsOf(C))
  <2>1. PICK R : R = {c.doc : c \in found.candidates}
    OBVIOUS
  <2>2. SourcesOf(V) = R \cup {C[w].id} /\ SourcesOf(W) = R \cup {C[x].id}
    BY <1>16, <1>17, <1>18, <2>1 DEF SourcesOf, DocsIn, OnlyId
  <2>3. \A y \in R : \E i \in rest : y = C[i].id
    BY <1>11, <2>1, ContractSources
  <2>4. C[w].id \notin R /\ C[x].id \notin R
    BY <1>2, <1>9, <1>10, <2>3 DEF DistinctIds
  <2>5. R \subseteq IdsOf(C) /\ C[w].id \in IdsOf(C) /\ C[x].id \in IdsOf(C)
    BY <1>2, <1>10, <2>3 DEF IdsOf
  <2> QED
    BY <2>2, <2>4, <2>5 DEF SameSources
<1>21. (\E i \in later : Unclear(C, dates, field, i)) <=> \E i \in after : Unclear(D, e, field, i)
  <2>1. \A i \in DOMAIN C : Unclear(D, e, field, p[i]) <=> Unclear(C, dates, field, i)
    <3> TAKE i \in DOMAIN C
    <3>1. PICK S \in SUBSET DOMAIN C : S = {i}
      OBVIOUS
    <3>2. Places(p, S) = {p[i]}
      BY <3>1 DEF Places
    <3>3. unclearEvidence(D, e, field, Places(p, S)) = unclearEvidence(C, dates, field, S)
      BY <1>1, EvidenceOfPlaces
    <3> QED
      BY <3>1, <3>2, <3>3 DEF Unclear
  <2>2. /\ ~Unclear(C, dates, field, w) /\ ~Unclear(C, dates, field, x)
        /\ ~Unclear(D, e, field, p[w]) /\ ~Unclear(D, e, field, p[x])
    BY <1>4, <1>6, SilentNotUnclear
  <2> QED
    BY <1>9, <1>10, <2>1, <2>2 DEF Places
<1>22. V.forced.code = W.forced.code /\ (V.forced = NoReason <=> W.forced = NoReason)
  <2>1. V.forced = forcedBy(C, dates, field, t, T, later) /\ W.forced = forcedBy(D, e, field, t, U, after)
    BY <1>7, <1>8, VariantOffers
  <2>2. /\ V.forced.code = IF \E i \in later : Unclear(C, dates, field, i) THEN "later_document_unclear" ELSE "none"
        /\ V.forced = NoReason <=> V.forced.code = "none"
    BY <2>1, ForcedCode DEF Won
  <2>3. /\ W.forced.code = IF \E i \in after : Unclear(D, e, field, i) THEN "later_document_unclear" ELSE "none"
        /\ W.forced = NoReason <=> W.forced.code = "none"
    BY <2>1, ForcedCode DEF Won
  <2> QED
    BY <1>21, <2>2, <2>3
<1>23. SameBound(V.start, W.start)
  <2>1. V.start = regimeStart(C, dates, T) /\ W.start = regimeStart(D, e, U)
    BY VariantOffers
  <2> QED
    BY <2>1, StartOfPlaces DEF SameBound
<1>24. SameBound(V.end, W.end)
  <2>1. V.end = regimeEnd(C, dates, field, t) /\ W.end = regimeEnd(D, e, field, t)
    BY VariantOffers
  <2> QED
    BY <1>1, <2>1, EndOfPlaces DEF SameBound
<1> QED
  BY <1>19, <1>20, <1>22, <1>23, <1>24 DEF Alike

\* The evidence of one reading of the dates is alike on both sides.
LEMMA VariantsAlike ==
  ASSUME NEW C, NEW D, NEW p, NEW dates, NEW e, Twins(C, D, p, dates, e), ClearSide(C), DistinctIds(C),
         NEW field, field # "employer", NEW t \in Nat,
         NEW V, V = variantEvidence(C, dates, field, t), NEW W, W = variantEvidence(D, e, field, t)
  PROVE  Alike(V, W, IdsOf(C))
<1>1. PICK T : T = Timeline(C, dates, field, t)
  OBVIOUS
<1>2. PICK U : U = Timeline(D, e, field, t)
  OBVIOUS
<1>3. CASE /\ T.at = {} /\ U.at = {}
           /\ T.outcome \notin {"value", "disagreement"} /\ U.outcome \notin {"value", "disagreement"}
  <2>1. T.at \subseteq DOMAIN C /\ U.at = Places(p, T.at)
    BY <1>3 DEF Places
  <2> QED
    BY <1>1, <1>2, <1>3, <2>1, OffersAlike
<1>4. PICK L : L = Latest(C, dates, field, t)
  OBVIOUS
<1>5. CASE T.outcome = "disagreement" /\ U.outcome = "disagreement" /\ T.at = L /\ U.at = Places(p, T.at)
  <2>1. T.at \subseteq DOMAIN C
    BY <1>4, <1>5 DEF Latest, Stating, applicableContracts
  <2> QED
    BY <1>1, <1>2, <1>5, <2>1, OffersAlike
<1>6. CASE /\ T.outcome = "value" /\ U.outcome = "value"
           /\ \E w, x \in L :
                /\ T.at = {w} /\ U.at = {p[x]}
                /\ distinctExactValues(C[w].facts, field) = distinctExactValues(C[x].facts, field)
  BY <1>1, <1>2, <1>4, <1>6, WinnersAlike DEF Won, SaidBy
<1>7. SameTimelines(T, U, p, L, C, field)
  BY <1>1, <1>2, <1>4, TimelineOfPlaces
<1> QED
  BY <1>3, <1>5, <1>6, <1>7 DEF SameTimelines

\* A payslip falls at the same place in regimes of the same dates.
LEMMA PlacedAlike ==
  ASSUME NEW V, NEW W, NEW ids, Alike(V, W, ids), NEW c
  PROVE  Placement(c, V).code = Placement(c, W).code /\ Placement(c, V).reason = Placement(c, W).reason
<1>1. PICK S : S = V.start
  OBVIOUS
<1>2. PICK S2 : S2 = W.start
  OBVIOUS
<1>3. PICK X : X = V.end
  OBVIOUS
<1>4. PICK X2 : X2 = W.end
  OBVIOUS
<1>5. S.date = S2.date /\ (S = NoBound <=> S2 = NoBound) /\ X.date = X2.date /\ (X = NoBound <=> X2 = NoBound)
  BY <1>1, <1>2, <1>3, <1>4 DEF Alike, SameBound
<1>6. inForceContractValue(V) = inForceContractValue(W)
  <2>1. /\ inForceContractValue(V) = IF V.forced = NoReason /\ Cardinality(ValuesOf(V)) = 1
                                    THEN CHOOSE v \in ValuesOf(V) : TRUE ELSE NoValue
        /\ inForceContractValue(W) = IF W.forced = NoReason /\ Cardinality(ValuesOf(W)) = 1
                                    THEN CHOOSE v \in ValuesOf(W) : TRUE ELSE NoValue
    BY DEF inForceContractValue, ValuesOf
  <2>2. ValuesOf(V) = ValuesOf(W) /\ (V.forced = NoReason <=> W.forced = NoReason)
    BY DEF Alike
  <2> QED
    BY <2>1, <2>2
<1>7. PICK v : v = inForceContractValue(V)
  OBVIOUS
<1> DEFINE from == IF hasUsableDate(c.from) THEN c.from ELSE c.to
           to   == IF hasUsableDate(c.to) THEN c.to ELSE c.from
           code(A, B) ==
             IF (IF A # NoBound THEN A ELSE B) = NoBound THEN "candidate"
             ELSE IF ~hasUsableDate(from) THEN IF c.value = v THEN "value_matches_current_but_period_unknown" ELSE "unplaceable"
             ELSE IF A # NoBound /\ to < A.date THEN "superseded_by"
             ELSE IF B # NoBound /\ from >= B.date THEN "later_than_as_of"
             ELSE IF A # NoBound /\ from < A.date THEN "straddles"
             ELSE IF B # NoBound /\ to >= B.date THEN "straddles"
             ELSE "candidate"
           reason(A, B) ==
             IF (IF A # NoBound THEN A ELSE B) = NoBound THEN "none"
             ELSE IF ~hasUsableDate(from) THEN IF c.value = v THEN "payslip_period_unplaceable" ELSE "none"
             ELSE IF A # NoBound /\ to < A.date THEN "superseded_by_later_document"
             ELSE IF B # NoBound /\ from >= B.date THEN "outside_as_of_regime"
             ELSE IF A # NoBound /\ from < A.date THEN "pay_period_straddles_change"
             ELSE IF B # NoBound /\ to >= B.date THEN "pay_period_straddles_change"
             ELSE "none"
<1>8. Placement(c, V).code = code(S, X) /\ Placement(c, V).reason = reason(S, X)
  BY <1>1, <1>3, <1>7 DEF Placement
<1>9. Placement(c, W).code = code(S2, X2) /\ Placement(c, W).reason = reason(S2, X2)
  BY <1>2, <1>4, <1>6, <1>7 DEF Placement
<1>10. code(S, X) = code(S2, X2)
  BY <1>5
<1>11. reason(S, X) = reason(S2, X2)
  BY <1>5
<1> QED
  BY <1>8, <1>9, <1>10, <1>11

\* Of two sets of sources that differ in one at most, both have several or neither has.
LEMMA AsManySources ==
  ASSUME NEW A, IsFiniteSet(A), NEW B, IsFiniteSet(B), NEW ids, SameSources(A, B, ids)
  PROVE  Cardinality(A) >= 2 <=> Cardinality(B) >= 2
<1>1. ASSUME NEW S, IsFiniteSet(S)
      PROVE  Cardinality(S) >= 2 <=> Several(S)
  <2>1. Cardinality(S) \in Nat
    BY <1>1, FS_CardinalityType
  <2>2. Cardinality(S) = 0 <=> S = {}
    BY <1>1, FS_EmptySet
  <2>3. Cardinality(S) = 1 <=> \E y : S = {y}
    BY <1>1, FS_Singleton
  <2>4. ~Several(S) <=> (S = {} \/ \E y : S = {y})
    BY DEF Several
  <2> QED
    BY <2>1, <2>2, <2>3, <2>4
<1>2. Several(A) <=> Several(B)
  <2>1. CASE A = B
    BY <2>1
  <2>2. ASSUME NEW R, NEW a, NEW b, a \notin R, b \notin R, A = R \cup {a}, B = R \cup {b}
        PROVE  Several(A) <=> Several(B)
    <3>1. Several(A) <=> R # {}
      BY <2>2 DEF Several
    <3>2. Several(B) <=> R # {}
      BY <2>2 DEF Several
    <3> QED
      BY <3>1, <3>2
  <2> QED
    BY <2>1, <2>2 DEF SameSources
<1> QED
  BY <1>1, <1>2

\* Evidence of a field that resolves to the same state and value.
AlikePlaced(P, Q, every) ==
  /\ signature(P) = signature(Q) /\ ValuesOf(P) = ValuesOf(Q) /\ P.forced.code = Q.forced.code
  /\ SameSources(SourcesOf(P), SourcesOf(Q), every)

\* With the payslips placed, evidence that is alike stays so.
LEMMA PlacedEvidence ==
  ASSUME NEW V, NEW W, NEW ids, Alike(V, W, ids), NEW slips, \A c \in slips.candidates : c.doc \notin ids,
         NEW P, P = placePayslipEvidence(V, slips), NEW Q, Q = placePayslipEvidence(W, slips),
         NEW every, ids \subseteq every, SourcesOf(slips) \subseteq every
  PROVE  AlikePlaced(P, Q, every)
<1>1. \A c : Placement(c, V).code = Placement(c, W).code /\ Placement(c, V).reason = Placement(c, W).reason
  BY PlacedAlike
<1>2. PICK within : within = {c \in slips.candidates : Placement(c, V).reason = "none"}
  OBVIOUS
<1>3. P.candidates = V.candidates \cup within
  BY <1>2 DEF placePayslipEvidence
<1>4. Q.candidates = W.candidates \cup within
  BY <1>1, <1>2 DEF placePayslipEvidence
<1>5. ValuesOf(P) = ValuesOf(Q)
  BY <1>3, <1>4 DEF Alike, ValuesOf
<1>6. SameSources(SourcesOf(P), SourcesOf(Q), every)
  <2>1. PICK paid : paid = {c.doc : c \in within}
    OBVIOUS
  <2>2. SourcesOf(P) = SourcesOf(V) \cup paid /\ SourcesOf(Q) = SourcesOf(W) \cup paid
    BY <1>3, <1>4, <2>1 DEF SourcesOf
  <2>3. \A y \in paid : y \notin ids
    BY <1>2, <2>1
  <2>4. PICK A : A = SourcesOf(V)
    OBVIOUS
  <2>5. PICK B : B = SourcesOf(W)
    OBVIOUS
  <2>6. /\ A \subseteq ids /\ B \subseteq ids
        /\ A = B \/ \E R, a, b : a \notin R /\ b \notin R /\ A = R \cup {a} /\ B = R \cup {b}
    BY <2>4, <2>5 DEF Alike, SameSources
  <2>7. A \cup paid = B \cup paid
        \/ \E R, a, b : a \notin R /\ b \notin R /\ A \cup paid = R \cup {a} /\ B \cup paid = R \cup {b}
    <3>1. ASSUME NEW R, NEW a, NEW b, a \notin R, b \notin R, A = R \cup {a}, B = R \cup {b}
          PROVE  \E N, x, y : x \notin N /\ y \notin N /\ A \cup paid = N \cup {x} /\ B \cup paid = N \cup {y}
      <4>1. a \notin R \cup paid /\ b \notin R \cup paid
        BY <2>3, <2>6, <3>1
      <4>2. A \cup paid = (R \cup paid) \cup {a} /\ B \cup paid = (R \cup paid) \cup {b}
        BY <3>1
      <4> QED
        BY <4>1, <4>2
    <3> QED
      BY <2>6, <3>1
  <2>8. paid \subseteq every
    BY <1>2, <2>1 DEF SourcesOf
  <2> QED
    BY <2>2, <2>4, <2>5, <2>6, <2>7, <2>8 DEF SameSources
<1>7. P.forced.code = Q.forced.code
  <2>1. PICK stray : stray = (\E c \in slips.candidates : Placement(c, V).code = "unplaceable")
    OBVIOUS
  <2>2. P.forced.code = IF V.forced # NoReason THEN V.forced.code ELSE IF stray THEN "payslip_period_unplaceable" ELSE "none"
    BY <2>1 DEF placePayslipEvidence, NoReason
  <2>3. Q.forced.code = IF W.forced # NoReason THEN W.forced.code ELSE IF stray THEN "payslip_period_unplaceable" ELSE "none"
    BY <1>1, <2>1 DEF placePayslipEvidence, NoReason
  <2> QED
    BY <2>2, <2>3 DEF Alike
<1>8. P.placements = Q.placements
  <2>1. P.placements = {<<c.doc, Placement(c, V).code>> : c \in slips.candidates}
    BY DEF placePayslipEvidence
  <2>2. Q.placements = {<<c.doc, Placement(c, W).code>> : c \in slips.candidates}
    BY DEF placePayslipEvidence
  <2> QED
    BY <1>1, <2>1, <2>2
<1>9. signature(P) = signature(Q)
  BY <1>5, <1>7, <1>8 DEF signature, ValuesOf
<1> QED
  BY <1>5, <1>6, <1>7, <1>9 DEF AlikePlaced

\* A field is the same when it has the same state and the same value.
SameField(F, G) == F.state = G.state /\ F.value = G.value

\* Evidence of the same values, with a source or several, resolves to the same.
LEMMA ResolvedSame ==
  ASSUME NEW a, NEW b, ValuesOf(a) = ValuesOf(b), NEW forced, NEW imposed, forced.code = imposed.code,
         forced.code = "none" => (Cardinality(SourcesOf(a)) >= 2 <=> Cardinality(SourcesOf(b)) >= 2),
         NEW why, NEW because, NEW regime, NEW span
  PROVE  SameField(resolveField(a, why, forced, regime), resolveField(b, because, imposed, span))
<1>1. PICK values : values = ValuesOf(a)
  OBVIOUS
<1>2. PICK one : one = CHOOSE v \in values : TRUE
  OBVIOUS
<1>3. ASSUME NEW c, NEW reason, NEW force, NEW period, ValuesOf(c) = values,
             NEW F, F = resolveField(c, reason, force, period)
      PROVE  \/ values = {} /\ F.state = "unknown" /\ F.value = NoValue
             \/ values # {} /\ (force.code # "none" \/ Several(values)) /\ F.state = "conflict" /\ F.value = NoValue
             \/ /\ values # {} /\ force.code = "none" /\ ~Several(values) /\ F.value = one
                /\ F.state = IF Cardinality(SourcesOf(c)) >= 2 THEN "corroborated" ELSE "document_exact"
  <2>1. {k.value : k \in c.candidates} = values
    BY <1>3 DEF ValuesOf
  <2>2. CASE values = {}
    BY <1>3, <2>1, <2>2 DEF resolveField
  <2>3. CASE values # {} /\ (force.code # "none" \/ Several(values))
    BY <1>3, <2>1, <2>3 DEF resolveField
  <2>4. CASE values # {} /\ force.code = "none" /\ ~Several(values)
    BY <1>2, <1>3, <2>1, <2>4 DEF resolveField, SourcesOf
  <2> QED
    BY <2>2, <2>3, <2>4
<1>4. PICK F : F = resolveField(a, why, forced, regime)
  OBVIOUS
<1>5. PICK G : G = resolveField(b, because, imposed, span)
  OBVIOUS
<1>6. \/ values = {} /\ F.state = "unknown" /\ F.value = NoValue
      \/ values # {} /\ (forced.code # "none" \/ Several(values)) /\ F.state = "conflict" /\ F.value = NoValue
      \/ /\ values # {} /\ forced.code = "none" /\ ~Several(values) /\ F.value = one
         /\ F.state = IF Cardinality(SourcesOf(a)) >= 2 THEN "corroborated" ELSE "document_exact"
  BY <1>1, <1>3, <1>4
<1>7. \/ values = {} /\ G.state = "unknown" /\ G.value = NoValue
      \/ values # {} /\ (imposed.code # "none" \/ Several(values)) /\ G.state = "conflict" /\ G.value = NoValue
      \/ /\ values # {} /\ imposed.code = "none" /\ ~Several(values) /\ G.value = one
         /\ G.state = IF Cardinality(SourcesOf(b)) >= 2 THEN "corroborated" ELSE "document_exact"
  BY <1>1, <1>3, <1>5
<1> QED
  BY <1>4, <1>5, <1>6, <1>7 DEF SameField

\* The answers over all readings of the dates are the same when the readings are alike.
LEMMA AnswersSame ==
  ASSUME NEW X, NEW Y, NEW a \in X, NEW b \in Y, NEW every, IsFiniteSet(every), AlikePlaced(a, b, every),
         \A v \in X : \E w \in Y : AlikePlaced(v, w, every),
         \A w \in Y : \E v \in X : AlikePlaced(v, w, every),
         NEW why, NEW because
  PROVE  SameField(oneAnswer(X, a, why), oneAnswer(Y, b, because))
<1>1. (\A v \in X : signature(v) = signature(a)) <=> (\A w \in Y : signature(w) = signature(b))
  BY DEF AlikePlaced
<1>2. CASE \A v \in X : signature(v) = signature(a)
  <2>1. PICK f : f = Found(a.candidates, a.excluded)
    OBVIOUS
  <2>2. PICK g : g = Found(b.candidates, b.excluded)
    OBVIOUS
  <2>3. f.candidates = a.candidates /\ g.candidates = b.candidates
    BY <2>1, <2>2 DEF Found
  <2>4. SourcesOf(f) = SourcesOf(a) /\ SourcesOf(g) = SourcesOf(b) /\ ValuesOf(f) = ValuesOf(a) /\ ValuesOf(g) = ValuesOf(b)
    BY <2>3 DEF SourcesOf, ValuesOf
  <2>5. Cardinality(SourcesOf(f)) >= 2 <=> Cardinality(SourcesOf(g)) >= 2
    <3>1. PICK A : A = SourcesOf(a)
      OBVIOUS
    <3>2. PICK B : B = SourcesOf(b)
      OBVIOUS
    <3>3. SameSources(A, B, every)
      BY <3>1, <3>2 DEF AlikePlaced
    <3>4. IsFiniteSet(A) /\ IsFiniteSet(B)
      BY <3>3, FS_Subset DEF SameSources
    <3> QED
      BY <2>4, <3>1, <3>2, <3>3, <3>4, AsManySources
  <2>6. /\ oneAnswer(X, a, why) = resolveField(f, why, a.forced, fieldRegime({a}))
        /\ oneAnswer(Y, b, because) = resolveField(g, because, b.forced, fieldRegime({b}))
    BY <1>1, <1>2, <2>1, <2>2 DEF oneAnswer
  <2>7. ValuesOf(f) = ValuesOf(g) /\ a.forced.code = b.forced.code
    BY <2>4 DEF AlikePlaced
  <2> QED
    BY <2>5, <2>6, <2>7, ResolvedSame
<1>3. CASE ~ \A v \in X : signature(v) = signature(a)
  <2>1. PICK f : f = Together(X)
    OBVIOUS
  <2>2. PICK g : g = Together(Y)
    OBVIOUS
  <2>3. PICK disputed : disputed = [code |-> "annex_effective_date_disputed", doc |-> 0, date |-> NoDate]
    OBVIOUS
  <2>4. /\ oneAnswer(X, a, why) = resolveField(f, why, disputed, fieldRegime(X))
        /\ oneAnswer(Y, b, because) = resolveField(g, because, disputed, fieldRegime(Y))
    BY <1>1, <1>3, <2>1, <2>2, <2>3 DEF oneAnswer
  <2>5. f.candidates = UNION {v.candidates : v \in X} /\ g.candidates = UNION {v.candidates : v \in Y}
    BY <2>1, <2>2 DEF Together, Found
  <2>6. \A y : (\E v \in X : y \in ValuesOf(v)) <=> (\E w \in Y : y \in ValuesOf(w))
    BY DEF AlikePlaced
  <2>7. ValuesOf(f) = ValuesOf(g)
    <3>1. \A y : y \in ValuesOf(f) <=> \E v \in X : y \in ValuesOf(v)
      BY <2>5 DEF ValuesOf
    <3>2. \A y : y \in ValuesOf(g) <=> \E w \in Y : y \in ValuesOf(w)
      BY <2>5 DEF ValuesOf
    <3>3. ValuesOf(f) \subseteq ValuesOf(g) /\ ValuesOf(g) \subseteq ValuesOf(f)
      BY <2>6, <3>1, <3>2
    <3> QED
      BY <3>3
  <2>8. disputed.code # "none"
    BY <2>3
  <2> QED
    BY <2>4, <2>7, <2>8, ResolvedSame
<1> QED
  BY <1>2, <1>3

\* The same documents are disputed.
LEMMA DisputedOfPlaces ==
  ASSUME NEW C, NEW D, NEW p, Moved(C, D, p)
  PROVE  Disputed(D) = Places(p, Disputed(C))
<1>1. \A i \in DOMAIN C : p[i] \in DOMAIN D /\ D[p[i]] = C[i]
  BY DEF Moved
<1>2. \A k \in DOMAIN D : \E i \in DOMAIN C : k = p[i]
  BY DEF Moved
<1>3. Disputed(C) \subseteq DOMAIN C /\ Disputed(D) \subseteq DOMAIN D
  BY DEF Disputed
<1>4. \A i \in DOMAIN C : p[i] \in Disputed(D) <=> i \in Disputed(C)
  BY <1>1 DEF Disputed
<1> QED
  BY <1>2, <1>3, <1>4 DEF Places

\* When no disputed document is left out on one side, none is on the other.
LEMMA EnumeratedOfPlaces ==
  ASSUME NEW C, NEW D, NEW p, Moved(C, D, p), NEW n \in Nat, DOMAIN C \subseteq 1 .. n, DOMAIN D \subseteq Nat,
         Enumerated(C) = Disputed(C)
  PROVE  Enumerated(D) = Disputed(D)
<1>1. PICK S : S = Disputed(C)
  OBVIOUS
<1>2. PICK Q : Q = Disputed(D)
  OBVIOUS
<1>3. Q = Places(p, S) /\ S \subseteq 1 .. n /\ Q \subseteq Nat
  BY <1>1, <1>2, DisputedOfPlaces DEF Disputed
<1>4. IsFiniteSet(S) /\ Cardinality(S) \in Nat
  <2>1. IsFiniteSet(1 .. n)
    BY FS_Interval
  <2>2. IsFiniteSet(S)
    BY <1>3, <2>1, FS_Subset
  <2> QED
    BY <2>2, FS_CardinalityType
<1>5. IsFiniteSet(Q) /\ Cardinality(Q) \in Nat /\ Cardinality(Q) <= Cardinality(S)
  <2>1. PICK f : f = [i \in S |-> p[i]]
    OBVIOUS
  <2>2. f \in Surjection(S, Q)
    BY <1>3, <2>1 DEF Surjection, Places
  <2> QED
    BY <1>4, <2>2, FS_Surjection, FS_CardinalityType
<1>6. ASSUME NEW k \in Q
      PROVE  Cardinality({j \in Q : j < k}) < MaxDisputed
  <2>1. PICK x \in S : TRUE
    BY <1>3 DEF Places
  <2>2. PICK m \in S : \A i \in S : i <= m
    <3>1. S \in SUBSET Nat /\ \A i \in S : i <= n
      BY <1>3
    <3> QED
      BY <3>1, NatMax
  <2>3. {j \in S : j < m} = S \ {m}
    <3>1. \A j \in S : j \in Nat /\ m \in Nat /\ j <= m
      BY <1>3, <2>2
    <3>2. \A j \in S : j < m <=> j # m
      BY <3>1
    <3> QED
      BY <2>2, <3>2
  <2>4. Cardinality({j \in S : j < m}) < MaxDisputed
    BY <1>1 DEF Enumerated
  <2>5. Cardinality(S \ {m}) = Cardinality(S) - 1
    BY <1>4, FS_RemoveElement
  <2>6. IsFiniteSet(Q \ {k}) /\ Cardinality(Q \ {k}) = Cardinality(Q) - 1
    BY <1>5, FS_RemoveElement
  <2>7. {j \in Q : j < k} \subseteq Q \ {k}
    BY <1>3
  <2>8. /\ Cardinality({j \in Q : j < k}) <= Cardinality(Q \ {k})
        /\ Cardinality({j \in Q : j < k}) \in Nat
    BY <2>6, <2>7, FS_Subset, FS_CardinalityType
  <2> QED
    BY <1>4, <1>5, <2>3, <2>4, <2>5, <2>6, <2>8, MaxDisputedAssumption
<1> QED
  BY <1>2, <1>6 DEF Enumerated

\* The same documents are believed over the user: they are dated the same.
LEMMA DatesOfPlaces ==
  ASSUME NEW C, NEW D, NEW p, Moved(C, D, p), Enumerated(C) = Disputed(C), Enumerated(D) = Disputed(D),
         NEW S \in SUBSET DOMAIN C
  PROVE  Along(C, p, variantDates(C, S), variantDates(D, Places(p, S)))
<1>1. \A i \in DOMAIN C : p[i] \in DOMAIN D /\ D[p[i]] = C[i]
  BY DEF Moved
<1>2. \A i \in DOMAIN C : p[i] \in Disputed(D) <=> i \in Disputed(C)
  BY <1>1 DEF Disputed
<1>3. \A i \in DOMAIN C : p[i] \in Places(p, S) <=> i \in S
  BY PlacesOf
<1> QED
  BY <1>1, <1>2, <1>3 DEF Along, variantDates

\* Every reading of the dates has its like on the other side.
LEMMA VariantsOfPlaces ==
  ASSUME NEW C, NEW D, NEW p, Moved(C, D, p), Enumerated(C) = Disputed(C), Enumerated(D) = Disputed(D)
  PROVE  /\ Along(C, p, userVariant(C), userVariant(D))
         /\ \A dates \in Variants(C) : \E e \in Variants(D) : Along(C, p, dates, e)
         /\ \A e \in Variants(D) : \E dates \in Variants(C) : Along(C, p, dates, e)
<1>1. Disputed(C) \subseteq DOMAIN C /\ Disputed(D) \subseteq DOMAIN D /\ Disputed(D) = Places(p, Disputed(C))
  BY DisputedOfPlaces DEF Disputed
<1>2. Along(C, p, userVariant(C), userVariant(D))
  <2>1. PICK S \in SUBSET DOMAIN C : S = {}
    OBVIOUS
  <2>2. Places(p, S) = {}
    BY <2>1 DEF Places
  <2> QED
    BY <2>1, <2>2, DatesOfPlaces DEF userVariant
<1>3. ASSUME NEW dates \in Variants(C)
      PROVE  \E e \in Variants(D) : Along(C, p, dates, e)
  <2>1. PICK S \in SUBSET Disputed(C) : dates = variantDates(C, S)
    BY <1>3 DEF Variants
  <2>2. Places(p, S) \in SUBSET Enumerated(D)
    BY <1>1 DEF Places
  <2>3. variantDates(D, Places(p, S)) \in Variants(D)
    BY <2>2 DEF Variants
  <2>4. S \in SUBSET DOMAIN C
    BY <1>1
  <2> QED
    BY <2>1, <2>3, <2>4, DatesOfPlaces
<1>4. ASSUME NEW e \in Variants(D)
      PROVE  \E dates \in Variants(C) : Along(C, p, dates, e)
  <2>1. PICK R \in SUBSET Disputed(D) : e = variantDates(D, R)
    BY <1>4 DEF Variants
  <2>2. PICK S : S = {i \in DOMAIN C : p[i] \in R}
    OBVIOUS
  <2>3. R = Places(p, S) /\ S \in SUBSET DOMAIN C
    <3>1. R \in SUBSET DOMAIN D
      BY <1>1
    <3>2. S \in SUBSET DOMAIN C
      BY <2>2
    <3>3. \A j \in R : \E i \in S : p[i] = j
      BY <2>2, <3>1 DEF Moved
    <3> QED
      BY <2>2, <3>2, <3>3 DEF Places
  <2>4. S \in SUBSET Enumerated(C)
    <3>1. \A i \in DOMAIN C : p[i] \in Places(p, Disputed(C)) <=> i \in Disputed(C)
      BY <1>1, PlacesOf
    <3> QED
      BY <1>1, <2>2, <3>1
  <2>5. variantDates(C, S) \in Variants(C)
    BY <2>4 DEF Variants
  <2> QED
    BY <2>1, <2>3, <2>5, DatesOfPlaces
<1> QED
  BY <1>2, <1>3, <1>4

\* Two sides hold the same documents, all of whose disputed dates are enumerated on either.
SameContracts(C, D, p) ==
  /\ Sided(C) /\ Sided(D) /\ Moved(C, D, p)
  /\ Enumerated(C) = Disputed(C) /\ Enumerated(D) = Disputed(D)

\* A field of the timeline comes out the same.
LEMMA TimelineFieldsSame ==
  ASSUME NEW C, NEW D, NEW p, SameContracts(C, D, p), ClearSide(C), DistinctIds(C),
         NEW field, field # "employer", NEW t \in Nat, NEW slips, \A c \in slips.candidates : c.doc \notin IdsOf(C),
         NEW every, IsFiniteSet(every), IdsOf(C) \subseteq every, SourcesOf(slips) \subseteq every, NEW why, NEW because
  PROVE  SameField(timelineField(C, field, t, slips, why), timelineField(D, field, t, slips, because))
<1>1. /\ Sided(C) /\ Sided(D) /\ Moved(C, D, p)
      /\ Enumerated(C) = Disputed(C) /\ Enumerated(D) = Disputed(D)
  BY DEF SameContracts
<1>2. DOMAIN C = {} <=> DOMAIN D = {}
  BY <1>1 DEF Moved
<1>3. CASE DOMAIN C = {}
  <2>1. /\ timelineField(C, field, t, slips, why) = resolveField(slips, why, NoReason, NoRegime)
        /\ timelineField(D, field, t, slips, because) = resolveField(slips, because, NoReason, NoRegime)
    BY <1>2, <1>3 DEF timelineField, plainField
  <2> QED
    BY <2>1, ResolvedSame
<1>4. CASE DOMAIN C # {}
  <2>1. PICK X : X = {fieldVariant(C, dates, field, t, slips) : dates \in Variants(C)}
    OBVIOUS
  <2>2. PICK Y : Y = {fieldVariant(D, dates, field, t, slips) : dates \in Variants(D)}
    OBVIOUS
  <2>3. PICK a : a = fieldVariant(C, userVariant(C), field, t, slips)
    OBVIOUS
  <2>4. PICK b : b = fieldVariant(D, userVariant(D), field, t, slips)
    OBVIOUS
  <2>5. /\ timelineField(C, field, t, slips, why) = oneAnswer(X, a, why)
        /\ timelineField(D, field, t, slips, because) = oneAnswer(Y, b, because)
    BY <1>2, <1>4, <2>1, <2>2, <2>3, <2>4 DEF timelineField
  <2>6. ASSUME NEW dates \in Variants(C), NEW e \in Variants(D), Along(C, p, dates, e)
        PROVE  AlikePlaced(fieldVariant(C, dates, field, t, slips), fieldVariant(D, e, field, t, slips), every)
    <3>1. PICK V : V = variantEvidence(C, dates, field, t)
      OBVIOUS
    <3>2. PICK W : W = variantEvidence(D, e, field, t)
      OBVIOUS
    <3>3. Twins(C, D, p, dates, e)
      BY <1>1, <2>6, VariantDated DEF Twins
    <3>4. Alike(V, W, IdsOf(C))
      BY <3>1, <3>2, <3>3, VariantsAlike
    <3>5. /\ fieldVariant(C, dates, field, t, slips) = placePayslipEvidence(V, slips)
          /\ fieldVariant(D, e, field, t, slips) = placePayslipEvidence(W, slips)
      BY <3>1, <3>2 DEF fieldVariant
    <3> QED
      BY <3>4, <3>5, PlacedEvidence
  <2>7. /\ Along(C, p, userVariant(C), userVariant(D))
        /\ \A dates \in Variants(C) : \E e \in Variants(D) : Along(C, p, dates, e)
        /\ \A e \in Variants(D) : \E dates \in Variants(C) : Along(C, p, dates, e)
    BY <1>1, VariantsOfPlaces
  <2>8. a \in X /\ b \in Y /\ AlikePlaced(a, b, every)
    BY <2>1, <2>2, <2>3, <2>4, <2>6, <2>7, UserVariant
  <2>9. \A v \in X : \E w \in Y : AlikePlaced(v, w, every)
    BY <2>1, <2>2, <2>6, <2>7
  <2>10. \A w \in Y : \E v \in X : AlikePlaced(v, w, every)
    BY <2>1, <2>2, <2>6, <2>7
  <2> QED
    BY <2>5, <2>8, <2>9, <2>10, AnswersSame
<1> QED
  BY <1>3, <1>4

\* The same contracts are in force, with the same dates.
LEMMA InForceOfPlaces ==
  ASSUME NEW C, NEW D, NEW p, SameContracts(C, D, p), NEW t
  PROVE  anyVariantApplicable(D, t) = anyVariantApplicable(C, t)
<1>1. Moved(C, D, p) /\ Enumerated(C) = Disputed(C) /\ Enumerated(D) = Disputed(D)
  BY DEF SameContracts
<1>2. /\ Along(C, p, userVariant(C), userVariant(D))
      /\ \A dates \in Variants(C) : \E e \in Variants(D) : Along(C, p, dates, e)
      /\ \A e \in Variants(D) : \E dates \in Variants(C) : Along(C, p, dates, e)
  BY <1>1, VariantsOfPlaces
<1>3. ASSUME NEW dates, NEW e, Along(C, p, dates, e), NEW i \in DOMAIN C
      PROVE  p[i] \in applicableContracts(D, e, t) <=> i \in applicableContracts(C, dates, t)
  BY <1>1, <1>3 DEF Along, Moved, applicableContracts
<1>4. PICK ever : ever = UNION {applicableContracts(C, dates, t) : dates \in Variants(C)}
  OBVIOUS
<1>5. PICK also : also = UNION {applicableContracts(D, e, t) : e \in Variants(D)}
  OBVIOUS
<1>6. ever \subseteq DOMAIN C /\ also \subseteq DOMAIN D
  BY <1>4, <1>5 DEF applicableContracts
<1>7. \A i \in DOMAIN C : p[i] \in also <=> i \in ever
  <2> TAKE i \in DOMAIN C
  <2>1. ASSUME i \in ever
        PROVE  p[i] \in also
    <3>1. PICK dates \in Variants(C) : i \in applicableContracts(C, dates, t)
      BY <1>4, <2>1
    <3>2. PICK e \in Variants(D) : Along(C, p, dates, e)
      BY <1>2
    <3>3. p[i] \in applicableContracts(D, e, t)
      BY <1>3, <3>1, <3>2
    <3> QED
      BY <1>5, <3>3
  <2>2. ASSUME p[i] \in also
        PROVE  i \in ever
    <3>1. PICK e \in Variants(D) : p[i] \in applicableContracts(D, e, t)
      BY <1>5, <2>2
    <3>2. PICK dates \in Variants(C) : Along(C, p, dates, e)
      BY <1>2
    <3>3. i \in applicableContracts(C, dates, t)
      BY <1>3, <3>1, <3>2
    <3> QED
      BY <1>4, <3>3
  <2> QED
    BY <2>1, <2>2
<1> DEFINE dated(S, x, i) == <<S[i], IF i \in applicableContracts(S, x, t) THEN x[i] ELSE printedDate(S[i])>>
<1>8. \A i \in DOMAIN C : dated(D, userVariant(D), p[i]) = dated(C, userVariant(C), i)
  <2> TAKE i \in DOMAIN C
  <2>1. p[i] \in applicableContracts(D, userVariant(D), t) <=> i \in applicableContracts(C, userVariant(C), t)
    BY <1>2, <1>3
  <2>2. D[p[i]] = C[i] /\ userVariant(D)[p[i]] = userVariant(C)[i]
    BY <1>1, <1>2 DEF Moved, Along
  <2> QED
    BY <2>1, <2>2
<1>9. /\ anyVariantApplicable(C, t) = {dated(C, userVariant(C), i) : i \in ever}
      /\ anyVariantApplicable(D, t) = {dated(D, userVariant(D), k) : k \in also}
  BY <1>4, <1>5 DEF anyVariantApplicable
<1>10. also = {p[i] : i \in ever}
  BY <1>1, <1>6, <1>7 DEF Moved
<1> HIDE DEF dated
<1> QED
  BY <1>6, <1>8, <1>9, <1>10

\* The wages of a payslip are evidence of that payslip.
LEMMA RateSources ==
  ASSUME NEW documents
  PROVE  \A c \in regularRateEvidence(documents).candidates : \E d \in Slips(documents) : c.doc = d.id
<1>1. \A d, date, said : \A c \in factEvidence(d, date, said).candidates : c.doc = d.id
  BY DEF factEvidence, Found, Evidence
<1> DEFINE header(d) == factEvidence(d, NoDate, occurrences(d.facts, "hourlyRate"))
           wage(d, l) == IF l.issue # "none" THEN Found({}, {issueExclusion(Evidence(d, NoDate, l.value), l)})
                         ELSE IF l.value > 0 THEN Found({Evidence(d, NoDate, l.value)}, {}) ELSE Nothing
           wages(d)   == {wage(d, l) : l \in LinesOf(d, {"regular"})}
<1>2. \A d : \A c \in header(d).candidates : c.doc = d.id
  BY <1>1
<1>3. \A d, l : \A c \in wage(d, l).candidates : c.doc = d.id
  BY DEF Found, Evidence, Nothing
<1>4. regularRateEvidence(documents) =
        Together({header(d) : d \in Slips(documents)} \cup UNION {wages(d) : d \in Slips(documents)})
  BY DEF regularRateEvidence
<1> HIDE DEF header, wage
<1>5. regularRateEvidence(documents).candidates =
        UNION {e.candidates : e \in {header(d) : d \in Slips(documents)} \cup UNION {wages(d) : d \in Slips(documents)}}
  BY <1>4 DEF Together, Found
<1> QED
  BY <1>2, <1>3, <1>5

\* The other way round the documents are the same.
LEMMA Reversed ==
  ASSUME NEW s \in Seq(Readings), NEW r, r = Reverse(s), NEW p, \A i \in 1 .. Len(s) : p[i] = Len(s) + 1 - i
  PROVE  /\ DOMAIN s = 1 .. Len(s) /\ DOMAIN r = 1 .. Len(s) /\ Len(s) \in Nat
         /\ \A i \in 1 .. Len(s) : p[i] \in 1 .. Len(s) /\ r[p[i]] = s[i] /\ p[p[i]] = i
         /\ \A i \in 1 .. Len(s) : s[i] \in Readings /\ r[i] \in Readings
         /\ Slips(r) = Slips(s) /\ Moved(contractSide(s), contractSide(r), p)
<1>1. PICK n : n = Len(s)
  OBVIOUS
<1>2. n \in Nat /\ DOMAIN s = 1 .. n /\ \A i \in 1 .. n : s[i] \in Readings
  BY <1>1
<1>3. r = [i \in 1 .. n |-> s[(n - i) + 1]]
  BY <1>1 DEF Reverse
<1>4. \A i \in 1 .. n : p[i] = n + 1 - i /\ p[i] \in 1 .. n
  BY <1>1, <1>2
<1>5. \A i \in 1 .. n : p[p[i]] = i /\ r[p[i]] = s[i]
  BY <1>2, <1>3, <1>4
<1>6. DOMAIN r = 1 .. n /\ \A i \in 1 .. n : r[i] \in Readings
  BY <1>2, <1>3
<1>7. \A k \in 1 .. n : \E i \in 1 .. n : k = p[i]
  BY <1>4, <1>5
<1>8. Slips(r) = Slips(s)
  <2>1. \A d : d \in Slips(s) => d \in Slips(r)
    BY <1>2, <1>4, <1>5, <1>6 DEF Slips
  <2>2. \A d : d \in Slips(r) => d \in Slips(s)
    <3> TAKE d
    <3> HAVE d \in Slips(r)
    <3>1. PICK k \in 1 .. n : d = r[k] /\ isPayslip(r[k])
      BY <1>6 DEF Slips
    <3>2. PICK i \in 1 .. n : k = p[i]
      BY <1>7
    <3>3. d = s[i] /\ isPayslip(s[i]) /\ i \in DOMAIN s
      BY <1>2, <1>5, <3>1, <3>2
    <3> QED
      BY <3>3 DEF Slips
  <2> QED
    BY <2>1, <2>2
<1>9. Moved(contractSide(s), contractSide(r), p)
  <2>1. PICK C : C = contractSide(s)
    OBVIOUS
  <2>2. PICK D : D = contractSide(r)
    OBVIOUS
  <2>3. DOMAIN C = {i \in 1 .. n : isContract(s[i])} /\ \A i \in DOMAIN C : C[i] = s[i]
    BY <1>2, <2>1 DEF contractSide
  <2>4. DOMAIN D = {i \in 1 .. n : isContract(r[i])} /\ \A i \in DOMAIN D : D[i] = r[i]
    BY <1>6, <2>2 DEF contractSide
  <2>5. \A i \in DOMAIN C : p[i] \in DOMAIN D /\ D[p[i]] = C[i]
    BY <1>4, <1>5, <2>3, <2>4
  <2>6. \A i, j \in DOMAIN C : p[i] = p[j] => i = j
    BY <1>5, <2>3
  <2>7. \A k \in DOMAIN D : \E i \in DOMAIN C : k = p[i]
    BY <1>5, <1>7, <2>3, <2>4
  <2> QED
    BY <2>1, <2>2, <2>5, <2>6, <2>7 DEF Moved
<1> QED
  BY <1>1, <1>2, <1>4, <1>5, <1>6, <1>8, <1>9

\* The documents of a request in the other order: the same contracts, and the same payslips.
LEMMA OtherOrder ==
  ASSUME ResolutionInv, Enumerated(side) = Disputed(side),
         NEW other, other = contractSide(Reverse(given))
  PROVE  /\ \E p : SameContracts(side, other, p)
         /\ DistinctIds(side) /\ Slips(Reverse(given)) = Slips(given)
<1>1. given \in Seq(Readings) /\ \A i, j \in DOMAIN given : given[i].id = given[j].id => i = j
  BY DEF ResolutionInv
<1>2. PICK p : \A i \in 1 .. Len(given) : p[i] = Len(given) + 1 - i
  <2>1. PICK q : q = [i \in 1 .. Len(given) |-> Len(given) + 1 - i]
    OBVIOUS
  <2>2. \A i \in 1 .. Len(given) : q[i] = Len(given) + 1 - i
    BY <2>1
  <2> QED
    BY <2>2
<1>3. PICK n : n = Len(given)
  OBVIOUS
<1>4. PICK r : r = Reverse(given)
  OBVIOUS
<1>5. /\ DOMAIN given = 1 .. n /\ DOMAIN r = 1 .. n /\ n \in Nat
      /\ \A i \in 1 .. n : r[i] \in Readings
      /\ Slips(r) = Slips(given) /\ Moved(side, other, p)
  BY <1>1, <1>2, <1>3, <1>4, Reversed DEF side
<1>6. Sided(side) /\ \A i \in DOMAIN side : i \in DOMAIN given /\ side[i] = given[i]
  BY RequestSide
<1>7. /\ DOMAIN other \subseteq 1 .. n /\ \A i \in DOMAIN other : other[i] = r[i]
      /\ DOMAIN side \subseteq 1 .. n
  BY <1>4, <1>5, <1>6 DEF contractSide
<1>8. Sided(other) /\ DOMAIN other \subseteq Nat
  BY <1>5, <1>7 DEF Sided
<1>9. Enumerated(other) = Disputed(other)
  BY <1>5, <1>7, <1>8, EnumeratedOfPlaces
<1>10. SameContracts(side, other, p)
  BY <1>5, <1>6, <1>8, <1>9 DEF SameContracts
<1>11. DistinctIds(side)
  BY <1>1, <1>6 DEF DistinctIds
<1> QED
  BY <1>4, <1>5, <1>10, <1>11

LEMMA PlainFieldsSame ==
  ASSUME NEW e, NEW why, NEW because
  PROVE  SameField(plainField(e, why), plainField(e, because))
BY ResolvedSame DEF plainField

\* No document wins by its place in the list: in the other order every field has the same state and value,
\* whatever the number of documents.
THEOREM OrderOfDocuments == Resolutions => []OrderIrrelevant
<1>1. ResolutionInv => OrderIrrelevant
  <2> SUFFICES ASSUME ResolutionInv, Enumerated(side) = Disputed(side), ClearOrUnclear
               PROVE  \A f \in Fields : SameField(resolvePayrollProfile(Reverse(given), onDate).fields[f], answer.fields[f])
    BY DEF OrderIrrelevant, SameField
  <2>1. PICK other : other = contractSide(Reverse(given))
    OBVIOUS
  <2>2. PICK p : SameContracts(side, other, p)
    BY <2>1, OtherOrder
  <2>3. DistinctIds(side) /\ Slips(Reverse(given)) = Slips(given)
    BY <2>1, OtherOrder
  <2>4. ClearSide(side)
    BY DEF ClearSide, ClearDocument, ClearOrUnclear
  <2>5. /\ given \in Seq(Readings) /\ \A i, j \in DOMAIN given : given[i].id = given[j].id => i = j
        /\ answer = resolvePayrollProfile(given, onDate) /\ onDate \in Nat
    BY ResolveDatesAssumption DEF ResolutionInv
  <2>6. PICK every : every = {given[i].id : i \in DOMAIN given}
    OBVIOUS
  <2>7. IsFiniteSet(every)
    <3>1. DOMAIN given = 1 .. Len(given) /\ Len(given) \in Nat
      BY <2>5
    <3>2. IsFiniteSet(1 .. Len(given))
      BY <3>1, FS_Interval
    <3>3. PICK g : g = [i \in DOMAIN given |-> given[i].id]
      OBVIOUS
    <3>4. g \in Surjection(DOMAIN given, every)
      BY <2>6, <3>3 DEF Surjection
    <3> QED
      BY <3>1, <3>2, <3>4, FS_Surjection
  <2>8. \A i \in DOMAIN side : i \in DOMAIN given /\ side[i] = given[i] /\ isContract(given[i])
    BY RequestSide
  <2>9. IdsOf(side) \subseteq every
    BY <2>6, <2>8 DEF IdsOf
  <2>10. PICK paid : paid = regularRateEvidence(given)
    OBVIOUS
  <2>11. SourcesOf(paid) \subseteq every /\ \A c \in paid.candidates : c.doc \notin IdsOf(side)
    <3>1. ASSUME NEW c \in paid.candidates
          PROVE  c.doc \in every /\ c.doc \notin IdsOf(side)
      <4>1. PICK d \in Slips(given) : c.doc = d.id
        BY <2>10, <3>1, RateSources
      <4>2. PICK j \in DOMAIN given : d = given[j] /\ isPayslip(given[j])
        BY <4>1 DEF Slips
      <4>3. j \notin DOMAIN side
        BY <2>8, <4>2 DEF isPayslip, isContract
      <4> QED
        BY <2>5, <2>6, <2>8, <4>1, <4>2, <4>3 DEF IdsOf
    <3> QED
      BY <3>1 DEF SourcesOf
  <2>12. SourcesOf(Nothing) \subseteq every /\ \A c \in Nothing.candidates : c.doc \notin IdsOf(side)
    BY DEF SourcesOf, Nothing, Found
  <2>13. PICK inForce : inForce = anyVariantApplicable(side, onDate)
    OBVIOUS
  <2>14. anyVariantApplicable(other, onDate) = inForce
    BY <2>2, <2>13, InForceOfPlaces
  <2>15. PICK r : r = Reverse(given)
    OBVIOUS
  <2>16. PICK P : P = resolvePayrollProfile(r, onDate)
    OBVIOUS
  <2>17. /\ regularRateEvidence(r) = paid
         /\ payslipScalarEvidence(r, "periodType") = payslipScalarEvidence(given, "periodType")
         /\ employerEvidence(r) = employerEvidence(given)
         /\ overtimeEvidence(r, inForce, {1}) = overtimeEvidence(given, inForce, {1})
         /\ overtimeEvidence(r, inForce, {2}) = overtimeEvidence(given, inForce, {2})
         /\ deductionEvidence(r, "pension") = deductionEvidence(given, "pension")
    BY <2>3, <2>10, <2>15 DEF regularRateEvidence, payslipScalarEvidence, employerEvidence, overtimeEvidence, deductionEvidence
  <2>18. /\ \E why : answer.fields["hourlyRate"] = timelineField(side, "hourlyRate", onDate, paid, why)
         /\ \E why : answer.fields["threshold"] = timelineField(side, "threshold", onDate, Nothing, why)
         /\ \E why : answer.fields["caoPhase"] = plainField(PhaseEvidence(inForce), why)
         /\ \E why : answer.fields["periodType"] = plainField(payslipScalarEvidence(given, "periodType"), why)
         /\ \E why : answer.fields["employer"] = plainField(employerEvidence(given), why)
         /\ \E why : answer.fields["tier1"] = plainField(Found(overtimeEvidence(given, inForce, {1}).candidates, {}), why)
         /\ \E why : answer.fields["tier2"] = plainField(Found(overtimeEvidence(given, inForce, {2}).candidates, {}), why)
         /\ \E why : answer.fields["saturday"] = plainField(SaturdayEvidence(inForce), why)
         /\ \E why : answer.fields["pension"] = plainField(deductionEvidence(given, "pension"), why)
    <3>1. side = contractSide(given) /\ inForce = anyVariantApplicable(side, onDate)
      BY <2>13 DEF side
    <3>2. /\ \E why : answer.fields["hourlyRate"] = timelineField(side, "hourlyRate", onDate, regularRateEvidence(given), why)
          /\ \E why : answer.fields["threshold"] = timelineField(side, "threshold", onDate, Nothing, why)
          /\ \E why : answer.fields["caoPhase"] = plainField(PhaseEvidence(inForce), why)
          /\ \E why : answer.fields["periodType"] = plainField(payslipScalarEvidence(given, "periodType"), why)
          /\ \E why : answer.fields["employer"] = plainField(employerEvidence(given), why)
          /\ \E why : answer.fields["tier1"] = plainField(Found(overtimeEvidence(given, inForce, {1}).candidates, {}), why)
          /\ \E why : answer.fields["tier2"] = plainField(Found(overtimeEvidence(given, inForce, {2}).candidates, {}), why)
          /\ \E why : answer.fields["saturday"] = plainField(SaturdayEvidence(inForce), why)
          /\ \E why : answer.fields["pension"] = plainField(deductionEvidence(given, "pension"), why)
      <4>1. answer = resolvePayrollProfile(given, onDate)
        BY <2>5
      <4> HIDE DEF side
      <4> QED
        BY <3>1, <4>1, ProfileFields
    <3>3. \E why : answer.fields["hourlyRate"] = timelineField(side, "hourlyRate", onDate, paid, why)
      <4> HIDE DEF side
      <4> QED
        BY <2>10, <3>2
    <3> QED
      BY <3>2, <3>3
  <2>19. /\ \E why : P.fields["hourlyRate"] = timelineField(other, "hourlyRate", onDate, paid, why)
         /\ \E why : P.fields["threshold"] = timelineField(other, "threshold", onDate, Nothing, why)
         /\ \E why : P.fields["caoPhase"] = plainField(PhaseEvidence(inForce), why)
         /\ \E why : P.fields["periodType"] = plainField(payslipScalarEvidence(given, "periodType"), why)
         /\ \E why : P.fields["employer"] = plainField(employerEvidence(given), why)
         /\ \E why : P.fields["tier1"] = plainField(Found(overtimeEvidence(given, inForce, {1}).candidates, {}), why)
         /\ \E why : P.fields["tier2"] = plainField(Found(overtimeEvidence(given, inForce, {2}).candidates, {}), why)
         /\ \E why : P.fields["saturday"] = plainField(SaturdayEvidence(inForce), why)
         /\ \E why : P.fields["pension"] = plainField(deductionEvidence(given, "pension"), why)
    <3>1. other = contractSide(r) /\ inForce = anyVariantApplicable(other, onDate)
      BY <2>1, <2>14, <2>15
    <3>2. /\ \E why : P.fields["hourlyRate"] = timelineField(other, "hourlyRate", onDate, regularRateEvidence(r), why)
          /\ \E why : P.fields["threshold"] = timelineField(other, "threshold", onDate, Nothing, why)
          /\ \E why : P.fields["caoPhase"] = plainField(PhaseEvidence(inForce), why)
          /\ \E why : P.fields["periodType"] = plainField(payslipScalarEvidence(r, "periodType"), why)
          /\ \E why : P.fields["employer"] = plainField(employerEvidence(r), why)
          /\ \E why : P.fields["tier1"] = plainField(Found(overtimeEvidence(r, inForce, {1}).candidates, {}), why)
          /\ \E why : P.fields["tier2"] = plainField(Found(overtimeEvidence(r, inForce, {2}).candidates, {}), why)
          /\ \E why : P.fields["saturday"] = plainField(SaturdayEvidence(inForce), why)
          /\ \E why : P.fields["pension"] = plainField(deductionEvidence(r, "pension"), why)
      BY <2>16, <3>1, ProfileFields
    <3> QED
      BY <2>17, <3>2
  <2>20. /\ SameField(P.fields["hourlyRate"], answer.fields["hourlyRate"])
         /\ SameField(P.fields["threshold"], answer.fields["threshold"])
    <3>1. ASSUME NEW why, NEW because
          PROVE  /\ SameField(timelineField(side, "hourlyRate", onDate, paid, why), timelineField(other, "hourlyRate", onDate, paid, because))
                 /\ SameField(timelineField(side, "threshold", onDate, Nothing, why), timelineField(other, "threshold", onDate, Nothing, because))
      BY <2>2, <2>3, <2>4, <2>5, <2>7, <2>9, <2>11, <2>12, TimelineFieldsSame
    <3> QED
      BY <2>18, <2>19, <3>1 DEF SameField
  <2>21. \A f \in Fields \ {"hourlyRate", "threshold"} : SameField(P.fields[f], answer.fields[f])
    BY <2>18, <2>19, PlainFieldsSame DEF Fields
  <2> QED
    BY <2>15, <2>16, <2>20, <2>21 DEF Fields
<1> QED
  BY <1>1, Resolved, PTL

-----------------------------------------------------------------------------
(* Decisions are applied on the evidence they were made on. *)

Documentary == {"unknown", "conflict", "corroborated", "document_exact"}

\* The documents alone never decide for the user.
LEMMA ResolvedByDocuments ==
  \A evidence, emptyReason, forced, regime : resolveField(evidence, emptyReason, forced, regime).state \in Documentary
BY DEF resolveField, Documentary

LEMMA TimelineByDocuments ==
  \A docs0, field, asOf, slips, emptyReason : timelineField(docs0, field, asOf, slips, emptyReason).state \in Documentary
BY ResolvedByDocuments DEF timelineField, oneAnswer, plainField

\* No field of a documentary profile is decided by the user.
LEMMA DocumentaryStates ==
  ASSUME NEW documents, NEW date, NEW D, D = resolvePayrollProfile(documents, date),
         NEW p \in Paths(D)
  PROVE  findProfileField(D, p).state \in Documentary
<1>1. ASSUME NEW f \in Fields
      PROVE  D.fields[f].state \in Documentary
  <2>1. \A why, evidence : plainField(evidence, why).state \in Documentary
    BY ResolvedByDocuments DEF plainField
  <2>2. f \in {"hourlyRate", "threshold"} => D.fields[f].state \in Documentary
    BY TimelineByDocuments DEF resolvePayrollProfile, Fields
  <2>3. f \in Fields \ {"hourlyRate", "threshold"} => D.fields[f].state \in Documentary
    <3>1. f \in {"caoPhase", "periodType", "employer"} => D.fields[f].state \in Documentary
      BY <2>1 DEF resolvePayrollProfile, Fields
    <3>2. f \in {"tier1", "tier2"} => D.fields[f].state \in Documentary
      BY <2>1 DEF resolvePayrollProfile, Fields
    <3>3. f \in {"saturday", "pension"} => D.fields[f].state \in Documentary
      BY <2>1 DEF resolvePayrollProfile, Fields
    <3> QED
      BY <3>1, <3>2, <3>3 DEF Fields
  <2> QED
    BY <2>2, <2>3
<1>2. ASSUME NEW c \in Collections, NEW label \in DOMAIN D.recurring[c]
      PROVE  D.recurring[c][label].state \in Documentary
  <2>1. \A kind : \A l \in DOMAIN netLines(documents, kind) : netLines(documents, kind)[l].state \in Documentary
    BY ResolvedByDocuments DEF netLines, plainField
  <2>2. D.recurring = [netAdditions |-> netLines(documents, "reimbursement"), netDeductions |-> netLines(documents, "net")]
    BY DEF resolvePayrollProfile
  <2>3. c = "netAdditions" \/ c = "netDeductions"
    BY DEF Collections
  <2>4. \/ D.recurring[c] = netLines(documents, "reimbursement")
        \/ D.recurring[c] = netLines(documents, "net")
    BY <2>2, <2>3
  <2> QED
    BY <2>1, <2>4
<1>3. CASE \E f \in Fields : p = <<"field", f>>
  BY <1>1, <1>3 DEF findProfileField
<1>4. CASE \E c \in Collections : \E label \in DOMAIN D.recurring[c] : p = <<c, label>>
  BY <1>2, <1>4 DEF findProfileField, Collections
<1> QED
  BY <1>3, <1>4 DEF Paths

\* The field of a profile after the user's decisions: the documentary one, or one decided by a decision
\* that was applied to this very path.
LEMMA OverlaidField ==
  ASSUME NEW D, NEW sent, NEW overlaid, overlaid = applyUserDecisions(D, sent),
         NEW p \in Paths(overlaid.profile)
  PROVE  /\ p \in Paths(D)
         /\ \/ findProfileField(overlaid.profile, p) = findProfileField(D, p)
            \/ \E i \in DOMAIN sent :
                 /\ sent[i].path = p /\ decisionResult(D, sent, i).status = "applied"
                 /\ findProfileField(overlaid.profile, p) = decided(findProfileField(D, p), sent[i])
<1> DEFINE results == decisionResults(D, sent)
           applied == {i \in DOMAIN sent : results[i].status = "applied"}
           on(path) == {i \in applied : sent[i].path = path}
           field(path) == IF on(path) = {} THEN findProfileField(D, path)
                          ELSE decided(findProfileField(D, path), sent[CHOOSE i \in on(path) : TRUE])
           P == overlaid.profile
<1>1. /\ P.fields = [f \in Fields |-> field(<<"field", f>>)]
      /\ P.recurring = [c \in Collections |-> [label \in DOMAIN D.recurring[c] |-> field(<<c, label>>)]]
  BY DEF applyUserDecisions
<1>2. \A path : \/ field(path) = findProfileField(D, path)
                \/ \E i \in DOMAIN sent : /\ sent[i].path = path /\ decisionResult(D, sent, i).status = "applied"
                                          /\ field(path) = decided(findProfileField(D, path), sent[i])
  <2> SUFFICES ASSUME NEW path, on(path) # {}
               PROVE  \E i \in DOMAIN sent : /\ sent[i].path = path /\ decisionResult(D, sent, i).status = "applied"
                                             /\ field(path) = decided(findProfileField(D, path), sent[i])
    OBVIOUS
  <2>1. PICK i : i = CHOOSE j \in on(path) : TRUE
    OBVIOUS
  <2>2. i \in on(path)
    BY <2>1
  <2>3. decisionResult(D, sent, i).status = "applied"
    BY <2>2 DEF decisionResults
  <2> QED
    BY <2>1, <2>2, <2>3
<1> HIDE DEF field
<1>3. CASE \E f \in Fields : p = <<"field", f>>
  <2>1. PICK f \in Fields : p = <<"field", f>>
    BY <1>3
  <2>2. findProfileField(P, p) = field(p)
    BY <1>1, <2>1 DEF findProfileField
  <2>3. p \in Paths(D)
    BY <2>1 DEF Paths
  <2> QED
    BY <1>2, <2>2, <2>3
<1>4. CASE \E c \in Collections : \E label \in DOMAIN P.recurring[c] : p = <<c, label>>
  <2>1. PICK c \in Collections : \E label \in DOMAIN P.recurring[c] : p = <<c, label>>
    BY <1>4
  <2>2. PICK label \in DOMAIN P.recurring[c] : p = <<c, label>>
    BY <2>1
  <2>3. label \in DOMAIN D.recurring[c] /\ P.recurring[c][label] = field(<<c, label>>)
    BY <1>1, <2>2
  <2>4. p[1] = c /\ p[2] = label /\ c # "field"
    BY <2>2 DEF Collections
  <2>5. findProfileField(P, p) = field(p)
    BY <2>2, <2>3, <2>4 DEF findProfileField
  <2>6. p \in Paths(D)
    BY <2>2, <2>3 DEF Paths
  <2> QED
    BY <1>2, <2>5, <2>6
<1> QED
  BY <1>3, <1>4 DEF Paths

\* A decision is applied only if its fingerprint is that of the documentary field it is about.
LEMMA AppliedOnEvidence ==
  ASSUME NEW D, NEW sent, NEW i, decisionResult(D, sent, i).status = "applied"
  PROVE  sent[i].fingerprint = fingerprintOf(sent[i].path, findProfileField(D, sent[i].path))
BY DEF decisionResult, Result

LEMMA ResolvedOnSeenEvidence ==
  ASSUME NEW documents, NEW date, NEW sent, NEW D, D = resolvePayrollProfile(documents, date),
         NEW overlaid, overlaid = applyUserDecisions(D, sent),
         NEW outcome, outcome = resolvedProfile(date, overlaid, sent)
  PROVE  outcome.asOf = date /\ OnSeenEvidence(outcome)
<1>1. outcome.asOf = date /\ outcome.profile = overlaid.profile
  BY DEF resolvedProfile
<1>2. ASSUME NEW p \in resolvedByYou(outcome),
             NEW field, field = findProfileField(outcome.profile, p)
      PROVE  /\ field.resolution[1].decision.fingerprint.candidates = field.candidates
             /\ field.resolution[1].decision.fingerprint.regime = field.regime
             /\ field.resolution[1].decision.fingerprint.path = p
  <2>1. p \in Paths(overlaid.profile) /\ field.state \in {"user_confirmed", "user_corrected"}
    BY <1>1, <1>2 DEF resolvedByYou
  <2>2. p \in Paths(D)
    BY <2>1, OverlaidField
  <2>3. findProfileField(D, p).state \in Documentary
    BY <2>2, DocumentaryStates
  <2>4. field # findProfileField(D, p)
    BY <2>1, <2>3 DEF Documentary
  <2>5. PICK i \in DOMAIN sent : /\ sent[i].path = p /\ decisionResult(D, sent, i).status = "applied"
                                 /\ field = decided(findProfileField(D, p), sent[i])
    BY <1>1, <1>2, <2>1, <2>4, OverlaidField
  <2>6. sent[i].fingerprint = fingerprintOf(p, findProfileField(D, p))
    BY <2>5, AppliedOnEvidence
  <2>7. PICK f : f = fingerprintOf(p, findProfileField(D, p))
    OBVIOUS
  <2>8. f.path = p /\ f.candidates = findProfileField(D, p).candidates /\ f.regime = findProfileField(D, p).regime
    BY <2>7 DEF fingerprintOf
  <2>9. /\ field.resolution[1].decision = sent[i] /\ field.candidates = findProfileField(D, p).candidates
        /\ field.regime = findProfileField(D, p).regime
    BY <2>5 DEF decided
  <2> QED
    BY <2>6, <2>7, <2>8, <2>9
<1> QED
  BY <1>1, <1>2 DEF OnSeenEvidence

-----------------------------------------------------------------------------
(* What a filter of a list keeps *)

\* Every element at a kept position is in the filtered list, whose positions are numbers again: two kept
\* positions never have as many kept positions before them.
LEMMA FilteredKeeps ==
  ASSUME NEW list, NEW kept \in SUBSET Nat
  PROVE  /\ DOMAIN filtered(list, kept) \subseteq Nat
         /\ \A i \in kept : \E n \in DOMAIN filtered(list, kept) : filtered(list, kept)[n] = list[i]
<1> DEFINE upTo(i) == {j \in kept : j <= i}
           rank(i) == Cardinality(upTo(i))
<1>0. \A i \in kept : i \in Nat
  OBVIOUS
<1>1. \A i \in kept : IsFiniteSet(upTo(i)) /\ rank(i) \in Nat
  <2> SUFFICES ASSUME NEW i \in kept PROVE IsFiniteSet(upTo(i)) /\ rank(i) \in Nat
    OBVIOUS
  <2>1. IsFiniteSet(0 .. i)
    BY FS_Interval
  <2>2. upTo(i) \subseteq 0 .. i
    <3>1. ASSUME NEW j \in kept, j <= i
          PROVE  j \in 0 .. i
      BY <1>0, <3>1
    <3> QED
      BY <3>1
  <2> QED
    BY <2>1, <2>2, FS_Subset, FS_CardinalityType
<1>2. \A i, j \in kept : rank(i) = rank(j) => i = j
  <2>1. ASSUME NEW i \in kept, NEW j \in kept, i < j
        PROVE  rank(i) # rank(j)
    <3>1. \A n \in kept : n <= i => n <= j
      BY <1>0, <2>1
    <3>2. j <= j /\ ~(j <= i)
      BY <1>0, <2>1
    <3>3. upTo(i) \subseteq upTo(j) /\ j \in upTo(j) /\ j \notin upTo(i)
      BY <3>1, <3>2
    <3> QED
      BY <1>1, <3>3, FS_Subset
  <2> QED
    BY <1>0, <2>1
<1>3. filtered(list, kept) = [n \in {rank(i) : i \in kept} |-> list[CHOOSE i \in kept : rank(i) = n]]
  BY DEF filtered
<1> HIDE DEF rank
<1>4. \A i \in kept : (CHOOSE j \in kept : rank(j) = rank(i)) = i
  <2> TAKE i \in kept
  <2>1. \E j \in kept : rank(j) = rank(i)
    OBVIOUS
  <2>2. PICK k : k = CHOOSE j \in kept : rank(j) = rank(i)
    OBVIOUS
  <2>3. k \in kept /\ rank(k) = rank(i)
    BY <2>1, <2>2
  <2> QED
    BY <1>2, <2>2, <2>3
<1>5. \A i \in kept : rank(i) \in DOMAIN filtered(list, kept) /\ filtered(list, kept)[rank(i)] = list[i]
  BY <1>3, <1>4
<1> QED
  BY <1>1, <1>3, <1>5

\* What lands of a set of decisions: each is kept or reported as a problem of its field.
LEMMA SettledOrRejected ==
  ASSUME NEW sent, DOMAIN sent \subseteq Nat, NEW results
  PROVE  /\ DOMAIN settleDecisions(sent, results) \subseteq Nat
         /\ \A i \in DOMAIN sent :
              \/ sent[i].path \in rejectedPaths(sent, results)
              \/ \E n \in DOMAIN settleDecisions(sent, results) : settleDecisions(sent, results)[n] = sent[i]
<1>1. PICK kept \in SUBSET Nat : kept = {i \in DOMAIN sent : results[i].status # "rejected"}
  OBVIOUS
<1>2. settleDecisions(sent, results) = filtered(sent, kept)
  BY <1>1 DEF settleDecisions
<1>3. \A i \in DOMAIN sent : i \in kept \/ sent[i].path \in rejectedPaths(sent, results)
  BY <1>1 DEF rejectedPaths
<1> QED
  BY <1>2, <1>3, FilteredKeeps

\* The decisions an Apply or an Undo sends are a list.
LEMMA SentIsList ==
  ASSUME NEW current, DOMAIN current \subseteq Nat, NEW new, NEW path
  PROVE  /\ DOMAIN mergeDecisionSet(current, new) \subseteq Nat
         /\ DOMAIN removeDecision(current, path) \subseteq Nat
<1>1. \A s, t : DOMAIN (s \o t) = 1 .. (Len(s) + Len(t))
  OBVIOUS
<1>2. DOMAIN mergeDecisionSet(current, new) \subseteq Nat
  BY <1>1 DEF mergeDecisionSet
<1>3. {i \in DOMAIN current : current[i].path # path} \in SUBSET Nat
  OBVIOUS
<1>4. DOMAIN removeDecision(current, path) \subseteq Nat
  BY <1>3, FilteredKeeps DEF removeDecision
<1> QED
  BY <1>2, <1>4

-----------------------------------------------------------------------------
(* Requests *)

\* A superseded request is an old one whose answer will not land.
LEMMA SupersededRequest ==
  ASSUME RequestType, NEW s \in Superseded
  PROVE  \E r \in requests : s = [kind |-> r.kind, sent |-> r.sent, outcome |-> r.outcome, latest |-> FALSE]
<1>1. PICK r \in requests : s = [r EXCEPT !.latest = FALSE]
  BY DEF Superseded
<1>2. r = [kind |-> r.kind, sent |-> r.sent, outcome |-> r.outcome, latest |-> r.latest]
  BY DEF RequestType
<1>3. s = [kind |-> r.kind, sent |-> r.sent, outcome |-> r.outcome, latest |-> FALSE]
  BY <1>1, <1>2
<1> QED
  BY <1>3

\* After a new request the old ones are superseded.
LEMMA AskStep ==
  ASSUME NEW kind, NEW date, NEW documents, NEW sent, DOMAIN sent \subseteq Nat,
         RequestType, Ask(kind, date, documents, sent)
  PROVE  /\ \A r \in requests' :
              /\ r = [kind |-> r.kind, sent |-> r.sent, outcome |-> r.outcome, latest |-> r.latest]
              /\ r.latest \in BOOLEAN /\ DOMAIN r.sent \subseteq Nat /\ OnSeenEvidence(r.outcome)
         /\ \A r, s \in requests' : r.latest /\ s.latest => r = s
         /\ \A r \in requests' : r.latest => r.kind = kind /\ r.sent = sent /\ r.outcome.asOf = date
<1>1. PICK outcome : /\ requests' = Superseded \cup {[kind |-> kind, sent |-> sent, outcome |-> outcome, latest |-> TRUE]}
                     /\ outcome.asOf = date /\ OnSeenEvidence(outcome)
  <2>1. PICK D : D = resolvePayrollProfile(documents, date)
    OBVIOUS
  <2>2. PICK overlaid : overlaid = applyUserDecisions(D, sent)
    OBVIOUS
  <2>3. PICK outcome : outcome = resolvedProfile(date, overlaid, sent)
    OBVIOUS
  <2>4. requests' = Superseded \cup {[kind |-> kind, sent |-> sent, outcome |-> outcome, latest |-> TRUE]}
    BY <2>1, <2>2, <2>3 DEF Ask
  <2>5. outcome.asOf = date /\ OnSeenEvidence(outcome)
    BY <2>1, <2>2, <2>3, ResolvedOnSeenEvidence
  <2> QED
    BY <2>4, <2>5
<1>2. PICK new : new = [kind |-> kind, sent |-> sent, outcome |-> outcome, latest |-> TRUE]
  OBVIOUS
<1>3. ASSUME NEW s \in Superseded
      PROVE  /\ s = [kind |-> s.kind, sent |-> s.sent, outcome |-> s.outcome, latest |-> s.latest]
             /\ s.latest = FALSE /\ DOMAIN s.sent \subseteq Nat /\ OnSeenEvidence(s.outcome)
  <2>1. PICK r \in requests : s = [kind |-> r.kind, sent |-> r.sent, outcome |-> r.outcome, latest |-> FALSE]
    BY SupersededRequest
  <2>2. s.kind = r.kind /\ s.sent = r.sent /\ s.outcome = r.outcome /\ s.latest = FALSE
    BY <2>1
  <2>3. DOMAIN r.sent \subseteq Nat /\ OnSeenEvidence(r.outcome)
    BY DEF RequestType
  <2> QED
    BY <2>1, <2>2, <2>3
<1>4. \A r \in requests' : r \in Superseded \/ r = new
  BY <1>1, <1>2
<1>5. /\ new = [kind |-> new.kind, sent |-> new.sent, outcome |-> new.outcome, latest |-> new.latest]
      /\ new.latest = TRUE /\ new.kind = kind /\ new.sent = sent /\ new.outcome = outcome
  BY <1>2
<1> QED
  BY <1>1, <1>3, <1>4, <1>5

-----------------------------------------------------------------------------
(* The inductive invariant, action by action *)

\* What the calculator shows after a render: new first values whenever the profile may have changed.
LEMMA RenderedStep ==
  ASSUME NEW bump \in BOOLEAN, Rendered(bump),
         bump \/ (CalculatorFollows /\ shown' = shown /\ submitting' = submitting)
  PROVE  CalculatorFollows'
<1>1. calculator' = <<>> \/ calculator' = <<contractPrefill(shown')>> \/ (~bump /\ calculator' = calculator)
  BY DEF Rendered
<1>2. CASE calculator' = <<>>
  BY <1>2 DEF CalculatorFollows
<1>3. CASE calculator' = <<contractPrefill(shown')>>
  BY <1>3 DEF CalculatorFollows
<1>4. CASE ~bump /\ calculator' = calculator
  <2>1. CalculatorFollows /\ shown' = shown /\ submitting' = submitting
    BY <1>4
  <2>2. contractPrefill(shown') = contractPrefill(shown)
    BY <2>1
  <2> QED
    BY <1>4, <2>1, <2>2, Zenon DEF CalculatorFollows
<1> QED
  BY <1>1, <1>2, <1>3, <1>4

LEMMA InitIInv == Init => IInv
BY DEF Init, IInv, RequestType, LatestRequest, NothingBeforeReading, ShownForDate, DecisionOnSeenEvidence,
       CalculatorFollows, NoProfile

\* The list of files and the choices of the user change nothing the invariant speaks of.
LEMMA QuietStep ==
  ASSUME IInv, UNCHANGED <<requests, shown, decisions, asOfDate, submitting, calculator, resolvedDocuments>>
  PROVE  IInv'
<1>1. RequestType' /\ LatestRequest' /\ NothingBeforeReading' /\ (DOMAIN decisions \subseteq Nat)'
  BY DEF IInv, RequestType, LatestRequest, NothingBeforeReading
<1>2. ShownForDate' /\ DecisionOnSeenEvidence'
  BY DEF IInv, ShownForDate, DecisionOnSeenEvidence
<1>3. CalculatorFollows'
  BY DEF IInv, CalculatorFollows, contractPrefill
<1> QED
  BY <1>1, <1>2, <1>3 DEF IInv

LEMMA SubmitStep == ASSUME IInv, submitAll PROVE IInv'
<1>1. /\ shown' = NoProfile /\ submitting' = TRUE
      /\ UNCHANGED <<requests, decisions, asOfDate, resolvedDocuments>>
  BY DEF submitAll
<1>2. RequestType' /\ LatestRequest' /\ NothingBeforeReading' /\ (DOMAIN decisions \subseteq Nat)'
  BY <1>1 DEF IInv, RequestType, LatestRequest, NothingBeforeReading
<1>3. ShownForDate' /\ DecisionOnSeenEvidence' /\ CalculatorFollows'
  BY <1>1 DEF ShownForDate, DecisionOnSeenEvidence, CalculatorFollows
<1> QED
  BY <1>2, <1>3 DEF IInv

\* A new request for the date on the page.
LEMMA AskedStep ==
  ASSUME IInv, NEW kind, NEW documents, NEW sent, DOMAIN sent \subseteq Nat, NEW date,
         Ask(kind, date, documents, sent), date = asOfDate', kind = "decide" \/ sent = decisions,
         decisions' = decisions, resolvedDocuments' # <<>>
  PROVE  RequestType' /\ LatestRequest' /\ NothingBeforeReading' /\ (DOMAIN decisions \subseteq Nat)'
<1>1. /\ \A r \in requests' :
           /\ r = [kind |-> r.kind, sent |-> r.sent, outcome |-> r.outcome, latest |-> r.latest]
           /\ r.latest \in BOOLEAN /\ DOMAIN r.sent \subseteq Nat /\ OnSeenEvidence(r.outcome)
      /\ \A r, s \in requests' : r.latest /\ s.latest => r = s
      /\ \A r \in requests' : r.latest => r.kind = kind /\ r.sent = sent /\ r.outcome.asOf = date
  BY AskStep DEF IInv
<1>2. RequestType'
  BY <1>1 DEF RequestType
<1>3. LatestRequest'
  BY <1>1 DEF LatestRequest
<1> QED
  BY <1>2, <1>3 DEF IInv, NothingBeforeReading

LEMMA ReadingDoneStep == ASSUME IInv, NEW failed, ReadingDone(failed) PROVE IInv'
<1>1. PICK documents : resolvedDocuments' = <<documents>> /\ Ask("submit", asOfDate, documents, decisions)
  BY DEF ReadingDone
<1>2. UNCHANGED <<shown, decisions, asOfDate, submitting, calculator>>
  BY DEF ReadingDone
<1>3. RequestType' /\ LatestRequest' /\ NothingBeforeReading' /\ (DOMAIN decisions \subseteq Nat)'
  BY <1>1, <1>2, AskedStep DEF IInv
<1>4. ShownForDate' /\ DecisionOnSeenEvidence'
  BY <1>2 DEF IInv, ShownForDate, DecisionOnSeenEvidence
<1>5. CalculatorFollows'
  BY <1>2 DEF IInv, CalculatorFollows, contractPrefill
<1> QED
  BY <1>3, <1>4, <1>5 DEF IInv

\* A new date: the profile goes, and with it the first values of the calculator.
LEMMA ChangeDateStep == ASSUME IInv, NEW date, ChangeDate(date) PROVE IInv'
<1>1. /\ asOfDate' = date /\ shown' = NoProfile /\ resolvedDocuments # <<>> /\ Rendered(TRUE)
      /\ UNCHANGED <<decisions, resolvedDocuments>>
  BY DEF ChangeDate, submitVars
<1>2. RequestType' /\ LatestRequest' /\ NothingBeforeReading' /\ (DOMAIN decisions \subseteq Nat)'
  <2>1. CASE date = NoDate
    <3>1. requests' = Superseded
      BY <2>1 DEF ChangeDate
    <3>2. ASSUME NEW s \in requests'
          PROVE  /\ s = [kind |-> s.kind, sent |-> s.sent, outcome |-> s.outcome, latest |-> s.latest]
                 /\ s.latest = FALSE /\ DOMAIN s.sent \subseteq Nat /\ OnSeenEvidence(s.outcome)
      <4>1. PICK r \in requests : s = [kind |-> r.kind, sent |-> r.sent, outcome |-> r.outcome, latest |-> FALSE]
        BY <3>1, SupersededRequest DEF IInv
      <4>2. s.kind = r.kind /\ s.sent = r.sent /\ s.outcome = r.outcome /\ s.latest = FALSE
        BY <4>1
      <4> QED
        BY <4>1, <4>2 DEF IInv, RequestType
    <3>3. RequestType' /\ LatestRequest'
      BY <3>2 DEF RequestType, LatestRequest
    <3> QED
      BY <1>1, <3>3 DEF IInv, NothingBeforeReading
  <2>2. CASE date # NoDate
    <3>1. Ask("date", date, resolvedDocuments[1], decisions)
      BY <2>2 DEF ChangeDate
    <3> QED
      BY <1>1, <3>1, AskedStep DEF IInv
  <2> QED
    BY <2>1, <2>2
<1>3. ShownForDate' /\ DecisionOnSeenEvidence'
  BY <1>1 DEF ShownForDate, DecisionOnSeenEvidence
<1>4. CalculatorFollows'
  BY <1>1, RenderedStep
<1> QED
  BY <1>2, <1>3, <1>4 DEF IInv

LEMMA ChangeDateEarlyStep == ASSUME IInv, NEW date, ChangeDateEarly(date) PROVE IInv'
<1>1. /\ resolvedDocuments = <<>> /\ requests = {} /\ shown = NoProfile
      /\ UNCHANGED <<requests, shown, decisions, submitting, calculator, resolvedDocuments>>
  BY DEF ChangeDateEarly, IInv, NothingBeforeReading, submitVars
<1>2. RequestType' /\ LatestRequest' /\ NothingBeforeReading' /\ (DOMAIN decisions \subseteq Nat)'
  BY <1>1 DEF IInv, RequestType, LatestRequest, NothingBeforeReading
<1>3. ShownForDate' /\ DecisionOnSeenEvidence'
  BY <1>1 DEF ShownForDate, DecisionOnSeenEvidence
<1>4. CalculatorFollows'
  BY <1>1 DEF IInv, CalculatorFollows, contractPrefill
<1> QED
  BY <1>2, <1>3, <1>4 DEF IInv

\* Apply and Undo ask for the date of the profile on the page, which is the date on the page.
LEMMA DecideStep ==
  ASSUME IInv, Asked, NEW sent, DOMAIN sent \subseteq Nat, resolveDecisionSet(sent)
  PROVE  IInv'
<1>1. /\ Ask("decide", shown[1].asOf, resolvedDocuments[1], sent)
      /\ UNCHANGED <<shown, decisions, asOfDate, submitting, calculator, resolvedDocuments>>
  BY DEF resolveDecisionSet, submitVars
<1>2. shown[1].asOf = asOfDate /\ resolvedDocuments # <<>>
  BY DEF IInv, Asked, ShownForDate, NothingBeforeReading
<1>3. RequestType' /\ LatestRequest' /\ NothingBeforeReading' /\ (DOMAIN decisions \subseteq Nat)'
  BY <1>1, <1>2, AskedStep
<1>4. ShownForDate' /\ DecisionOnSeenEvidence'
  BY <1>1 DEF IInv, ShownForDate, DecisionOnSeenEvidence
<1>5. CalculatorFollows'
  BY <1>1 DEF IInv, CalculatorFollows, contractPrefill
<1> QED
  BY <1>3, <1>4, <1>5 DEF IInv

\* The end of a request, whether its answer lands or not.
LEMMA EndedStep ==
  ASSUME IInv, NEW r \in requests, NEW ok \in BOOLEAN, requests' = requests \ {r},
         IF r.latest /\ ok THEN Lands(r) ELSE LandsNot, UNCHANGED <<asOfDate, resolvedDocuments>>
  PROVE  /\ RequestType' /\ LatestRequest' /\ NothingBeforeReading' /\ (DOMAIN decisions \subseteq Nat)'
         /\ ShownForDate' /\ DecisionOnSeenEvidence'
<1>1. RequestType' /\ NothingBeforeReading'
  <2>1. resolvedDocuments # <<>>
    BY DEF IInv, NothingBeforeReading
  <2> QED
    BY <2>1 DEF IInv, RequestType, NothingBeforeReading
<1>2. CASE r.latest /\ ok
  <2>1. shown' = <<r.outcome>> /\ decisions' = settleDecisions(r.sent, r.outcome.results)
    BY <1>2 DEF Lands
  <2>2. /\ DOMAIN r.sent \subseteq Nat /\ OnSeenEvidence(r.outcome) /\ r.outcome.asOf = asOfDate
        /\ \A s \in requests' : ~s.latest
    BY <1>2 DEF IInv, RequestType, LatestRequest
  <2>3. shown'[1] = r.outcome
    BY <2>1
  <2>4. (DOMAIN decisions \subseteq Nat)'
    BY <2>1, <2>2, SettledOrRejected
  <2>5. LatestRequest'
    BY <2>2 DEF LatestRequest
  <2> QED
    BY <1>1, <2>2, <2>3, <2>4, <2>5 DEF ShownForDate, DecisionOnSeenEvidence
<1>3. CASE ~(r.latest /\ ok)
  <2>1. UNCHANGED <<decisions, shown>>
    BY <1>3 DEF LandsNot
  <2>2. LatestRequest' /\ (DOMAIN decisions \subseteq Nat)'
    BY <2>1 DEF IInv, LatestRequest
  <2>3. ShownForDate' /\ DecisionOnSeenEvidence'
    BY <2>1 DEF IInv, ShownForDate, DecisionOnSeenEvidence
  <2> QED
    BY <1>1, <2>2, <2>3
<1> QED
  BY <1>2, <1>3

LEMMA AnsweredStep ==
  ASSUME IInv, NEW r \in requests, NEW ok \in BOOLEAN,
         SubmitAnswered(r, ok) \/ DateAnswered(r, ok) \/ DecideAnswered(r, ok)
  PROVE  IInv'
<1>1. /\ requests' = requests \ {r} /\ UNCHANGED <<asOfDate, resolvedDocuments>>
      /\ IF r.latest /\ ok THEN Lands(r) ELSE LandsNot
  BY DEF SubmitAnswered, DateAnswered, DecideAnswered, submitVars
<1>2. /\ RequestType' /\ LatestRequest' /\ NothingBeforeReading' /\ (DOMAIN decisions \subseteq Nat)'
      /\ ShownForDate' /\ DecisionOnSeenEvidence'
  BY <1>1, EndedStep
<1>3. CalculatorFollows'
  <2>1. CASE SubmitAnswered(r, ok)
    BY <2>1, RenderedStep DEF SubmitAnswered
  <2>2. CASE DateAnswered(r, ok) \/ DecideAnswered(r, ok)
    <3>1. PICK bump \in BOOLEAN : bump = (r.latest /\ ok)
      OBVIOUS
    <3>2. Rendered(bump) /\ submitting' = submitting
      BY <2>2, <3>1 DEF DateAnswered, DecideAnswered, submitVars
    <3>3. bump \/ shown' = shown
      BY <1>1, <3>1 DEF LandsNot
    <3> QED
      BY <3>2, <3>3, RenderedStep DEF IInv
  <2> QED
    BY <2>1, <2>2
<1> QED
  BY <1>2, <1>3 DEF IInv

LEMMA AnswerQuestionsStep == ASSUME IInv, AnswerQuestions PROVE IInv'
<1>1. ASSUME NEW path, NEW choice, touchField(path, choice)
      PROVE  IInv'
  BY <1>1, QuietStep DEF touchField, submitVars
<1>2. CASE applyPendingDecisions
  BY <1>2, SentIsList, DecideStep DEF applyPendingDecisions, AnswerQuestions, IInv
<1>3. ASSUME NEW p, undoUserDecision(p)
      PROVE  IInv'
  BY <1>3, SentIsList, DecideStep DEF undoUserDecision, AnswerQuestions, IInv
<1> QED
  BY <1>1, <1>2, <1>3 DEF AnswerQuestions, chooseCandidate, enterManual, skipIssue, acceptSuggestion

LEMMA StepIInv == IInv /\ [Next]_vars => IInv'
<1> SUFFICES ASSUME IInv, [Next]_vars PROVE IInv'
  OBVIOUS
<1>1. CASE EditFiles
  <2>1. UNCHANGED <<requests, shown, decisions, asOfDate, submitting, calculator, resolvedDocuments>>
    BY <1>1 DEF EditFiles, handleFilesAdded, RemoveFile, TypeFile, DateFile, EditList, submitVars
  <2> QED
    BY <2>1, QuietStep
<1>2. CASE ChangeDates
  BY <1>2, ChangeDateEarlyStep, ChangeDateStep DEF ChangeDates
<1>3. CASE Reads
  BY <1>3, ReadingDoneStep DEF Reads
<1>4. CASE Answered
  BY <1>4, AnsweredStep DEF Answered
<1>5. CASE UNCHANGED vars
  BY <1>5, QuietStep DEF vars
<1> QED
  BY <1>1, <1>2, <1>3, <1>4, <1>5, SubmitStep, AnswerQuestionsStep DEF Next

\* The inductive invariant of the page: one request is the latest, it asks for the date on the page, and it
\* carries the decisions in force.
THEOREM Invariant == Spec => []IInv
BY InitIInv, StepIInv, PTL DEF Spec

\* The profile on the page is the one of the as-of date on the page, whichever answers arrive late.
THEOREM OfTheDate == Spec => []ShownForDate
<1>1. IInv => ShownForDate
  BY DEF IInv
<1> QED
  BY <1>1, Invariant, PTL

\* A field decided by the user still offers the candidates and the regime the decision was made on, whatever
\* documents, dates and decisions were sent.
THEOREM OnTheEvidence == Spec => []DecisionOnSeenEvidence
<1>1. IInv => DecisionOnSeenEvidence
  BY DEF IInv
<1> QED
  BY <1>1, Invariant, PTL

\* Outside a submission the calculator was seeded with the profile on the page.
THEOREM SeededAsShown == Spec => []CalculatorFollows
<1>1. IInv => CalculatorFollows
  BY DEF IInv
<1> QED
  BY <1>1, Invariant, PTL

\* A decision of the user is gone only because it was undone, replaced or rejected: an answer that lands
\* settles the decisions in force, or those of an Apply or Undo.
THEOREM DecisionsKept == Spec => DecisionsSurvive
<1> DEFINE Survives(i) ==
      \/ \E j \in DOMAIN decisions' : decisions'[j].path = decisions[i].path
      \/ decisions[i].path \in problems'
      \/ \E r \in requests \ requests' : r.kind = "decide" /\ \A k \in DOMAIN r.sent : r.sent[k].path # decisions[i].path
<1>1. ASSUME IInv, NEW r \in requests, NEW ok \in BOOLEAN,
             SubmitAnswered(r, ok) \/ DateAnswered(r, ok) \/ DecideAnswered(r, ok), NEW i \in DOMAIN decisions
      PROVE  Survives(i)
  <2>1. requests' = requests \ {r} /\ (IF r.latest /\ ok THEN Lands(r) ELSE LandsNot)
    BY <1>1 DEF SubmitAnswered, DateAnswered, DecideAnswered
  <2>2. CASE r.latest /\ ok
    <3>1. /\ decisions' = settleDecisions(r.sent, r.outcome.results)
          /\ problems' = rejectedPaths(r.sent, r.outcome.results)
      BY <2>1, <2>2 DEF Lands
    <3>2. DOMAIN r.sent \subseteq Nat /\ (r.kind # "decide" => r.sent = decisions)
      BY <1>1, <2>2 DEF IInv, RequestType, LatestRequest
    <3>3. CASE \E k \in DOMAIN r.sent : r.sent[k].path = decisions[i].path
      <4>1. PICK k \in DOMAIN r.sent : r.sent[k].path = decisions[i].path
        BY <3>3
      <4>2. \/ r.sent[k].path \in problems'
            \/ \E n \in DOMAIN decisions' : decisions'[n] = r.sent[k]
        BY <3>1, <3>2, SettledOrRejected
      <4> QED
        BY <4>1, <4>2
    <3>4. CASE \A k \in DOMAIN r.sent : r.sent[k].path # decisions[i].path
      <4>1. r.kind = "decide"
        BY <3>2, <3>4
      <4> QED
        BY <2>1, <3>4, <4>1
    <3> QED
      BY <3>3, <3>4
  <2>3. CASE ~(r.latest /\ ok)
    BY <2>1, <2>3 DEF LandsNot
  <2> QED
    BY <2>2, <2>3
<1>2. ASSUME Next, ~Answered
      PROVE  decisions' = decisions
  <2>1. CASE EditFiles
    BY <2>1 DEF EditFiles, handleFilesAdded, RemoveFile, TypeFile, DateFile, EditList
  <2>2. CASE ChangeDates
    BY <2>2 DEF ChangeDates, ChangeDateEarly, ChangeDate
  <2>3. CASE submitAll \/ Reads
    BY <2>3 DEF submitAll, Reads, ReadingDone
  <2>4. CASE AnswerQuestions
    BY <2>4 DEF AnswerQuestions, chooseCandidate, enterManual, skipIssue, acceptSuggestion, touchField,
                applyPendingDecisions, undoUserDecision, resolveDecisionSet
  <2> QED
    BY <1>2, <2>1, <2>2, <2>3, <2>4 DEF Next
<1>3. IInv /\ [Next]_vars => [\A i \in DOMAIN decisions : Survives(i)]_vars
  <2> SUFFICES ASSUME IInv, Next, NEW i \in DOMAIN decisions
               PROVE  Survives(i)
    OBVIOUS
  <2>1. CASE Answered
    BY <1>1, <2>1 DEF Answered
  <2>2. CASE ~Answered
    BY <1>2, <2>2
  <2> QED
    BY <2>1, <2>2
<1> QED
  BY <1>3, Invariant, PTL DEF Spec, DecisionsSurvive
=============================================================================
