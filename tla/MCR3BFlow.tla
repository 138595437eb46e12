------------------------------- MODULE MCR3BFlow -------------------------------
(* A small instance of R3BFlow for TLC. *)
EXTENDS R3BFlow

CONSTANTS v1, v2

TwoValues == {v1, v2}
TwoDocuments == 1 .. 2

\* The second document is an annex and, where both print a rate, disagrees with the first.
SecondIsAnnex == {2}
EachItsOwn == [d \in TwoDocuments |-> IF d = 1 THEN {v1} ELSE {v2}]

\* No value is assumed for an hourly rate.
NoCatalogue == {}

\* Before its date the annex does not count; from then on the two stand beside each other.
BeforeOrFrom == {{1}, {1, 2}}

\* A message states the second value or says something else.
SecondValueOrOther == {m \in Messages : m.states \subseteq {v2} /\ m.reply = "other"}
=============================================================================
