------------------------ MODULE MCConversationScenario ------------------------
(* Three values, so that two documents that disagree and a user of a third
   opinion meet; Loonto may assume the first one. For a yes or no the first is
   yes, the second no. *)
EXTENDS ConversationScenario, TLC

CONSTANTS v1, v2, v3, d1, d2
MCValues == {v1, v2, v3}
MCDocuments == {d1, d2}
MCCatalogue == {v1}
MCSymmetry == Permutations(MCDocuments)
===============================================================================
