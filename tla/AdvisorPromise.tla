--------------------------- MODULE AdvisorPromise ---------------------------
(***************************************************************************)
(* What the advisor promises its user, without the model calls, the tools, *)
(* the check and the rewrite behind it (the header of advisor-turn.ts):    *)
(* every message is answered from what was supplied in the conversation,   *)
(* or the turn ends without an answer.  It never shows anything else.      *)
(***************************************************************************)
EXTENDS ClaimCheck

VARIABLES asking, supplied, shown

pvars == <<asking, supplied, shown>>

\* An answer the supplied claims allow.
Honest(draft) ==
  /\ draft \in Draft
  /\ ~draft.entitlement
  /\ \A m \in draft.mentions : \E s \in supplied : Supports(s, m)

Init == asking = FALSE /\ supplied = {} /\ shown = NoDraft

\* The conversation learns claims and forgets none.
Learns == supplied' \in SUBSET Claim /\ supplied \subseteq supplied'

Ask    == ~asking /\ asking' = TRUE /\ Learns /\ shown' = NoDraft
Learn  == asking /\ Learns /\ UNCHANGED <<asking, shown>>
Answer == asking /\ asking' = FALSE /\ Honest(shown') /\ UNCHANGED supplied
GiveUp == asking /\ asking' = FALSE /\ UNCHANGED <<supplied, shown>>

Next == Ask \/ Learn \/ Answer \/ GiveUp

Safety == Init /\ [][Next]_pvars
\* Every message is dealt with.
Spec == Safety /\ (asking ~> ~asking)

=============================================================================
