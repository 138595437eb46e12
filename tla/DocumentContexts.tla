-------------------------- MODULE DocumentContexts --------------------------
(***************************************************************************)
(* The server-held document records (document-context/store.ts), the       *)
(* browser session they are bound to (document-context/session.ts) and the *)
(* five routes that write or read them: the reader routes, profile/resolve,*)
(* payslip-replay, scenario/turn and advisor/v1/turn.                      *)
(*                                                                         *)
(* A handler is a request in a slot: it captures the session cookie when   *)
(* it starts, and every database call it awaits is a step of its own, so   *)
(* requests of one or of several browsers interleave between any two of    *)
(* them.  Time is discrete; the platform kills a request that has run for  *)
(* Latency ticks (vercel.json maxDuration).                                *)
(*                                                                         *)
(* What a record holds is abstracted to WHERE its facts come from: a fact  *)
(* is a reading this server made for a session at a time, a value the      *)
(* client echoed, or a decision of the user.                               *)
(***************************************************************************)
EXTENDS Integers

CONSTANTS
  Browsers,      \* browsers (each has one cookie jar)
  Slots,         \* requests that may be in flight at once
  TTL,           \* DOCUMENT_SESSION_MAX_AGE_SECONDS, in ticks
  Latency,       \* longest life of one request, in ticks
  MaxTime,       \* bound: the clock
  MaxRefs,       \* bound: records ever stored
  MaxSessions    \* bound: sessions ever issued

ASSUME BoundsAssumption ==
  /\ TTL \in Nat /\ Latency \in Nat
  /\ MaxTime \in Nat /\ MaxRefs \in Nat /\ MaxSessions \in Nat
  /\ 0 < Latency /\ Latency < TTL

VARIABLES
  clock,
  table,         \* the rows of document_contexts
  nextRef,       \* references are random and never repeat: the next fresh one
  nextSession,   \* session ids are random and never repeat: the next fresh one
  issuedAt,      \* when each session id was made (history, never read by the code)
  cookie,        \* the loonto_doc_session cookie of each browser
  reqs           \* the requests in flight

vars == <<clock, table, nextRef, nextSession, issuedAt, cookie, reqs>>

None == 0

Ref     == 1 .. MaxRefs
Session == 1 .. MaxSessions

Fact   == [origin : {"server", "client", "user"}, session : Session \cup {None}, at : 0 .. MaxTime]
Echoed == [origin |-> "client", session |-> None, at |-> 0]
Decision == [origin |-> "user", session |-> None, at |-> 0]

Record == [ref : Ref, session : Session, kind : {"batch", "context", "advisor"},
           facts : SUBSET Fact,          \* the readings its payload was made from
           docRef : Ref \cup {None},     \* advisor: the document context it remembers
           expires : Nat]

Request == [pc : {"idle", "reader", "load", "context", "conversation", "model", "reply"},
            browser : Browsers \cup {None},
            route : {"read", "resolve", "replay", "turn", "advisor"},
            session : Session \cup {None},
            issued : BOOLEAN,              \* the reply carries Set-Cookie
            since : 0 .. MaxTime,
            todo : SUBSET Ref,             \* batch references still to load
            echo : BOOLEAN,                \* some document came as echoed batches
            decided : BOOLEAN,             \* user decisions came with the request
            named : Ref \cup {None},       \* documentContextRef of the request
            docRef : Ref \cup {None},      \* the document context the turn goes by
            conversation : Ref \cup {None},
            facts : SUBSET Fact,           \* what its profile, claims or answer rest on
            given : Ref \cup {None}]       \* the reference the reply hands out

Idle == [pc |-> "idle", browser |-> None, route |-> "read", session |-> None, issued |-> FALSE,
         since |-> 0, todo |-> {}, echo |-> FALSE, decided |-> FALSE, named |-> None,
         docRef |-> None, conversation |-> None, facts |-> {}, given |-> None]

Init ==
  /\ clock = 0
  /\ table = {}
  /\ nextRef = 1
  /\ nextSession = 1
  /\ issuedAt = [s \in Session |-> 0]
  /\ cookie = [b \in Browsers |-> [id |-> None, expires |-> 0]]
  /\ reqs = [q \in Slots |-> Idle]

-----------------------------------------------------------------------------
(* session.ts *)

\* readSessionHash: the cookie the browser still sends (it drops it at maxAge).
readSessionHash(b) == IF clock < cookie[b].expires THEN cookie[b].id ELSE None

\* ensureSessionHash: the request's session, or a fresh one whose cookie the reply will set.
ensureSessionHash(s) == IF s # None THEN s ELSE nextSession

SessionIssued(s) ==
  IF s # None THEN UNCHANGED <<nextSession, issuedAt>>
  ELSE /\ nextSession <= MaxSessions
       /\ nextSession' = nextSession + 1
       /\ issuedAt' = [issuedAt EXCEPT ![nextSession] = clock]

-----------------------------------------------------------------------------
(* store.ts *)

Unexpired == {r \in table : ~(r.expires < clock)}   \* what DELETE ... expires_at < now() leaves

\* putRecord succeeds: expired rows go, the new one is in, its reference is returned.
putRecord(session, kind, facts, docRef) ==
  /\ nextRef <= MaxRefs
  /\ table' = Unexpired \cup
       {[ref |-> nextRef, session |-> session, kind |-> kind, facts |-> facts,
         docRef |-> docRef, expires |-> clock + TTL]}
  /\ nextRef' = nextRef + 1

\* putRecord returns null: no database, or one of its two statements failed.
putFails ==
  /\ table' \in {table, Unexpired}
  /\ UNCHANGED nextRef

\* getRecord: the rows it may answer with - this session, unexpired, of this kind.
getRecord(ref, session, kind) ==
  {r \in table : /\ r.ref = ref /\ r.session = session /\ session # None
                 /\ r.kind = kind /\ r.expires > clock}

-----------------------------------------------------------------------------
(* A request reaches its route. *)

Arrives(b, route, pc) ==
  [Idle EXCEPT !.pc = pc, !.browser = b, !.route = route, !.since = clock,
               !.session = readSessionHash(b)]

Serving == <<clock, cookie>>

Moves(q, r) == reqs' = [reqs EXCEPT ![q] = r]

\* Every reference a client may name: one some reply has handed out (a browser keeps its
\* references when its cookie is dropped or replaced, so they may be of another session).
KnownRefs == 1 .. (nextRef - 1)

\* The handler is done: its reply rests on these facts and hands out this reference, if any.
Answered(r, facts, given) ==
  [Idle EXCEPT !.pc = "reply", !.browser = r.browser, !.session = r.session, !.issued = r.issued,
               !.since = r.since, !.facts = facts, !.given = given]

Refused(r) == Answered(r, {}, None)

-----------------------------------------------------------------------------
(* POST /api/pro/{payslip,contract}-facts *)

StartRead(q, b) ==
  /\ reqs[q].pc = "idle"
  /\ Moves(q, Arrives(b, "read", "reader"))
  /\ UNCHANGED <<table, nextRef, nextSession, issuedAt>> /\ UNCHANGED Serving

\* The reader fails, is refused by the provider or passes its own deadline: 502 / 504, no session.
ReaderFails(q) ==
  /\ reqs[q].pc = "reader"
  /\ Moves(q, Refused(reqs[q]))
  /\ UNCHANGED <<table, nextRef, nextSession, issuedAt>> /\ UNCHANGED Serving

\* The batch is kept for the (possibly fresh) session; without the store the reply has no batchRef.
KeepBatch(q) ==
  LET r == reqs[q]
      s == ensureSessionHash(r.session)
      reading == [origin |-> "server", session |-> s, at |-> clock]
      ensured == [r EXCEPT !.session = s, !.issued = (r.session = None)]
  IN /\ r.pc = "reader"
     /\ SessionIssued(r.session)
     /\ \/ /\ putRecord(s, "batch", {reading}, None)
           /\ Moves(q, Answered(ensured, {reading}, nextRef))
        \/ /\ putFails
           /\ Moves(q, Answered(ensured, {reading}, None))
     /\ UNCHANGED Serving

-----------------------------------------------------------------------------
(* POST /api/profile/resolve and POST /api/pro/payslip-replay *)

StartByBatches(q, b, route) ==
  /\ reqs[q].pc = "idle"
  /\ \E refs \in SUBSET KnownRefs, echo, decided \in BOOLEAN :
       /\ refs # {} \/ echo
       /\ route = "replay" => /\ (refs = {}) = echo     \* exactly one of batchRefs / batches
                              /\ ~decided
       /\ Moves(q, [Arrives(b, route, "load") EXCEPT
                      !.todo = refs, !.echo = echo, !.decided = decided,
                      !.facts = IF echo THEN {Echoed} ELSE {}])
  /\ UNCHANGED <<table, nextRef, nextSession, issuedAt>> /\ UNCHANGED Serving

\* One document's batch comes back; a null (unknown, expired, other session, other kind, or the
\* query failed) refuses the whole request: 409 document_reference_invalid.
LoadBatch(q) ==
  LET r == reqs[q]
  IN /\ r.pc = "load"
     /\ \E ref \in r.todo :
          \/ \E rec \in getRecord(ref, r.session, "batch") :
               Moves(q, [r EXCEPT !.todo = @ \ {ref}, !.facts = @ \cup rec.facts])
          \/ Moves(q, Refused(r))
     /\ UNCHANGED <<table, nextRef, nextSession, issuedAt>> /\ UNCHANGED Serving

\* applyUserDecisions: the profile of the reply is the documentary one with the decisions on top.
applyUserDecisions(documentary, decided) ==
  IF decided THEN documentary \cup {Decision} ELSE documentary

\* Mutant of ResolveProfile: the context is built from the profile of the reply, decisions and echoes in it.
ResolveAnything(q) ==
  LET r == reqs[q]
      profile == applyUserDecisions(r.facts, r.decided)
  IN /\ r.pc = "load" /\ r.todo = {} /\ r.route = "resolve" /\ r.session # None
     /\ putRecord(r.session, "context", profile, None)
     /\ Moves(q, Answered(r, profile, nextRef))
     /\ UNCHANGED <<nextSession, issuedAt>> /\ UNCHANGED Serving

\* The profile is resolved; only when EVERY document came by reference is it kept as a context.
ResolveProfile(q) ==
  LET r == reqs[q]
      documentary == r.facts
      profile == applyUserDecisions(documentary, r.decided)
      byReference == ~r.echo
  IN /\ r.pc = "load" /\ r.todo = {} /\ r.route = "resolve"
     /\ \/ /\ byReference /\ r.session # None
           /\ \/ /\ putRecord(r.session, "context", documentary, None)
                 /\ Moves(q, Answered(r, profile, nextRef))
              \/ /\ putFails
                 /\ Moves(q, Answered(r, profile, None))
        \/ /\ ~(byReference /\ r.session # None)
           /\ Moves(q, Answered(r, profile, None))
           /\ UNCHANGED <<table, nextRef>>
     /\ UNCHANGED <<nextSession, issuedAt>> /\ UNCHANGED Serving

\* The replay calculates from the batches and answers (or 503 / 502); nothing is stored.
Replay(q) ==
  LET r == reqs[q]
  IN /\ r.pc = "load" /\ r.todo = {} /\ r.route = "replay"
     /\ \/ Moves(q, Answered(r, r.facts, None))
        \/ Moves(q, Refused(r))
     /\ UNCHANGED <<table, nextRef, nextSession, issuedAt>> /\ UNCHANGED Serving

-----------------------------------------------------------------------------
(* POST /api/scenario/turn *)

StartTurn(q, b) ==
  /\ reqs[q].pc = "idle"
  /\ \E ref \in KnownRefs \cup {None} :
       Moves(q, [Arrives(b, "turn", "context") EXCEPT !.named = ref, !.docRef = ref])
  /\ UNCHANGED <<table, nextRef, nextSession, issuedAt>> /\ UNCHANGED Serving

-----------------------------------------------------------------------------
(* POST /api/advisor/v1/turn *)

\* The session is ensured before anything is loaded.
StartAdvisor(q, b) ==
  /\ reqs[q].pc = "idle"
  /\ SessionIssued(readSessionHash(b))
  /\ \E conversation, ref \in KnownRefs \cup {None} :
       Moves(q, [Arrives(b, "advisor", "conversation") EXCEPT
                   !.session = ensureSessionHash(@), !.issued = (readSessionHash(b) = None),
                   !.conversation = conversation, !.named = ref])
  /\ UNCHANGED <<table, nextRef>> /\ UNCHANGED Serving

\* A named conversation is loaded or the turn is refused (409 conversation_invalid); the document
\* context is the one named now, or else the one the conversation remembers.
LoadConversation(q) ==
  LET r == reqs[q]
  IN /\ r.pc = "conversation"
     /\ \/ /\ r.conversation = None
           /\ Moves(q, [r EXCEPT !.pc = "context", !.docRef = r.named])
        \/ \E rec \in getRecord(r.conversation, r.session, "advisor") :
             Moves(q, [r EXCEPT !.pc = "context", !.facts = rec.facts,
                                !.docRef = IF r.named # None THEN r.named ELSE rec.docRef])
        \/ /\ r.conversation # None
           /\ Moves(q, Refused(r))
     /\ UNCHANGED <<table, nextRef, nextSession, issuedAt>> /\ UNCHANGED Serving

\* The document context of a turn (both routes).  One that was named and is not there: 409
\* document_context_invalid; one the advisor merely remembered: documentStatus 'expired'.
LoadContext(q) ==
  LET r == reqs[q]
  IN /\ r.pc = "context"
     /\ \/ /\ r.docRef = None
           /\ Moves(q, [r EXCEPT !.pc = "model"])
        \/ \E rec \in getRecord(r.docRef, r.session, "context") :
             Moves(q, [r EXCEPT !.pc = "model", !.facts = @ \cup rec.facts])
        \/ /\ r.docRef # None
           /\ Moves(q, IF r.named # None THEN Refused(r) ELSE [r EXCEPT !.pc = "model"])
     /\ UNCHANGED <<table, nextRef, nextSession, issuedAt>> /\ UNCHANGED Serving

\* The scenario turn ends (an answer, 503 tax_rates_unavailable, 500); it stores nothing.
FinishTurn(q) ==
  LET r == reqs[q]
  IN /\ r.pc = "model" /\ r.route = "turn"
     /\ \/ Moves(q, Answered(r, r.facts, None))
        \/ Moves(q, Refused(r))
     /\ UNCHANGED <<table, nextRef, nextSession, issuedAt>> /\ UNCHANGED Serving

\* The advisor ends: unavailable or withheld stores nothing; an answer is kept with its turn as a
\* NEW record - the claims it rests on (document values among them) and the context reference.
FinishAdvisor(q) ==
  LET r == reqs[q]
  IN /\ r.pc = "model" /\ r.route = "advisor"
     /\ \/ /\ Moves(q, Refused(r))
           /\ UNCHANGED <<table, nextRef>>
        \/ /\ putRecord(r.session, "advisor", r.facts, r.docRef)
           /\ Moves(q, Answered(r, r.facts, nextRef))
        \/ /\ putFails
           /\ Moves(q, Answered(r, r.facts, None))
     /\ UNCHANGED <<nextSession, issuedAt>> /\ UNCHANGED Serving

-----------------------------------------------------------------------------
(* The reply, the platform, time. *)

\* Mutant of Reply: every reply renews the cookie.
ReplyRenewing(q) ==
  LET r == reqs[q]
  IN /\ r.pc = "reply"
     /\ cookie' = IF r.session # None
                    THEN [cookie EXCEPT ![r.browser] = [id |-> r.session, expires |-> clock + TTL]]
                    ELSE cookie
     /\ Moves(q, Idle)
     /\ UNCHANGED <<clock, table, nextRef, nextSession, issuedAt>>

\* The reply reaches the browser, which keeps a new cookie for maxAge from now.
Reply(q) ==
  LET r == reqs[q]
  IN /\ r.pc = "reply"
     /\ cookie' = IF r.issued
                    THEN [cookie EXCEPT ![r.browser] = [id |-> r.session, expires |-> clock + TTL]]
                    ELSE cookie
     /\ Moves(q, Idle)
     /\ UNCHANGED <<clock, table, nextRef, nextSession, issuedAt>>

\* The reply is lost, or the platform kills the function: what was stored stays stored.
Abandon(q) ==
  /\ reqs[q].pc # "idle"
  /\ Moves(q, Idle)
  /\ UNCHANGED <<table, nextRef, nextSession, issuedAt>> /\ UNCHANGED Serving

Tick ==
  /\ clock < MaxTime
  /\ \A q \in Slots : reqs[q].pc # "idle" => clock < reqs[q].since + Latency
  /\ clock' = clock + 1
  /\ UNCHANGED <<table, nextRef, nextSession, issuedAt, cookie, reqs>>

Next ==
  \/ \E q \in Slots, b \in Browsers :
       \/ StartRead(q, b)
       \/ \E route \in {"resolve", "replay"} : StartByBatches(q, b, route)
       \/ StartTurn(q, b)
       \/ StartAdvisor(q, b)
  \/ \E q \in Slots :
       \/ ReaderFails(q) \/ KeepBatch(q)
       \/ LoadBatch(q) \/ ResolveProfile(q) \/ Replay(q)
       \/ LoadConversation(q) \/ LoadContext(q) \/ FinishTurn(q) \/ FinishAdvisor(q)
       \/ Reply(q) \/ Abandon(q)
  \/ Tick

Spec == Init /\ [][Next]_vars

-----------------------------------------------------------------------------
(* Properties *)

\* The variables keep their types (the state of the store, the cookies and the requests).
TypeOK ==
  /\ clock \in 0 .. MaxTime
  /\ table \in SUBSET Record
  /\ nextRef \in 1 .. (MaxRefs + 1)
  /\ nextSession \in 1 .. (MaxSessions + 1)
  /\ issuedAt \in [Session -> 0 .. MaxTime]
  /\ cookie \in [Browsers -> [id : Session \cup {None}, expires : Nat]]
  /\ reqs \in [Slots -> Request]

\* Nothing a client sends is ever stored as a document fact, and no record holds facts of another
\* session: every fact behind a stored batch, context or conversation is a reading this server made
\* for that same session - whatever mixture of references, echoes and decisions the requests carried
\* (store.ts: "nothing a client sends is ever stored as a document fact").
ContextProvenance ==
  \A rec \in table : \A f \in rec.facts : f.origin = "server" /\ f.session = rec.session

\* What a request is answered from never crosses sessions: a server reading is used only by a request
\* of the session it was read for, also when references were named from another session.
SessionIsolation ==
  \A q \in Slots : \A f \in reqs[q].facts : f.origin = "server" => f.session = reqs[q].session

\* A context is at most TTL old and is built from batches at most TTL old, and a conversation is
\* re-stored at every turn, yet no request uses a document reading older than TTL plus two request
\* lives: the session cookie is never renewed, so it runs out under every later record.
ReadingAge ==
  \A q \in Slots : \A f \in reqs[q].facts :
    f.origin = "server" => clock <= f.at + TTL + 2 * Latency

\* A reference in a reply stands for a row that is there, of the session of the request: the insert
\* came first, and no other request's purge takes the row before the reply is out.
ReplyRefStored ==
  \A q \in Slots : reqs[q].given # None =>
    \E rec \in table : rec.ref = reqs[q].given /\ rec.session = reqs[q].session

\* Records are immutable and leave the table only after they expired: no handler rewrites a stored
\* batch, context or conversation, and no purge takes one that could still be read.
OnlyExpiredLeave ==
  [][\A rec \in table : rec \in table' \/ rec.expires < clock]_vars


-----------------------------------------------------------------------------
(* The inductive invariant behind the safety properties. *)

\* A reading made for session s, not before s was issued.
ReadFor(f, s) == f.origin = "server" /\ f.session = s /\ issuedAt[s] <= f.at

\* Stored rows belong to issued sessions and hold only readings made for them.
TableInv ==
  \A rec \in table : rec.session < nextSession /\ \A f \in rec.facts : ReadFor(f, rec.session)

\* A cookie runs out at most one request life and one TTL after its session was issued.
CookieInv ==
  \A b \in Browsers : cookie[b].id # None =>
    /\ cookie[b].id < nextSession
    /\ cookie[b].expires <= issuedAt[cookie[b].id] + Latency + TTL

\* Which requests hold readings of this server only: those that may still store what they hold.
MayStore(r) == r.pc \in {"reader", "conversation", "context", "model"} \/ (r.pc = "load" /\ ~r.echo)

RequestOK(r) ==
  /\ r.pc = "idle" => r.facts = {} /\ r.given = None /\ ~r.issued /\ r.session = None
  /\ r.pc # "idle" => r.since <= clock /\ clock <= r.since + Latency /\ r.browser \in Browsers
  /\ r.session # None => /\ r.session < nextSession
                         /\ r.since <= issuedAt[r.session] + TTL + Latency
  /\ r.issued => r.session # None /\ r.since <= issuedAt[r.session]
  /\ r.route = "advisor" => r.session # None
  /\ \A f \in r.facts : f.origin = "server" => r.session # None /\ ReadFor(f, r.session)
  /\ MayStore(r) => \A f \in r.facts : f.origin = "server"
  /\ r.given # None => \E rec \in table : /\ rec.ref = r.given /\ rec.session = r.session
                                          /\ rec.expires >= r.since + TTL

IInv ==
  /\ TypeOK
  /\ \A s \in Session : issuedAt[s] <= clock
  /\ TableInv
  /\ CookieInv
  /\ \A q \in Slots : RequestOK(reqs[q])

=============================================================================
