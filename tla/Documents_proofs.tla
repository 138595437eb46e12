--------------------------- MODULE Documents_proofs ---------------------------
(***************************************************************************)
(* Proofs about what is kept of documents and what is made of them:        *)
(*                                                                         *)
(*   DocumentContexts   for every number of browsers, requests, records    *)
(*                      and sessions and every TTL and request life;       *)
(*   DocumentBatches    for every limit of a call and every text;          *)
(*   DocumentKnowledge  for every set of facts the server keeps;           *)
(*   PayslipAnalysis    for every set of files, whatever they turn out to  *)
(*                      be and whatever the reader answers for them;       *)
(*   PayslipReview      for every payslip, every reading of it and every   *)
(*                      number of corrections in flight.                   *)
(***************************************************************************)
EXTENDS DocumentContexts, PayslipAnalysis, PayslipReview, FiniteSetTheorems, SequenceTheorems, WellFoundedInduction, TLAPS

----------------------------------------------------------------------------
(* DocumentContexts *)

\* The inductive invariant holds initially: nothing is stored, nobody is served.
LEMMA InitIInv == Init => IInv
  BY BoundsAssumption
  DEF Init, IInv, TypeOK, TableInv, CookieInv, RequestOK, MayStore, Idle, None, Session, Ref,
      Request, Record, Fact

\* What every handler step may do: change one request, add rows made for their own session, drop
\* expired rows, issue one fresh session.  Such a step preserves the invariant.
LEMMA HandlerStep ==
  ASSUME IInv, NEW q \in Slots,
         UNCHANGED <<clock, cookie>>,
         reqs' \in [Slots -> Request],
         \A p \in Slots \ {q} : reqs'[p] = reqs[p],
         RequestOK(reqs[q])',
         table' \in SUBSET Record, Unexpired \subseteq table', TableInv',
         nextRef' \in 1 .. (MaxRefs + 1),
         nextSession' \in 1 .. (MaxSessions + 1), nextSession <= nextSession',
         issuedAt' \in [Session -> 0 .. MaxTime],
         \A s \in Session : s < nextSession => issuedAt'[s] = issuedAt[s],
         \A s \in Session : issuedAt'[s] <= clock
  PROVE  IInv'
<1> USE BoundsAssumption
<1>1. TypeOK'
  BY DEF IInv, TypeOK
<1>2. (\A s \in Session : issuedAt[s] <= clock)'
  OBVIOUS
<1>3. CookieInv'
  BY SMTT(30) DEF IInv, TypeOK, CookieInv, Session, None
<1>4. ASSUME NEW p \in Slots PROVE RequestOK(reqs[p])'
  <2>1. CASE p = q
    BY <2>1
  <2>2. CASE p # q
    <3> DEFINE r == reqs[p]
    <3>1. reqs'[p] = r /\ r \in Request /\ RequestOK(r)
      BY <2>2 DEF IInv, TypeOK
    <3>2. r.session # None => r.session \in Session /\ r.session < nextSession
      BY <3>1 DEF RequestOK, Request
    <3>3. r.session # None => issuedAt'[r.session] = issuedAt[r.session]
      BY <3>2
    <3>4. r.given # None => \E rec \in table' : /\ rec.ref = r.given /\ rec.session = r.session
                                                /\ rec.expires >= r.since + TTL
      <4>1. SUFFICES ASSUME r.given # None
                     PROVE  \E rec \in table' : /\ rec.ref = r.given /\ rec.session = r.session
                                                /\ rec.expires >= r.since + TTL
        OBVIOUS
      <4>2. PICK rec \in table : /\ rec.ref = r.given /\ rec.session = r.session
                                 /\ rec.expires >= r.since + TTL
        BY <3>1, <4>1 DEF RequestOK
      <4>3. clock <= r.since + Latency
        BY <3>1, <4>1 DEF RequestOK
      <4>4. rec.expires \in Nat /\ r.since \in Nat /\ clock \in Nat
        BY <3>1, <4>2 DEF IInv, TypeOK, Record, Request
      <4>5. ~(rec.expires < clock)
        BY <4>2, <4>3, <4>4
      <4>6. rec \in table'
        BY <4>5, <4>2 DEF Unexpired
      <4>7. QED
        BY <4>2, <4>6
    <3>5. \A f \in r.facts : f.origin = "server" => r.session # None /\ ReadFor(f, r.session)'
      BY <3>1, <3>3 DEF RequestOK, ReadFor
    <3>6. r.session # None => r.session < nextSession'
      BY <3>2 DEF IInv, TypeOK, Session
    <3>7. RequestOK(reqs[p])'
      BY <3>1, <3>3, <3>4, <3>5, <3>6 DEF RequestOK, MayStore
    <3> QED BY <3>7
  <2> QED BY <2>1, <2>2
<1> QED
  BY <1>1, <1>2, <1>3, <1>4 DEF IInv


\* The same with the request's new value named.
LEMMA RequestStep ==
  ASSUME IInv, NEW q \in Slots, NEW r \in Request,
         UNCHANGED <<clock, cookie>>,
         Moves(q, r), RequestOK(r)',
         table' \in SUBSET Record, Unexpired \subseteq table', TableInv',
         nextRef' \in 1 .. (MaxRefs + 1),
         nextSession' \in 1 .. (MaxSessions + 1), nextSession <= nextSession',
         issuedAt' \in [Session -> 0 .. MaxTime],
         \A s \in Session : s < nextSession => issuedAt'[s] = issuedAt[s],
         \A s \in Session : issuedAt'[s] <= clock
  PROVE  IInv'
<1>1. reqs' \in [Slots -> Request] /\ reqs'[q] = r /\ \A p \in Slots \ {q} : reqs'[p] = reqs[p]
  BY DEF IInv, TypeOK, Moves
<1>2. RequestOK(reqs[q])'
  BY <1>1 DEF RequestOK, MayStore, ReadFor
<1> QED
  BY <1>1, <1>2, HandlerStep

\* A handler step that touches no shared state only has to keep its own request right.
LEMMA QuietStep ==
  ASSUME IInv, NEW q \in Slots, NEW r \in Request,
         UNCHANGED <<clock, table, nextRef, nextSession, issuedAt, cookie>>,
         Moves(q, r), RequestOK(r)
  PROVE  IInv'
<1>1. reqs' \in [Slots -> Request] /\ reqs'[q] = r /\ \A p \in Slots \ {q} : reqs'[p] = reqs[p]
  BY DEF IInv, TypeOK, Moves
<1>2. RequestOK(reqs[q])'
  BY <1>1 DEF RequestOK, MayStore, ReadFor
<1>3. TableInv'
  BY DEF IInv, TableInv, ReadFor
<1>4. /\ table' \in SUBSET Record /\ Unexpired \subseteq table'
      /\ nextRef' \in 1 .. (MaxRefs + 1)
      /\ nextSession' \in 1 .. (MaxSessions + 1) /\ nextSession <= nextSession'
      /\ issuedAt' \in [Session -> 0 .. MaxTime]
      /\ \A s \in Session : issuedAt'[s] <= clock
  BY BoundsAssumption DEF IInv, TypeOK, Unexpired
<1> QED
  BY <1>1, <1>2, <1>3, <1>4, HandlerStep

\* The session a request arrives with is that of a live cookie: issued, and not long ago.
LEMMA ArrivalOK ==
  ASSUME IInv, NEW b \in Browsers
  PROVE  /\ readSessionHash(b) \in Session \cup {None}
         /\ readSessionHash(b) # None =>
              /\ readSessionHash(b) < nextSession
              /\ clock <= issuedAt[readSessionHash(b)] + TTL + Latency
<1>1. cookie[b].expires \in Nat /\ cookie[b].id \in Session \cup {None} /\ clock \in Nat
  BY BoundsAssumption DEF IInv, TypeOK
<1>2. CASE clock < cookie[b].expires /\ cookie[b].id # None
  <2>1. issuedAt[cookie[b].id] \in Nat /\ TTL \in Nat /\ Latency \in Nat
    BY <1>1, <1>2, BoundsAssumption DEF IInv, TypeOK
  <2> QED
    BY <1>1, <1>2, <2>1 DEF readSessionHash, IInv, CookieInv
<1>3. CASE ~(clock < cookie[b].expires /\ cookie[b].id # None)
  BY <1>1, <1>3 DEF readSessionHash
<1> QED
  BY <1>2, <1>3

\* A refused request holds nothing; it is right when the request it ends was.
LEMMA RefusedOK ==
  ASSUME IInv, NEW q \in Slots, reqs[q].pc # "idle"
  PROVE  Refused(reqs[q]) \in Request /\ RequestOK(Refused(reqs[q]))
BY BoundsAssumption
DEF IInv, TypeOK, RequestOK, Refused, Answered, Idle, Request, MayStore, None

\* A slot that serves nobody is right.
LEMMA IdleOK == IInv => Idle \in Request /\ RequestOK(Idle)
BY BoundsAssumption DEF IInv, TypeOK, RequestOK, Idle, Request, MayStore, None


-----------------------------------------------------------------------------
(* One lemma per action. *)

\* A read starts right.
LEMMA StartReadStep ==
  ASSUME IInv, NEW q \in Slots, NEW b \in Browsers, StartRead(q, b) PROVE IInv'
<1> DEFINE r == Arrives(b, "read", "reader")
<1>1. r \in Request /\ RequestOK(r)
  <2>1. clock \in 0 .. MaxTime
    BY DEF IInv, TypeOK
  <2>2. /\ r.pc = "reader" /\ r.browser = b /\ r.session = readSessionHash(b) /\ r.issued = FALSE
        /\ r.since = clock /\ r.facts = {} /\ r.given = None /\ r.echo = FALSE /\ r.route = "read"
    BY DEF Arrives, Idle
  <2>3. r \in Request
    BY <2>1, ArrivalOK, BoundsAssumption DEF Request, Arrives, Idle, None
  <2>4. RequestOK(r)
    <3> HIDE DEF r
    <3> QED
      BY <2>1, <2>2, <2>3, ArrivalOK, BoundsAssumption DEF RequestOK, MayStore
  <2> QED
    BY <2>3, <2>4
<1> QED
  BY <1>1, QuietStep DEF StartRead, Serving

\* A request that names batches starts right.
LEMMA StartByBatchesStep ==
  ASSUME IInv, NEW q \in Slots, NEW b \in Browsers, NEW route \in {"resolve", "replay"},
         StartByBatches(q, b, route)
  PROVE  IInv'
<1>1. PICK refs \in SUBSET KnownRefs, echo \in BOOLEAN, decided \in BOOLEAN :
        Moves(q, [Arrives(b, route, "load") EXCEPT
                    !.todo = refs, !.echo = echo, !.decided = decided,
                    !.facts = IF echo THEN {Echoed} ELSE {}])
  BY DEF StartByBatches
<1> DEFINE r == [Arrives(b, route, "load") EXCEPT
                   !.todo = refs, !.echo = echo, !.decided = decided,
                   !.facts = IF echo THEN {Echoed} ELSE {}]
<1>2. KnownRefs \subseteq Ref /\ Echoed \in Fact /\ Echoed.origin # "server"
  BY BoundsAssumption DEF KnownRefs, Ref, Echoed, Fact, IInv, TypeOK
<1>3. r \in Request /\ RequestOK(r)
  <2>1. clock \in 0 .. MaxTime
    BY DEF IInv, TypeOK
  <2>2. /\ r.pc = "load" /\ r.browser = b /\ r.session = readSessionHash(b) /\ r.issued = FALSE
        /\ r.since = clock /\ r.facts = (IF echo THEN {Echoed} ELSE {}) /\ r.given = None /\ r.echo = echo
        /\ r.route = route
    BY DEF Arrives, Idle
  <2>3. r \in Request
    BY <1>2, <2>1, ArrivalOK, BoundsAssumption DEF Request, Arrives, Idle, None
  <2>4. RequestOK(r)
    <3> HIDE DEF r
    <3> QED
      BY <1>2, <2>1, <2>2, <2>3, ArrivalOK, BoundsAssumption DEF RequestOK, MayStore
  <2> QED
    BY <2>3, <2>4
<1> QED
  BY <1>1, <1>3, QuietStep DEF StartByBatches, Serving

\* A turn starts right.
LEMMA StartTurnStep ==
  ASSUME IInv, NEW q \in Slots, NEW b \in Browsers, StartTurn(q, b) PROVE IInv'
<1>1. PICK ref \in KnownRefs \cup {None} :
        Moves(q, [Arrives(b, "turn", "context") EXCEPT !.named = ref, !.docRef = ref])
  BY DEF StartTurn
<1> DEFINE r == [Arrives(b, "turn", "context") EXCEPT !.named = ref, !.docRef = ref]
<1>2. KnownRefs \subseteq Ref
  BY BoundsAssumption DEF KnownRefs, Ref, IInv, TypeOK
<1>3. r \in Request /\ RequestOK(r)
  <2>1. clock \in 0 .. MaxTime
    BY DEF IInv, TypeOK
  <2>2. /\ r.pc = "context" /\ r.browser = b /\ r.session = readSessionHash(b) /\ r.issued = FALSE
        /\ r.since = clock /\ r.facts = {} /\ r.given = None /\ r.echo = FALSE /\ r.route = "turn"
    BY DEF Arrives, Idle
  <2>3. r \in Request
    BY <1>2, <2>1, ArrivalOK, BoundsAssumption DEF Request, Arrives, Idle, None
  <2>4. RequestOK(r)
    <3> HIDE DEF r
    <3> QED
      BY <1>2, <2>1, <2>2, <2>3, ArrivalOK, BoundsAssumption DEF RequestOK, MayStore
  <2> QED
    BY <2>3, <2>4
<1> QED
  BY <1>1, <1>3, QuietStep DEF StartTurn, Serving

\* What issuing (or keeping) a session does to the variables and to the invariant's bounds.
LEMMA SessionStep ==
  ASSUME IInv, NEW s \in Session \cup {None}, SessionIssued(s),
         s # None => s < nextSession
  PROVE  LET e == ensureSessionHash(s)
         IN /\ e \in Session /\ e # None /\ e < nextSession'
            /\ nextSession' \in 1 .. (MaxSessions + 1) /\ nextSession <= nextSession'
            /\ issuedAt' \in [Session -> 0 .. MaxTime]
            /\ \A t \in Session : t < nextSession => issuedAt'[t] = issuedAt[t]
            /\ \A t \in Session : issuedAt'[t] <= clock
            /\ issuedAt'[e] <= clock
            /\ s = None => issuedAt'[e] = clock
            /\ s # None => e = s /\ issuedAt'[e] = issuedAt[s]
<1>1. CASE s # None
  BY <1>1, BoundsAssumption DEF SessionIssued, ensureSessionHash, IInv, TypeOK, Session, None
<1>2. CASE s = None
  BY <1>2, BoundsAssumption, SMTT(30) DEF SessionIssued, ensureSessionHash, IInv, TypeOK, Session, None
<1> QED BY <1>1, <1>2

\* Rows of issued sessions stay right when a fresh session is issued.
LEMMA OldRowsStayRight ==
  ASSUME IInv, nextSession <= nextSession', nextSession' \in Nat,
         \A t \in Session : t < nextSession => issuedAt'[t] = issuedAt[t]
  PROVE  \A rec \in table : /\ rec.session < nextSession'
                            /\ \A f \in rec.facts : ReadFor(f, rec.session)'
BY BoundsAssumption DEF IInv, TypeOK, TableInv, ReadFor, Record, Session

\* A question to the advisor starts right.
LEMMA StartAdvisorStep ==
  ASSUME IInv, NEW q \in Slots, NEW b \in Browsers, StartAdvisor(q, b) PROVE IInv'
<1> DEFINE s == readSessionHash(b)
           e == ensureSessionHash(s)
<1>1. PICK conversation \in KnownRefs \cup {None}, ref \in KnownRefs \cup {None} :
        Moves(q, [Arrives(b, "advisor", "conversation") EXCEPT
                    !.session = ensureSessionHash(@), !.issued = (readSessionHash(b) = None),
                    !.conversation = conversation, !.named = ref])
  BY DEF StartAdvisor
<1> DEFINE r == [Arrives(b, "advisor", "conversation") EXCEPT
                   !.session = e, !.issued = (s = None),
                   !.conversation = conversation, !.named = ref]
<1>2. Moves(q, r)
  BY <1>1 DEF Arrives, Idle
<1>3. /\ s \in Session \cup {None}
      /\ s # None => s < nextSession /\ clock <= issuedAt[s] + TTL + Latency
  BY ArrivalOK
<1>4. SessionIssued(s)
  BY DEF StartAdvisor
<1> HIDE DEF s
<1>5. /\ e \in Session /\ e # None /\ e < nextSession'
      /\ nextSession' \in 1 .. (MaxSessions + 1) /\ nextSession <= nextSession'
      /\ issuedAt' \in [Session -> 0 .. MaxTime]
      /\ \A t \in Session : t < nextSession => issuedAt'[t] = issuedAt[t]
      /\ \A t \in Session : issuedAt'[t] <= clock
      /\ s = None => issuedAt'[e] = clock
      /\ s # None => e = s /\ issuedAt'[e] = issuedAt[s]
  BY <1>3, <1>4, SessionStep
<1> HIDE DEF e
<1>6. KnownRefs \subseteq Ref
  BY BoundsAssumption DEF KnownRefs, Ref, IInv, TypeOK
<1>7. UNCHANGED <<clock, cookie, table, nextRef>>
  BY DEF StartAdvisor, Serving
<1>8. /\ r \in Request
      /\ r.pc = "conversation" /\ r.browser = b /\ r.session = e /\ r.issued = (s = None)
      /\ r.since = clock /\ r.facts = {} /\ r.given = None
  <2>1. clock \in 0 .. MaxTime
    BY DEF IInv, TypeOK
  <2> QED
    BY <2>1, <1>5, <1>6, ArrivalOK, BoundsAssumption DEF Request, Arrives, Idle, None
<1> HIDE DEF r
<1>9. PICK n \in Request : n = r
  BY <1>8
<1>10. RequestOK(n)'
  <2>1. PICK i \in Session : i = e
    BY <1>5
  <2>2. issuedAt'[i] \in Nat /\ clock \in Nat /\ TTL \in Nat /\ Latency \in Nat
    BY <1>5, <2>1, BoundsAssumption DEF IInv, TypeOK
  <2>3. clock <= issuedAt'[i] + TTL + Latency /\ (s = None => clock <= issuedAt'[i])
    BY <1>3, <1>5, <2>1, <2>2, BoundsAssumption
  <2>4. clock' = clock /\ clock <= clock + Latency /\ clock <= clock
    BY <1>7, <2>2
  <2>5. /\ n.pc = "conversation" /\ n.browser = b /\ n.session = i /\ n.issued = (s = None)
        /\ n.since = clock /\ n.facts = {} /\ n.given = None /\ i # None /\ i < nextSession'
    BY <1>5, <1>8, <1>9, <2>1
  <2> QED
    BY <2>3, <2>4, <2>5 DEF RequestOK, MayStore
<1>11. TableInv'
  BY <1>5, <1>7, OldRowsStayRight, BoundsAssumption DEF TableInv
<1>12. table' \in SUBSET Record /\ Unexpired \subseteq table' /\ nextRef' \in 1 .. (MaxRefs + 1)
  BY <1>7 DEF IInv, TypeOK, Unexpired
<1> QED
  BY <1>2, <1>5, <1>7, <1>9, <1>10, <1>11, <1>12, RequestStep


-----------------------------------------------------------------------------
(* The steps of a request in progress. *)

\* A reader that fails leaves the request right.
LEMMA ReaderFailsStep ==
  ASSUME IInv, NEW q \in Slots, ReaderFails(q) PROVE IInv'
BY RefusedOK, QuietStep DEF ReaderFails, Serving

\* Loading facts of the request's own session keeps the request right.
LEMMA TakeFacts ==
  ASSUME IInv, NEW q \in Slots, NEW rec \in table, reqs[q].pc # "idle",
         reqs[q].session # None, rec.session = reqs[q].session
  PROVE  \A f \in rec.facts : f \in Fact /\ f.origin = "server" /\ ReadFor(f, reqs[q].session)
BY DEF IInv, TypeOK, TableInv, ReadFor, Record

\* Loading a batch reads only records of the session.
LEMMA LoadBatchStep ==
  ASSUME IInv, NEW q \in Slots, LoadBatch(q) PROVE IInv'
<1> DEFINE r == reqs[q]
<1>1. r \in Request /\ RequestOK(r) /\ r.pc = "load"
  BY DEF IInv, TypeOK, LoadBatch
<1>2. CASE Moves(q, Refused(r))
  BY <1>1, <1>2, RefusedOK, QuietStep DEF LoadBatch, Serving
<1>3. ASSUME NEW ref \in r.todo, NEW rec \in getRecord(ref, r.session, "batch"),
             Moves(q, [r EXCEPT !.todo = @ \ {ref}, !.facts = @ \cup rec.facts])
      PROVE  IInv'
  <2> DEFINE n == [r EXCEPT !.todo = @ \ {ref}, !.facts = @ \cup rec.facts]
  <2>1. rec \in table /\ rec.session = r.session /\ r.session # None
    BY <1>3 DEF getRecord
  <2>2. \A f \in rec.facts : f \in Fact /\ f.origin = "server" /\ ReadFor(f, r.session)
    BY <1>1, <2>1, TakeFacts
  <2>3. n \in Request
    BY <1>1, <2>2 DEF Request
  <2>4. /\ n.pc = "load" /\ n.browser = r.browser /\ n.session = r.session /\ n.issued = r.issued
        /\ n.since = r.since /\ n.facts = r.facts \cup rec.facts /\ n.given = r.given /\ n.route = r.route
        /\ n.echo = r.echo
    BY <1>1 DEF Request
  <2>5. RequestOK(n)
    <3> HIDE DEF n
    <3> QED
      BY <1>1, <2>1, <2>2, <2>4 DEF RequestOK, MayStore
  <2> QED
    BY <1>3, <2>3, <2>5, QuietStep DEF LoadBatch, Serving
<1> QED
  BY <1>2, <1>3 DEF LoadBatch

\* Loading a conversation reads only records of the session.
LEMMA LoadConversationStep ==
  ASSUME IInv, NEW q \in Slots, LoadConversation(q) PROVE IInv'
<1> DEFINE r == reqs[q]
<1>1. r \in Request /\ RequestOK(r) /\ r.pc = "conversation"
  BY DEF IInv, TypeOK, LoadConversation
<1>2. CASE Moves(q, Refused(r))
  BY <1>1, <1>2, RefusedOK, QuietStep DEF LoadConversation, Serving
<1>3. CASE Moves(q, [r EXCEPT !.pc = "context", !.docRef = r.named])
  <2> DEFINE n == [r EXCEPT !.pc = "context", !.docRef = r.named]
  <2>1. n \in Request
    BY <1>1 DEF Request
  <2>2. /\ n.pc = "context" /\ n.browser = r.browser /\ n.session = r.session /\ n.issued = r.issued
        /\ n.since = r.since /\ n.facts = r.facts /\ n.given = r.given /\ n.route = r.route
    BY <1>1 DEF Request
  <2>3. RequestOK(n)
    <3> HIDE DEF n
    <3> QED
      BY <1>1, <2>2 DEF RequestOK, MayStore
  <2> QED
    BY <1>3, <2>1, <2>3, QuietStep DEF LoadConversation, Serving
<1>4. ASSUME NEW rec \in getRecord(r.conversation, r.session, "advisor"),
             Moves(q, [r EXCEPT !.pc = "context", !.facts = rec.facts,
                                !.docRef = IF r.named # None THEN r.named ELSE rec.docRef])
      PROVE  IInv'
  <2> DEFINE n == [r EXCEPT !.pc = "context", !.facts = rec.facts,
                            !.docRef = IF r.named # None THEN r.named ELSE rec.docRef]
  <2>1. rec \in table /\ rec \in Record /\ rec.session = r.session /\ r.session # None
    BY DEF getRecord, IInv, TypeOK
  <2>2. \A f \in rec.facts : f \in Fact /\ f.origin = "server" /\ ReadFor(f, r.session)
    BY <1>1, <2>1, TakeFacts
  <2>3. n \in Request
    BY <1>1, <2>1, <2>2, ZenonT(30) DEF Request, Record
  <2>4. /\ n.pc = "context" /\ n.browser = r.browser /\ n.session = r.session /\ n.issued = r.issued
        /\ n.since = r.since /\ n.facts = rec.facts /\ n.given = r.given /\ n.route = r.route
    BY <1>1 DEF Request
  <2>5. RequestOK(n)
    <3> HIDE DEF n
    <3> QED
      BY <1>1, <2>1, <2>2, <2>4 DEF RequestOK, MayStore
  <2> QED
    BY <1>4, <2>3, <2>5, QuietStep DEF LoadConversation, Serving
<1> QED
  BY <1>2, <1>3, <1>4 DEF LoadConversation

\* Loading a context reads only records of the session.
LEMMA LoadContextStep ==
  ASSUME IInv, NEW q \in Slots, LoadContext(q) PROVE IInv'
<1> DEFINE r == reqs[q]
<1>1. r \in Request /\ RequestOK(r) /\ r.pc = "context"
  BY DEF IInv, TypeOK, LoadContext
<1>2. CASE Moves(q, Refused(r))
  BY <1>1, <1>2, RefusedOK, QuietStep DEF LoadContext, Serving
<1>3. CASE Moves(q, [r EXCEPT !.pc = "model"])
  <2> DEFINE n == [r EXCEPT !.pc = "model"]
  <2>1. n \in Request
    BY <1>1 DEF Request
  <2>2. /\ n.pc = "model" /\ n.browser = r.browser /\ n.session = r.session /\ n.issued = r.issued
        /\ n.since = r.since /\ n.facts = r.facts /\ n.given = r.given /\ n.route = r.route
    BY <1>1 DEF Request
  <2>3. RequestOK(n)
    <3> HIDE DEF n
    <3> QED
      BY <1>1, <2>2 DEF RequestOK, MayStore
  <2> QED
    BY <1>3, <2>1, <2>3, QuietStep DEF LoadContext, Serving
<1>4. ASSUME NEW rec \in getRecord(r.docRef, r.session, "context"),
             Moves(q, [r EXCEPT !.pc = "model", !.facts = @ \cup rec.facts])
      PROVE  IInv'
  <2> DEFINE n == [r EXCEPT !.pc = "model", !.facts = @ \cup rec.facts]
  <2>1. rec \in table /\ rec.session = r.session /\ r.session # None
    BY DEF getRecord
  <2>2. \A f \in rec.facts : f \in Fact /\ f.origin = "server" /\ ReadFor(f, r.session)
    BY <1>1, <2>1, TakeFacts
  <2>3. n \in Request
    BY <1>1, <2>2 DEF Request
  <2>4. /\ n.pc = "model" /\ n.browser = r.browser /\ n.session = r.session /\ n.issued = r.issued
        /\ n.since = r.since /\ n.facts = r.facts \cup rec.facts /\ n.given = r.given /\ n.route = r.route
    BY <1>1 DEF Request
  <2>5. RequestOK(n)
    <3> HIDE DEF n
    <3> QED
      BY <1>1, <2>1, <2>2, <2>4 DEF RequestOK, MayStore
  <2> QED
    BY <1>4, <2>3, <2>5, QuietStep DEF LoadContext, Serving
<1> QED
  BY <1>2, <1>3, <1>4 DEF LoadContext

\* A successful putRecord keeps every unexpired row and adds one, made for its own session.
LEMMA PutRecordStep ==
  ASSUME IInv, NEW s \in Session, NEW kind \in {"batch", "context", "advisor"},
         NEW facts \in SUBSET Fact, NEW docRef \in Ref \cup {None},
         putRecord(s, kind, facts, docRef),
         \A f \in facts : ReadFor(f, s)',
         s < nextSession', nextSession <= nextSession', nextSession' \in Nat,
         \A t \in Session : t < nextSession => issuedAt'[t] = issuedAt[t]
  PROVE  /\ table' \in SUBSET Record /\ Unexpired \subseteq table' /\ TableInv'
         /\ nextRef' \in 1 .. (MaxRefs + 1) /\ nextRef \in Ref
         /\ \E rec \in table' : rec.ref = nextRef /\ rec.session = s /\ rec.expires = clock + TTL
<1> DEFINE row == [ref |-> nextRef, session |-> s, kind |-> kind, facts |-> facts,
                   docRef |-> docRef, expires |-> clock + TTL]
<1>1. nextRef \in Ref /\ nextRef' \in 1 .. (MaxRefs + 1) /\ clock + TTL \in Nat
  BY BoundsAssumption DEF IInv, TypeOK, putRecord, Ref
<1>2. row \in Record
  BY <1>1 DEF Record
<1>3. table' = Unexpired \cup {row} /\ Unexpired \subseteq table /\ table \subseteq Record
  BY DEF putRecord, Unexpired, IInv, TypeOK
<1>4. \A rec \in table : /\ rec.session < nextSession'
                         /\ \A f \in rec.facts : ReadFor(f, rec.session)'
  BY OldRowsStayRight
<1>5. row.session = s /\ row.facts = facts /\ row.ref = nextRef /\ row.expires = clock + TTL
  OBVIOUS
<1> HIDE DEF row
<1>6. TableInv'
  BY <1>3, <1>4, <1>5 DEF TableInv, ReadFor
<1> QED
  BY <1>1, <1>2, <1>3, <1>5, <1>6

\* A putRecord that fails may purge, and adds nothing.
LEMMA PutFailsStep ==
  ASSUME IInv, putFails, nextSession <= nextSession', nextSession' \in Nat,
         \A t \in Session : t < nextSession => issuedAt'[t] = issuedAt[t]
  PROVE  /\ table' \in SUBSET Record /\ Unexpired \subseteq table' /\ TableInv'
         /\ nextRef' \in 1 .. (MaxRefs + 1)
<1>1. Unexpired \subseteq table' /\ table' \subseteq table /\ table \subseteq Record /\ nextRef' = nextRef
  BY DEF putFails, Unexpired, IInv, TypeOK
<1>2. \A rec \in table : /\ rec.session < nextSession'
                         /\ \A f \in rec.facts : ReadFor(f, rec.session)'
  BY OldRowsStayRight
<1> QED
  BY <1>1, <1>2 DEF TableInv, ReadFor, IInv, TypeOK

\* An answer is a well-typed request record.
LEMMA AnsweredType ==
  ASSUME NEW r \in Request, NEW facts \in SUBSET Fact, NEW given \in Ref \cup {None}
  PROVE  Answered(r, facts, given) \in Request
BY BoundsAssumption, ZenonT(30) DEF Answered, Idle, Request, None

\* What was read is kept for the session it was read for.
LEMMA KeepBatchStep ==
  ASSUME IInv, NEW q \in Slots, KeepBatch(q) PROVE IInv'
<1>1. PICK r \in Request : r = reqs[q]
  BY DEF IInv, TypeOK
<1>2. RequestOK(r) /\ r.pc = "reader" /\ SessionIssued(r.session)
  BY <1>1 DEF IInv, KeepBatch
<1>3. r.session \in Session \cup {None} /\ (r.session # None => r.session < nextSession)
  BY <1>2 DEF Request, RequestOK
<1>4. PICK e \in Session : e = ensureSessionHash(r.session)
  BY <1>2, <1>3, SessionStep
<1>5. /\ e # None /\ e < nextSession'
      /\ nextSession' \in 1 .. (MaxSessions + 1) /\ nextSession <= nextSession'
      /\ issuedAt' \in [Session -> 0 .. MaxTime]
      /\ \A t \in Session : t < nextSession => issuedAt'[t] = issuedAt[t]
      /\ \A t \in Session : issuedAt'[t] <= clock
      /\ r.session = None => issuedAt'[e] = clock
      /\ r.session # None => e = r.session /\ issuedAt'[e] = issuedAt[r.session]
  BY <1>2, <1>3, <1>4, SessionStep
<1>6. /\ clock \in 0 .. MaxTime /\ r.since \in 0 .. MaxTime
      /\ MaxTime \in Nat /\ TTL \in Nat /\ Latency \in Nat /\ UNCHANGED <<clock, cookie>>
  BY <1>1, BoundsAssumption DEF IInv, TypeOK, Request, KeepBatch, Serving
<1>7. PICK made \in Fact : made = [origin |-> "server", session |-> e, at |-> clock]
  BY <1>6 DEF Fact
<1>8. ReadFor(made, e)' /\ made.origin = "server"
  <2>1. issuedAt'[e] <= clock
    BY <1>5
  <2> QED
    BY <1>7, <2>1 DEF ReadFor
<1>9. r.since <= clock /\ clock <= r.since + Latency /\ r.browser \in Browsers
      /\ r.since <= issuedAt'[e] + TTL + Latency /\ (r.session = None => r.since <= issuedAt'[e])
  <2>1. issuedAt'[e] \in Nat
    BY <1>5, <1>6
  <2>2. r.since <= clock /\ clock <= r.since + Latency /\ r.browser \in Browsers
        /\ (r.session # None => r.since <= issuedAt[r.session] + TTL + Latency)
    BY <1>2 DEF RequestOK
  <2> QED
    BY <1>5, <1>6, <2>1, <2>2
<1>10. PICK ensured \in Request : ensured = [r EXCEPT !.session = e, !.issued = (r.session = None)]
  BY ZenonT(30) DEF Request
<1>11. ensured.session = e /\ ensured.issued = (r.session = None) /\ ensured.browser = r.browser
       /\ ensured.since = r.since
  BY <1>10 DEF Request
<1>12. ASSUME NEW given \in Ref \cup {None}, Moves(q, Answered(ensured, {made}, given)),
              table' \in SUBSET Record, Unexpired \subseteq table', TableInv',
              nextRef' \in 1 .. (MaxRefs + 1),
              given # None => \E rec \in table' : /\ rec.ref = given /\ rec.session = e
                                                  /\ rec.expires = clock + TTL
       PROVE  IInv'
  <2>1. Answered(ensured, {made}, given) \in Request
    BY AnsweredType
  <2>2. PICK n \in Request : n = Answered(ensured, {made}, given)
    BY <2>1
  <2>3. /\ n.pc = "reply" /\ n.browser = r.browser /\ n.session = e
        /\ n.issued = (r.session = None) /\ n.since = r.since
        /\ n.facts = {made} /\ n.given = given /\ n.route = "read"
    BY <1>11, <2>2 DEF Answered, Idle
  <2>4. clock + TTL >= r.since + TTL
    BY <1>6, <1>9
  <2>5. RequestOK(n)'
    BY <1>5, <1>6, <1>8, <1>9, <1>12, <2>3, <2>4 DEF RequestOK, MayStore, None
  <2> QED
    BY <1>5, <1>6, <1>12, <2>2, <2>5, RequestStep
<1>13. CASE putRecord(e, "batch", {made}, None) /\ Moves(q, Answered(ensured, {made}, nextRef))
  <2>1. /\ table' \in SUBSET Record /\ Unexpired \subseteq table' /\ TableInv'
        /\ nextRef' \in 1 .. (MaxRefs + 1) /\ nextRef \in Ref
        /\ \E rec \in table' : rec.ref = nextRef /\ rec.session = e /\ rec.expires = clock + TTL
    <3>1. /\ {made} \in SUBSET Fact /\ None \in Ref \cup {None} /\ nextSession' \in Nat
          /\ "batch" \in {"batch", "context", "advisor"}
      BY <1>5, BoundsAssumption
    <3>2. \A f \in {made} : ReadFor(f, e)'
      BY <1>8
    <3> QED
      BY <1>5, <1>13, <3>1, <3>2, PutRecordStep
  <2> QED
    BY <1>12, <1>13, <2>1
<1>14. CASE putFails /\ Moves(q, Answered(ensured, {made}, None))
  <2>1. /\ table' \in SUBSET Record /\ Unexpired \subseteq table' /\ TableInv'
        /\ nextRef' \in 1 .. (MaxRefs + 1)
    BY <1>5, <1>14, PutFailsStep
  <2> QED
    BY <1>12, <1>14, <2>1
<1> QED
  BY <1>1, <1>4, <1>7, <1>10, <1>13, <1>14 DEF KeepBatch

\* A request that keeps its session ends with an answer resting on facts of its own, or client facts.
LEMMA AnsweredStep ==
  ASSUME IInv, NEW q \in Slots, NEW facts \in SUBSET Fact, NEW given \in Ref \cup {None},
         reqs[q].pc # "idle",
         \A f \in facts : f.origin = "server" => f \in reqs[q].facts,
         Moves(q, Answered(reqs[q], facts, given)),
         UNCHANGED <<clock, cookie, nextSession, issuedAt>>,
         table' \in SUBSET Record, Unexpired \subseteq table', TableInv',
         nextRef' \in 1 .. (MaxRefs + 1),
         given # None => \E rec \in table' : /\ rec.ref = given /\ rec.session = reqs[q].session
                                             /\ rec.expires = clock + TTL
  PROVE  IInv'
<1>1. PICK r \in Request : r = reqs[q]
  BY DEF IInv, TypeOK
<1>2. RequestOK(r) /\ r.pc # "idle"
  BY <1>1 DEF IInv
<1>3. Answered(r, facts, given) \in Request
  BY AnsweredType
<1>4. PICK n \in Request : n = Answered(r, facts, given)
  BY <1>3
<1>5. /\ n.pc = "reply" /\ n.browser = r.browser /\ n.session = r.session /\ n.issued = r.issued
      /\ n.since = r.since /\ n.facts = facts /\ n.given = given /\ n.route = "read"
  BY <1>4 DEF Answered, Idle
<1>6. r.since \in Nat /\ clock \in Nat /\ TTL \in Nat /\ r.since <= clock
  BY <1>2, BoundsAssumption DEF RequestOK, Request, IInv, TypeOK
<1>7. clock + TTL >= r.since + TTL
  BY <1>6
<1>8. RequestOK(n)'
  BY <1>1, <1>2, <1>5, <1>7 DEF RequestOK, MayStore, ReadFor
<1>9. /\ nextSession' \in 1 .. (MaxSessions + 1) /\ nextSession <= nextSession'
      /\ issuedAt' \in [Session -> 0 .. MaxTime]
      /\ \A s \in Session : issuedAt'[s] = issuedAt[s] /\ issuedAt'[s] <= clock
  BY BoundsAssumption DEF IInv, TypeOK
<1> QED
  BY <1>1, <1>4, <1>8, <1>9, RequestStep

\* The table when a step leaves it alone.
LEMMA SameTable ==
  ASSUME IInv, UNCHANGED <<table, nextRef, nextSession, issuedAt>>
  PROVE  /\ table' \in SUBSET Record /\ Unexpired \subseteq table' /\ TableInv'
         /\ nextRef' \in 1 .. (MaxRefs + 1)
BY DEF IInv, TypeOK, TableInv, Unexpired, ReadFor

\* A replay of the facts keeps the invariant.
LEMMA ReplayStep ==
  ASSUME IInv, NEW q \in Slots, Replay(q) PROVE IInv'
<1>1. reqs[q].pc = "load" /\ reqs[q].facts \in SUBSET Fact
      /\ UNCHANGED <<table, nextRef, nextSession, issuedAt, clock, cookie>>
  BY DEF IInv, TypeOK, Request, Replay, Serving
<1>2. CASE Moves(q, Answered(reqs[q], reqs[q].facts, None))
  BY <1>1, <1>2, AnsweredStep, SameTable
<1>3. CASE Moves(q, Refused(reqs[q]))
  BY <1>1, <1>3, RefusedOK, QuietStep
<1> QED
  BY <1>2, <1>3 DEF Replay

\* The end of a turn keeps the invariant.
LEMMA FinishTurnStep ==
  ASSUME IInv, NEW q \in Slots, FinishTurn(q) PROVE IInv'
<1>1. reqs[q].pc = "model" /\ reqs[q].facts \in SUBSET Fact
      /\ UNCHANGED <<table, nextRef, nextSession, issuedAt, clock, cookie>>
  BY DEF IInv, TypeOK, Request, FinishTurn, Serving
<1>2. CASE Moves(q, Answered(reqs[q], reqs[q].facts, None))
  BY <1>1, <1>2, AnsweredStep, SameTable
<1>3. CASE Moves(q, Refused(reqs[q]))
  BY <1>1, <1>3, RefusedOK, QuietStep
<1> QED
  BY <1>2, <1>3 DEF FinishTurn

\* Resolving the profile stores it for the session of its batches.
LEMMA ResolveProfileStep ==
  ASSUME IInv, NEW q \in Slots, ResolveProfile(q) PROVE IInv'
<1>1. PICK r \in Request : r = reqs[q]
  BY DEF IInv, TypeOK
<1>2. RequestOK(r) /\ r.pc = "load" /\ UNCHANGED <<clock, cookie, nextSession, issuedAt>>
  BY <1>1 DEF IInv, ResolveProfile, Serving
<1>3. PICK profile \in SUBSET Fact : profile = applyUserDecisions(r.facts, r.decided)
  <2>1. r.facts \in SUBSET Fact
    BY DEF Request
  <2>2. Decision \in Fact
    BY BoundsAssumption DEF Decision, Fact
  <2> QED
    BY <2>1, <2>2 DEF applyUserDecisions
<1>4. \A f \in profile : f.origin = "server" => f \in r.facts
  BY <1>3 DEF applyUserDecisions, Decision
<1>5. CASE ~r.echo /\ r.session # None /\ putRecord(r.session, "context", r.facts, None)
           /\ Moves(q, Answered(r, profile, nextRef))
  <2>1. /\ r.session \in Session /\ r.session < nextSession /\ r.facts \in SUBSET Fact
        /\ nextSession \in Nat /\ nextSession <= nextSession
    BY <1>2, <1>5, BoundsAssumption DEF RequestOK, Request, IInv, TypeOK
  <2>2. \A f \in r.facts : ReadFor(f, r.session)'
    BY <1>2, <1>5 DEF RequestOK, MayStore, ReadFor
  <2>3. /\ table' \in SUBSET Record /\ Unexpired \subseteq table' /\ TableInv'
        /\ nextRef' \in 1 .. (MaxRefs + 1) /\ nextRef \in Ref
        /\ \E rec \in table' : rec.ref = nextRef /\ rec.session = r.session /\ rec.expires = clock + TTL
    BY <1>2, <1>5, <2>1, <2>2, PutRecordStep
  <2> QED
    BY <1>1, <1>2, <1>4, <1>5, <2>3, AnsweredStep
<1>6. CASE putFails /\ Moves(q, Answered(r, profile, None))
  <2>1. nextSession' \in Nat /\ nextSession <= nextSession'
    BY <1>2, BoundsAssumption DEF IInv, TypeOK
  <2> QED
    BY <1>1, <1>2, <1>4, <1>6, <2>1, AnsweredStep, PutFailsStep
<1>7. CASE UNCHANGED <<table, nextRef>> /\ Moves(q, Answered(r, profile, None))
  BY <1>1, <1>2, <1>4, <1>7, AnsweredStep, SameTable
<1> QED
  BY <1>1, <1>3, <1>5, <1>6, <1>7 DEF ResolveProfile

\* The end of an answer keeps the invariant: it stores the conversation for its session.
LEMMA FinishAdvisorStep ==
  ASSUME IInv, NEW q \in Slots, FinishAdvisor(q) PROVE IInv'
<1>1. PICK r \in Request : r = reqs[q]
  BY DEF IInv, TypeOK
<1>2. RequestOK(r) /\ r.pc = "model" /\ UNCHANGED <<clock, cookie, nextSession, issuedAt>>
  BY <1>1 DEF IInv, FinishAdvisor, Serving
<1>3. CASE UNCHANGED <<table, nextRef>> /\ Moves(q, Refused(r))
  BY <1>1, <1>2, <1>3, RefusedOK, QuietStep
<1>4. nextSession' \in Nat /\ nextSession <= nextSession' /\ r.facts \in SUBSET Fact
      /\ r.docRef \in Ref \cup {None} /\ "advisor" \in {"batch", "context", "advisor"}
  BY <1>2, BoundsAssumption DEF IInv, TypeOK, Request
<1>5. CASE putRecord(r.session, "advisor", r.facts, r.docRef) /\ Moves(q, Answered(r, r.facts, nextRef))
  <2>1. r.session \in Session /\ r.session < nextSession
    BY <1>1, <1>2 DEF FinishAdvisor, RequestOK, Request
  <2>2. \A f \in r.facts : ReadFor(f, r.session)'
    BY <1>2 DEF RequestOK, MayStore, ReadFor
  <2>3. /\ table' \in SUBSET Record /\ Unexpired \subseteq table' /\ TableInv'
        /\ nextRef' \in 1 .. (MaxRefs + 1) /\ nextRef \in Ref
        /\ \E rec \in table' : rec.ref = nextRef /\ rec.session = r.session /\ rec.expires = clock + TTL
    BY <1>2, <1>4, <1>5, <2>1, <2>2, PutRecordStep
  <2> QED
    BY <1>1, <1>2, <1>4, <1>5, <2>3, AnsweredStep
<1>6. CASE putFails /\ Moves(q, Answered(r, r.facts, None))
  BY <1>1, <1>2, <1>4, <1>6, AnsweredStep, PutFailsStep
<1> QED
  BY <1>1, <1>3, <1>5, <1>6 DEF FinishAdvisor

\* A browser that goes away leaves the slot idle.
LEMMA AbandonStep ==
  ASSUME IInv, NEW q \in Slots, Abandon(q) PROVE IInv'
BY IdleOK, QuietStep DEF Abandon, Serving

\* A reply stores its new cookie: the cookie lives TTL from now, and now is at most one request life
\* after the session was issued.
LEMMA ReplyStep ==
  ASSUME IInv, NEW q \in Slots, Reply(q) PROVE IInv'
<1>1. PICK r \in Request : r = reqs[q]
  BY DEF IInv, TypeOK
<1>2. RequestOK(r) /\ r.pc = "reply" /\ UNCHANGED <<clock, table, nextRef, nextSession, issuedAt>>
      /\ Moves(q, Idle)
  BY <1>1 DEF IInv, Reply
<1>3. clock \in Nat /\ TTL \in Nat /\ Latency \in Nat
  BY BoundsAssumption DEF IInv, TypeOK
<1>4. /\ reqs' \in [Slots -> Request]
      /\ \A p \in Slots : reqs'[p] = Idle \/ reqs'[p] = reqs[p]
  BY <1>2, IdleOK DEF Moves, IInv, TypeOK
<1>5. CASE r.issued
  <2>1. cookie' = [cookie EXCEPT ![r.browser] = [id |-> r.session, expires |-> clock + TTL]]
    BY <1>1, <1>5 DEF Reply
  <2>2. /\ r.session \in Session /\ r.session < nextSession /\ r.browser \in Browsers
        /\ clock <= r.since + Latency /\ r.since <= issuedAt[r.session]
    BY <1>2, <1>5 DEF RequestOK, Request
  <2>3. issuedAt[r.session] \in Nat /\ r.since \in Nat
    BY <2>2, BoundsAssumption DEF IInv, TypeOK, Request
  <2>4. clock + TTL <= issuedAt[r.session] + Latency + TTL /\ clock + TTL \in Nat
    BY <1>3, <2>2, <2>3
  <2>5. cookie' \in [Browsers -> [id : Session \cup {None}, expires : Nat]]
    BY <2>1, <2>2, <2>4 DEF IInv, TypeOK
  <2>6. CookieInv'
    BY <1>2, <2>1, <2>2, <2>4 DEF CookieInv, IInv, TypeOK
  <2> QED
    BY <1>2, <2>5, <2>6, <1>4, IdleOK
    DEF IInv, TypeOK, TableInv, ReadFor, RequestOK, MayStore
<1>6. CASE ~r.issued
  <2>1. cookie' = cookie
    BY <1>1, <1>6 DEF Reply
  <2> QED
    BY <1>2, <2>1, <1>4, IdleOK
    DEF IInv, TypeOK, TableInv, CookieInv, ReadFor, RequestOK, MayStore
<1> QED
  BY <1>5, <1>6

\* Time passes only while no request outlives the platform's limit.
LEMMA TickStep ==
  ASSUME IInv, Tick PROVE IInv'
<1>1. /\ clock' = clock + 1 /\ clock' \in 0 .. MaxTime /\ clock \in Nat
      /\ UNCHANGED <<table, nextRef, nextSession, issuedAt, cookie, reqs>>
  BY BoundsAssumption DEF IInv, TypeOK, Tick
<1>2. TypeOK' /\ TableInv' /\ CookieInv'
  BY <1>1 DEF IInv, TypeOK, TableInv, CookieInv, ReadFor
<1>3. \A s \in Session : issuedAt'[s] <= clock'
  BY <1>1, BoundsAssumption DEF IInv, TypeOK
<1>4. ASSUME NEW q \in Slots PROVE RequestOK(reqs[q])'
  <2>1. PICK r \in Request : r = reqs[q]
    BY DEF IInv, TypeOK
  <2>2. RequestOK(r) /\ r.since \in Nat /\ Latency \in Nat
    BY <2>1, BoundsAssumption DEF IInv, Request
  <2>3. r.pc # "idle" => r.since <= clock + 1 /\ clock + 1 <= r.since + Latency
    <3>1. r.pc # "idle" => r.since <= clock /\ clock < r.since + Latency
      BY <2>1, <2>2 DEF Tick, RequestOK
    <3> QED
      BY <1>1, <2>2, <3>1
  <2> QED
    BY <1>1, <2>1, <2>2, <2>3 DEF RequestOK, MayStore, ReadFor
<1> QED
  BY <1>1, <1>2, <1>3, <1>4 DEF IInv

-----------------------------------------------------------------------------
(* The theorems. *)

\* Every step of the specification preserves the inductive invariant.
LEMMA StepIInv == IInv /\ [Next]_vars => IInv'
<1> SUFFICES ASSUME IInv, [Next]_vars PROVE IInv'
  OBVIOUS
<1>1. CASE UNCHANGED vars
  BY <1>1 DEF vars, IInv, TypeOK, TableInv, CookieInv, ReadFor, RequestOK, MayStore
<1>2. ASSUME NEW q \in Slots, NEW b \in Browsers,
             \/ StartRead(q, b)
             \/ \E route \in {"resolve", "replay"} : StartByBatches(q, b, route)
             \/ StartTurn(q, b)
             \/ StartAdvisor(q, b)
      PROVE  IInv'
  BY <1>2, StartReadStep, StartByBatchesStep, StartTurnStep, StartAdvisorStep
<1>3. ASSUME NEW q \in Slots,
             \/ ReaderFails(q) \/ KeepBatch(q)
             \/ LoadBatch(q) \/ ResolveProfile(q) \/ Replay(q)
             \/ LoadConversation(q) \/ LoadContext(q) \/ FinishTurn(q) \/ FinishAdvisor(q)
             \/ Reply(q) \/ Abandon(q)
      PROVE  IInv'
  BY <1>3, ReaderFailsStep, KeepBatchStep, LoadBatchStep, ResolveProfileStep, ReplayStep,
     LoadConversationStep, LoadContextStep, FinishTurnStep, FinishAdvisorStep, ReplyStep, AbandonStep
<1> QED
  BY <1>1, <1>2, <1>3, TickStep DEF Next

\* The invariant holds throughout.
THEOREM Invariant == Spec => []IInv
BY InitIInv, StepIInv, PTL DEF Spec

\* Every variable keeps its type, for any number of browsers, requests, records and sessions.
THEOREM TypeCorrect == Spec => []TypeOK
<1>1. IInv => TypeOK
  BY DEF IInv
<1> QED
  BY <1>1, Invariant, PTL

\* No record ever holds a fact that a client sent or that was read for another session.
THEOREM Provenance == Spec => []ContextProvenance
<1>1. IInv => ContextProvenance
  BY DEF IInv, TableInv, ReadFor, ContextProvenance
<1> QED
  BY <1>1, Invariant, PTL

\* No request is answered from a reading made for another session.
THEOREM Isolation == Spec => []SessionIsolation
<1>1. IInv => SessionIsolation
  BY DEF IInv, RequestOK, ReadFor, SessionIsolation
<1> QED
  BY <1>1, Invariant, PTL

\* No request uses a reading older than TTL plus two request lives: the reading is younger than its
\* session, and a request arrives while the session's only cookie lives.
THEOREM Age == Spec => []ReadingAge
<1>1. IInv => ReadingAge
  <2> SUFFICES ASSUME IInv, NEW q \in Slots, NEW f \in reqs[q].facts, f.origin = "server"
               PROVE  clock <= f.at + TTL + 2 * Latency
    BY DEF ReadingAge
  <2>1. PICK r \in Request : r = reqs[q]
    BY DEF IInv, TypeOK
  <2>2. RequestOK(r) /\ f \in r.facts /\ f \in Fact
    BY <2>1 DEF IInv, Request
  <2>3. /\ r.session # None /\ r.pc # "idle" /\ issuedAt[r.session] <= f.at
        /\ r.since <= issuedAt[r.session] + TTL + Latency /\ clock <= r.since + Latency
    BY <2>2 DEF RequestOK, ReadFor
  <2>4. /\ issuedAt[r.session] \in Nat /\ f.at \in Nat /\ r.since \in Nat /\ clock \in Nat
        /\ TTL \in Nat /\ Latency \in Nat
    BY <2>2, <2>3, BoundsAssumption DEF IInv, TypeOK, Request, Fact
  <2> QED
    BY <2>3, <2>4
<1> QED
  BY <1>1, Invariant, PTL

\* A reference in a reply always stands for a stored row of the request's session.
THEOREM RefStored == Spec => []ReplyRefStored
<1>1. IInv => ReplyRefStored
  BY DEF IInv, RequestOK, ReplyRefStored
<1> QED
  BY <1>1, Invariant, PTL

\* Records never change, and leave the table only expired.
THEOREM Immutable == Spec => OnlyExpiredLeave
<1> DEFINE StillThere == \A rec \in table : rec \in table' \/ rec.expires < clock
<1>1. ASSUME Unexpired \subseteq table' PROVE StillThere
  BY <1>1 DEF Unexpired
<1>2. ASSUME NEW s, NEW kind, NEW facts, NEW docRef, putRecord(s, kind, facts, docRef) PROVE StillThere
  BY <1>1, <1>2 DEF putRecord
<1>3. ASSUME putFails PROVE StillThere
  BY <1>3 DEF putFails, Unexpired
<1>4. ASSUME UNCHANGED table PROVE StillThere
  BY <1>4
<1> HIDE DEF StillThere
<1>5. [Next]_vars => [StillThere]_vars
  BY <1>2, <1>3, <1>4
  DEF Next, vars, StartRead, ReaderFails, KeepBatch, StartByBatches, LoadBatch, ResolveProfile, Replay,
      StartTurn, StartAdvisor, LoadConversation, LoadContext, FinishTurn, FinishAdvisor, Reply,
      Abandon, Tick
<1> USE DEF StillThere
<1> QED
  BY <1>5, PTL DEF Spec, OnlyExpiredLeave

----------------------------------------------------------------------------
(* DocumentBatches: sums over pages, the plan, and what the route accepts *)

\* A set of numbers with an element has a least one.
LEMMA NatMin ==
  ASSUME NEW T \in SUBSET Nat, NEW x \in T
  PROVE  \E m \in T : \A y \in T : m <= y
<1>1. PICK R : R = OpToRel(<, Nat)
  OBVIOUS
<1>2. \A a, b \in Nat : <<a, b>> \in R <=> a < b
  BY <1>1 DEF OpToRel
<1>3. IsWellFoundedOn(R, Nat)
  BY <1>1, NatLessThanWellFounded
<1>4. PICK m \in T : \A y \in T : ~(<<y, m>> \in R)
  BY <1>3, WFMin
<1>5. \A y \in T : y \in Nat
  OBVIOUS
<1>6. \A y \in T : m <= y
  <2> TAKE y \in T
  <2>1. y \in Nat /\ m \in Nat
    BY <1>5
  <2>2. ~(y < m)
    BY <1>2, <1>4, <2>1, Zenon
  <2> QED
    BY <2>1, <2>2
<1> QED
  BY <1>6

\* c takes an element of every subset.
Takes(c, S) == \A s \in (SUBSET S) \ {{}} : c[s] \in s

\* ... and leaves the rest.
Rest(s, c) == s \ {c[s]}

\* g folds h over the subsets of S in the order c takes them.
Folds(g, S, base, h, c) == \A s \in SUBSET S : g[s] = IF s = {} THEN base ELSE h[c[s]][g[Rest(s, c)]]

\* What T holds of g at the empty set, and at a set when it holds at that set less the element taken.
Inherits(g, T, S, c) == g[{}] \in T /\ \A s \in (SUBSET S) \ {{}} : g[Rest(s, c)] \in T => g[s] \in T

\* A subset of a finite set is finite and no larger.
LEMMA Subcard ==
  ASSUME NEW S, IsFiniteSet(S), NEW s \in SUBSET S
  PROVE  IsFiniteSet(s) /\ Cardinality(s) \in Nat /\ Cardinality(s) <= Cardinality(S) /\ (Cardinality(s) = 0 <=> s = {})
BY FS_Subset, FS_CardinalityType, FS_EmptySet

\* Taking one element away leaves one fewer.
LEMMA OneLess ==
  ASSUME NEW S, IsFiniteSet(S), NEW s \in SUBSET S, NEW c, Takes(c, S), s # {}
  PROVE  Rest(s, c) \in SUBSET S /\ Cardinality(Rest(s, c)) \in Nat /\ Cardinality(s) = Cardinality(Rest(s, c)) + 1
<1>1. PICK x \in s : x = c[s]
  BY DEF Takes
<1>2. IsFiniteSet(s) /\ Cardinality(s) \in Nat
  BY Subcard
<1>3. PICK t : t = s \ {x}
  OBVIOUS
<1>4. Rest(s, c) = t
  BY <1>1, <1>3 DEF Rest
<1>5. Cardinality(t) = Cardinality(s) - 1
  BY <1>2, <1>3, FS_RemoveElement
<1>6. t \in SUBSET S
  BY <1>3
<1>7. Cardinality(t) \in Nat
  BY <1>6, Subcard
<1> QED
  BY <1>2, <1>4, <1>5, <1>6, <1>7

\* A fold exists.
LEMMA FoldExists ==
  ASSUME NEW S, IsFiniteSet(S), NEW T, NEW base \in T, NEW h \in [S -> [T -> T]], NEW c, Takes(c, S)
  PROVE  \E g \in [SUBSET S -> T] : Folds(g, S, base, h, c)
<1> DEFINE Unfolds(g, s) == g[s] = IF s = {} THEN base ELSE h[c[s]][g[Rest(s, c)]]
           Upto(k) == \E g \in [SUBSET S -> T] : \A s \in SUBSET S : Cardinality(s) <= k => Unfolds(g, s)
           later == {k \in Nat : ~Upto(k)}
<1>2. Upto(0)
  <2>1. PICK g \in [SUBSET S -> T] : g = [s \in SUBSET S |-> base]
    OBVIOUS
  <2>2. ASSUME NEW s \in SUBSET S, Cardinality(s) <= 0
        PROVE  Unfolds(g, s)
    <3>1. s = {}
      BY <2>2, Subcard
    <3> QED
      BY <2>1, <3>1
  <2> QED
    BY <2>2
<1>3. ASSUME NEW k \in Nat, Upto(k)
      PROVE  Upto(k + 1)
  <2>1. PICK g \in [SUBSET S -> T] : \A s \in SUBSET S : Cardinality(s) <= k => Unfolds(g, s)
    BY <1>3
  <2>2. PICK f : f = [s \in SUBSET S |-> IF s = {} THEN base ELSE h[c[s]][g[Rest(s, c)]]]
    OBVIOUS
  <2>3. f \in [SUBSET S -> T]
    <3>1. ASSUME NEW s \in SUBSET S, s # {}
          PROVE  h[c[s]][g[Rest(s, c)]] \in T
      <4>1. c[s] \in S
        BY <3>1 DEF Takes
      <4>2. g[Rest(s, c)] \in T
        BY DEF Rest
      <4> QED
        BY <4>1, <4>2
    <3> QED
      BY <2>2, <3>1
  <2>4. \A s \in SUBSET S : Cardinality(s) <= k => f[s] = g[s]
    BY <2>1, <2>2
  <2>5. ASSUME NEW s \in SUBSET S, Cardinality(s) <= k + 1
        PROVE  Unfolds(f, s)
    <3>1. CASE s = {}
      BY <2>2, <3>1
    <3>2. CASE s # {}
      <4>1. PICK t : t = Rest(s, c)
        OBVIOUS
      <4>2. t \in SUBSET S /\ Cardinality(t) \in Nat /\ Cardinality(s) = Cardinality(t) + 1
        BY <3>2, <4>1, OneLess
      <4>3. Cardinality(t) <= k
        BY <2>5, <4>2
      <4>4. f[t] = g[t]
        BY <2>4, <4>2, <4>3
      <4>5. f[s] = h[c[s]][g[t]]
        BY <2>2, <3>2, <4>1
      <4> QED
        BY <3>2, <4>1, <4>4, <4>5
    <3> QED
      BY <3>1, <3>2
  <2> QED
    BY <2>3, <2>5
<1> HIDE DEF Upto
<1>4. \A k \in Nat : Upto(k)
  <2> SUFFICES ASSUME NEW k \in Nat, ~Upto(k)
               PROVE  FALSE
    OBVIOUS
  <2>1. PICK m \in later : \A y \in later : m <= y
    BY NatMin
  <2>2. m # 0 /\ m \in Nat /\ ~Upto(m)
    BY <1>2, <2>1
  <2>3. m - 1 \in Nat /\ (m - 1) + 1 = m /\ ~(m <= m - 1)
    BY <2>2
  <2>4. Upto(m - 1)
    BY <2>1, <2>3
  <2> QED
    BY <1>3, <2>2, <2>3, <2>4
<1>5. Cardinality(S) \in Nat /\ \A s \in SUBSET S : Cardinality(s) <= Cardinality(S)
  BY Subcard
<1>6. PICK g \in [SUBSET S -> T] : \A s \in SUBSET S : Cardinality(s) <= Cardinality(S) => Unfolds(g, s)
  BY <1>4, <1>5 DEF Upto
<1> QED
  BY <1>5, <1>6 DEF Folds

\* What is inherited holds everywhere.
LEMMA FoldType ==
  ASSUME NEW S, IsFiniteSet(S), NEW T, NEW g, NEW c, Takes(c, S), Inherits(g, T, S, c)
  PROVE  \A s \in SUBSET S : g[s] \in T
<1> DEFINE Typed(k) == \A s \in SUBSET S : Cardinality(s) = k => g[s] \in T
           later == {k \in Nat : ~Typed(k)}
<1>2. Typed(0)
  BY Subcard DEF Inherits
<1>3. ASSUME NEW k \in Nat, Typed(k)
      PROVE  Typed(k + 1)
  <2> SUFFICES ASSUME NEW s \in SUBSET S, Cardinality(s) = k + 1
               PROVE  g[s] \in T
    OBVIOUS
  <2>1. s # {}
    BY FS_EmptySet
  <2>2. PICK t : t = Rest(s, c)
    OBVIOUS
  <2>3. t \in SUBSET S /\ Cardinality(t) \in Nat /\ Cardinality(s) = Cardinality(t) + 1
    BY <2>1, <2>2, OneLess
  <2>4. g[t] \in T
    BY <1>3, <2>3
  <2> QED
    BY <2>1, <2>2, <2>4 DEF Inherits
<1> HIDE DEF Typed
<1>4. \A k \in Nat : Typed(k)
  <2> SUFFICES ASSUME NEW k \in Nat, ~Typed(k)
               PROVE  FALSE
    OBVIOUS
  <2>1. PICK m \in later : \A y \in later : m <= y
    BY NatMin
  <2>2. m # 0 /\ m \in Nat /\ ~Typed(m)
    BY <1>2, <2>1
  <2>3. m - 1 \in Nat /\ (m - 1) + 1 = m /\ ~(m <= m - 1)
    BY <2>2
  <2>4. Typed(m - 1)
    BY <2>1, <2>3
  <2> QED
    BY <1>3, <2>2, <2>3, <2>4
<1>5. ASSUME NEW s \in SUBSET S
      PROVE  g[s] \in T
  <2>1. Cardinality(s) \in Nat
    BY Subcard
  <2>2. Typed(Cardinality(s))
    BY <1>4, <2>1
  <2> QED
    BY <2>2 DEF Typed
<1> QED
  BY <1>5

\* The text of pages is a number of characters.
LEMMA CharsType ==
  ASSUME NEW text, text.pageCount \in Nat, text.chars \in [1 .. text.pageCount -> Nat],
         NEW pages \in SUBSET PagesOf(text)
  PROVE  CharsOf(text, pages) \in Nat
<1> DEFINE first(s) == CHOOSE p \in s : TRUE
           without(s) == s \ {first(s)}
           Sums(g) == g = [s \in SUBSET pages |-> IF s = {} THEN 0 ELSE text.chars[first(s)] + g[without(s)]]
           iter == CHOOSE g : Sums(g)
<1>1. IsFiniteSet(pages) /\ \A p \in pages : text.chars[p] \in Nat
  <2>1. pages \subseteq 1 .. text.pageCount
    BY DEF PagesOf
  <2>2. IsFiniteSet(1 .. text.pageCount)
    BY FS_Interval
  <2> QED
    BY <2>1, <2>2, FS_Subset
<1>2. PICK c : c = [s \in (SUBSET pages) \ {{}} |-> first(s)]
  OBVIOUS
<1>3. Takes(c, pages) /\ \A s \in (SUBSET pages) \ {{}} : c[s] = first(s) /\ c[s] \in pages /\ Rest(s, c) = without(s)
  BY <1>2 DEF Takes, Rest
<1>4. CharsOf(text, pages) = iter[pages]
  BY DEF CharsOf, MapThenSumSet, MapThenFoldSet
<1>5. PICK h : h = [p \in pages |-> [n \in Nat |-> text.chars[p] + n]]
  OBVIOUS
<1>6. h \in [pages -> [Nat -> Nat]] /\ \A p \in pages, n \in Nat : h[p][n] = text.chars[p] + n
  <2>1. \A p \in pages, n \in Nat : text.chars[p] + n \in Nat
    BY <1>1
  <2>2. \A p \in pages : h[p] = [n \in Nat |-> text.chars[p] + n]
    BY <1>5
  <2>3. \A p \in pages : h[p] \in [Nat -> Nat]
    BY <2>1, <2>2
  <2>4. h \in [pages -> [Nat -> Nat]]
    BY <1>5, <2>3
  <2> QED
    BY <2>2, <2>4
<1>7. PICK g \in [SUBSET pages -> Nat] : Folds(g, pages, 0, h, c)
  <2> HIDE DEF first, without
  <2>1. IsFiniteSet(pages) /\ 0 \in Nat /\ Takes(c, pages)
    BY <1>1, <1>3
  <2>2. h \in [pages -> [Nat -> Nat]]
    BY <1>6
  <2> QED
    BY <2>1, <2>2, FoldExists
<1>8. Sums(g)
  <2>1. ASSUME NEW s \in SUBSET pages
        PROVE  g[s] = IF s = {} THEN 0 ELSE text.chars[first(s)] + g[without(s)]
    <3> HIDE DEF first, without
    <3>1. CASE s = {}
      BY <1>7, <3>1 DEF Folds
    <3>2. CASE s # {}
      <4>1. c[s] = first(s) /\ c[s] \in pages /\ Rest(s, c) = without(s)
        BY <1>3, <3>2
      <4>2. g[s] = h[c[s]][g[Rest(s, c)]]
        BY <1>7, <3>2 DEF Folds
      <4>3. Rest(s, c) \in SUBSET pages
        BY DEF Rest
      <4>4. g[Rest(s, c)] \in Nat
        BY <4>3
      <4> QED
        BY <1>6, <3>2, <4>1, <4>2, <4>4
    <3> QED
      BY <3>1, <3>2
  <2> HIDE DEF first, without
  <2> QED
    BY <1>7, <2>1
<1>9. Sums(iter)
  BY <1>8
<1> HIDE DEF iter, first, without
<1>10. iter[{}] = 0 /\ \A s \in (SUBSET pages) \ {{}} : iter[s] = text.chars[first(s)] + iter[without(s)]
  <2>1. {} \in SUBSET pages
    OBVIOUS
  <2> QED
    BY <1>9, <2>1
<1>11. Inherits(iter, Nat, pages, c)
  <2>1. ASSUME NEW s \in (SUBSET pages) \ {{}}, iter[Rest(s, c)] \in Nat
        PROVE  iter[s] \in Nat
    <3>1. c[s] = first(s) /\ c[s] \in pages
      BY <1>3
    <3>2. text.chars[first(s)] \in Nat
      BY <1>1, <3>1
    <3>3. iter[s] = text.chars[first(s)] + iter[without(s)]
      BY <1>10
    <3>4. iter[without(s)] \in Nat
      BY <1>3, <2>1
    <3> QED
      BY <3>2, <3>3, <3>4
  <2> QED
    BY <1>10, <2>1 DEF Inherits
<1>12. \A s \in SUBSET pages : iter[s] \in Nat
  BY <1>1, <1>3, <1>11, FoldType
<1> QED
  BY <1>4, <1>12

\* What holds at 0 and passes from each number below a bound to the next holds up to the bound.
LEMMA UpTo ==
  ASSUME NEW P, NEW n \in Nat, 0 \in P, \A k \in Nat : k < n /\ k \in P => k + 1 \in P
  PROVE  \A k \in 0 .. n : k \in P
<1> SUFFICES ASSUME NEW k \in 0 .. n, k \notin P
             PROVE  FALSE
  OBVIOUS
<1>1. PICK later : later = {j \in 0 .. n : j \notin P}
  OBVIOUS
<1>2. later \in SUBSET Nat /\ k \in later
  BY <1>1
<1>3. PICK m \in later : \A y \in later : m <= y
  BY <1>2, NatMin
<1>4. m \in 0 .. n /\ m \notin P /\ m # 0
  BY <1>1, <1>3
<1>5. m - 1 \in Nat /\ m - 1 < n /\ (m - 1) + 1 = m /\ ~(m <= m - 1) /\ m - 1 \in 0 .. n
  BY <1>4
<1>6. m - 1 \in P
  BY <1>1, <1>3, <1>5
<1> QED
  BY <1>4, <1>5, <1>6

\* The last page that is read.
LastRead(text) == IF text.pageCount <= MaxPages THEN text.pageCount ELSE MaxPages

\* The limits, as facts about numbers.
LEMMA Limits ==
  /\ MaxPages \in Nat \ {0} /\ ImagePages \in Nat \ {0} /\ TextPages \in Nat \ {0} /\ MaxText \in Nat /\ TextLimit \in Nat
  /\ ImagePages <= TextPages /\ MaxText <= TextLimit
BY LimitsAssumption

\* The readable pages are the first ones, up to the limit of a read.
LEMMA ReadableInterval ==
  ASSUME NEW text, text.pageCount \in Nat
  PROVE  Readable(text) = 1 .. LastRead(text) /\ LastRead(text) \in Nat /\ LastRead(text) <= text.pageCount
BY Limits DEF Readable, PagesOf, LastRead

\* The states of the loop over the pages.
Filling(text) == [closed : Seq(SUBSET Readable(text)), current : SUBSET Readable(text)]
Empty == [closed |-> <<>>, current |-> {}]

\* Placing a page leaves a plan of batches of readable pages.
LEMMA PlaceType ==
  ASSUME NEW text, NEW plan \in Filling(text), NEW p \in Readable(text)
  PROVE  Place(text, plan, p) \in Filling(text)
<1>1. plan.closed \in Seq(SUBSET Readable(text)) /\ plan.current \in SUBSET Readable(text)
  BY DEF Filling
<1>2. Append(plan.closed, plan.current) \in Seq(SUBSET Readable(text))
  BY <1>1, AppendProperties
<1> QED
  BY <1>1, <1>2 DEF Place, Filling

\* The greatest of a non-empty set of numbers is one of them and at least each.
LEMMA MaxOf ==
  ASSUME NEW n \in Nat, NEW s \in SUBSET (1 .. n), s # {}
  PROVE  Max(s) \in s /\ \A y \in s : Max(s) >= y
<1>1. PICK T : T = {n - y : y \in s}
  OBVIOUS
<1>2. T \in SUBSET Nat
  BY <1>1
<1>3. PICK x : x \in s
  OBVIOUS
<1>4. n - x \in T
  BY <1>1, <1>3
<1>5. PICK d \in T : \A e \in T : d <= e
  BY <1>2, <1>4, NatMin
<1>6. PICK m \in s : d = n - m
  BY <1>1, <1>5
<1>7. \A y \in s : n - y \in T /\ y \in Nat /\ m \in Nat
  BY <1>1, <1>6
<1>8. \A y \in s : m >= y
  <2> TAKE y \in s
  <2>1. d <= n - y
    BY <1>5, <1>7
  <2> QED
    BY <1>6, <1>7, <2>1
<1> QED
  BY <1>6, <1>8 DEF Max

\* The loop over the pages, page by page.
LEMMA PlanSteps ==
  ASSUME NEW text, text.pageCount \in Nat, NEW n, n = LastRead(text)
  PROVE  \E after : /\ after[0] = Empty
                    /\ \A k \in 1 .. n : after[k] = Place(text, after[k - 1], k)
                    /\ TextPlan(text) = after[n]
                    /\ \A k \in 0 .. n : after[k] \in Filling(text)
<1> DEFINE S == Readable(text)
           T == Filling(text)
           Loop(g) == g = [s \in SUBSET S |-> IF s = {} THEN Empty ELSE Place(text, g[s \ {Max(s)}], [p \in S |-> p][Max(s)])]
           iter == CHOOSE g : Loop(g)
<1>1. S = 1 .. n /\ n \in Nat /\ IsFiniteSet(S)
  BY ReadableInterval, FS_Interval
<1>2. \A s \in (SUBSET S) \ {{}} : Max(s) \in s
  BY <1>1, MaxOf
<1>3. TextPlan(text) = iter[S]
  BY DEF TextPlan, FoldLeft, MapThenFoldSet, Empty
<1>4. PICK c : c = [s \in (SUBSET S) \ {{}} |-> Max(s)]
  OBVIOUS
<1>5. PICK h : h = [p \in S |-> [plan \in T |-> Place(text, plan, p)]]
  OBVIOUS
<1>6. Takes(c, S) /\ \A s \in (SUBSET S) \ {{}} : c[s] = Max(s) /\ c[s] \in S /\ Rest(s, c) = s \ {Max(s)}
  BY <1>2, <1>4 DEF Takes, Rest
<1>7. h \in [S -> [T -> T]] /\ \A p \in S, plan \in T : h[p][plan] = Place(text, plan, p)
  <2> HIDE DEF S, T
  <2>1. \A p \in S, plan \in T : Place(text, plan, p) \in T
    BY PlaceType DEF S, T
  <2>2. \A p \in S : h[p] = [plan \in T |-> Place(text, plan, p)]
    BY <1>5
  <2>3. \A p \in S : h[p] \in [T -> T]
    BY <2>1, <2>2
  <2>4. h \in [S -> [T -> T]]
    BY <1>5, <2>3
  <2> QED
    BY <2>2, <2>4
<1>8. Empty \in T
  BY EmptySeq DEF Empty, Filling
<1>9. PICK g \in [SUBSET S -> T] : Folds(g, S, Empty, h, c)
  <2> HIDE DEF S, T
  <2>1. IsFiniteSet(S) /\ Takes(c, S) /\ h \in [S -> [T -> T]]
    BY <1>1, <1>6, <1>7
  <2> QED
    BY <1>8, <2>1, FoldExists
<1> HIDE DEF T, S
<1>10. Loop(g)
  <2>1. ASSUME NEW s \in SUBSET S
        PROVE  g[s] = IF s = {} THEN Empty ELSE Place(text, g[s \ {Max(s)}], [p \in S |-> p][Max(s)])
    <3>1. CASE s = {}
      BY <1>9, <3>1 DEF Folds
    <3>2. CASE s # {}
      <4>1. c[s] = Max(s) /\ c[s] \in S /\ Rest(s, c) = s \ {Max(s)}
        BY <1>6, <3>2
      <4>2. g[s] = h[c[s]][g[Rest(s, c)]]
        BY <1>9, <3>2 DEF Folds
      <4>3. g[Rest(s, c)] \in T
        BY DEF Rest
      <4>4. [p \in S |-> p][Max(s)] = Max(s)
        BY <4>1
      <4> QED
        BY <1>7, <3>2, <4>1, <4>2, <4>3, <4>4
    <3> QED
      BY <3>1, <3>2
  <2> QED
    BY <1>9, <2>1
<1>11. Loop(iter)
  BY <1>10
<1> HIDE DEF iter
<1>12. \A s \in SUBSET S : iter[s] = IF s = {} THEN Empty ELSE Place(text, iter[s \ {Max(s)}], [p \in S |-> p][Max(s)])
  BY <1>11
<1>13. PICK after : after = [k \in 0 .. n |-> iter[1 .. k]]
  OBVIOUS
<1>14. after[0] = Empty
  <2>1. 1 .. 0 = {} /\ {} \in SUBSET S /\ 0 \in 0 .. n
    BY <1>1
  <2> QED
    BY <1>12, <1>13, <2>1
<1>15. ASSUME NEW k \in 1 .. n
       PROVE  after[k] = Place(text, after[k - 1], k)
  <2>1. PICK s : s = 1 .. k
    OBVIOUS
  <2>2. s \in SUBSET S /\ s \in SUBSET (1 .. n) /\ s # {} /\ k \in s /\ n \in Nat
    BY <1>1, <2>1
  <2>3. Max(s) \in s /\ Max(s) >= k
    BY <2>2, MaxOf
  <2>4. Max(s) = k
    BY <2>1, <2>3
  <2>5. s \ {Max(s)} = 1 .. (k - 1)
    BY <1>1, <2>1, <2>4
  <2>6. [p \in S |-> p][Max(s)] = k
    BY <2>2, <2>4
  <2>7. iter[s] = Place(text, iter[1 .. (k - 1)], k)
    BY <1>12, <2>2, <2>5, <2>6
  <2>8. k - 1 \in 0 .. n /\ k \in 0 .. n
    BY <1>1
  <2> QED
    BY <1>13, <2>1, <2>7, <2>8
<1>16. TextPlan(text) = after[n]
  BY <1>1, <1>3, <1>13
<1>17. ASSUME NEW k \in 0 .. n
       PROVE  after[k] \in T
  <2>1. PICK P : P = {j \in 0 .. n : after[j] \in T}
    OBVIOUS
  <2>2. 0 \in P
    BY <1>1, <1>8, <1>14, <2>1
  <2>3. ASSUME NEW j \in Nat, j < n, j \in P
        PROVE  j + 1 \in P
    <3>1. j + 1 \in 1 .. n /\ (j + 1) - 1 = j /\ j + 1 \in 0 .. n
      BY <1>1, <2>3
    <3>2. after[j + 1] = Place(text, after[j], j + 1)
      BY <1>15, <3>1
    <3>3. j + 1 \in S
      BY <1>1, <3>1
    <3>4. after[j] \in T
      BY <2>1, <2>3
    <3>5. Place(text, after[j], j + 1) \in T
      BY <3>3, <3>4, PlaceType DEF S, T
    <3> QED
      BY <2>1, <3>1, <3>2, <3>5
  <2>4. \A j \in 0 .. n : j \in P
    BY <1>1, <2>2, <2>3, UpTo
  <2> QED
    BY <2>1, <2>4
<1> QED
  BY <1>14, <1>15, <1>16, <1>17 DEF T

\* The files of the documents the planner is given.
Text(text) == text.pageCount \in Nat /\ text.chars \in [1 .. text.pageCount -> Nat]

\* A batch of the text plan among the first k pages: within the limits of a call unless it is one page.
Run(text, run, k) ==
  /\ run \in SUBSET (1 .. k) /\ run # {}
  /\ IsFiniteSet(run) /\ Cardinality(run) <= TextPages
  /\ Cardinality(run) = 1 \/ CharsOf(text, run) <= MaxText
  /\ Cardinality(run) <= ImagePages \/ Cardinality({q \in run : IsThin(text, q)}) <= ImagePages

\* The batches closed and the one being filled divide the first k pages.
Divides(text, plan, k) ==
  /\ k = 0 => plan.current = {} /\ plan.closed = <<>>
  /\ k # 0 => Run(text, plan.current, k)
  /\ \A i \in DOMAIN plan.closed : Run(text, plan.closed[i], k) /\ plan.closed[i] \cap plan.current = {}
  /\ \A i, j \in DOMAIN plan.closed : i # j => plan.closed[i] \cap plan.closed[j] = {}
  /\ \A p \in 1 .. k : p \in plan.current \/ \E i \in DOMAIN plan.closed : p \in plan.closed[i]

\* A run of the pages so far is one of the pages after one more.
LEMMA RunLater ==
  ASSUME NEW text, NEW k \in Nat, NEW run, Run(text, run, k)
  PROVE  Run(text, run, k + 1) /\ k + 1 \notin run
<1>1. run \in SUBSET (1 .. (k + 1)) /\ k + 1 \notin run
  BY DEF Run
<1> QED
  BY <1>1 DEF Run

\* One page alone is a run, however much text it has.
LEMMA RunOfOne ==
  ASSUME NEW text, NEW k \in Nat \ {0}, NEW run, run = {k}
  PROVE  Run(text, run, k)
<1>1. IsFiniteSet(run) /\ Cardinality(run) = 1
  BY FS_Singleton
<1> QED
  BY <1>1, Limits DEF Run

\* A run that is not full takes the next page and stays within what one call may carry.
LEMMA RunJoined ==
  ASSUME NEW text, Text(text), NEW k \in Nat, k + 1 \in Readable(text), NEW run, Run(text, run, k),
         ~Full(text, run, k + 1), NEW joined, joined = run \cup {k + 1}
  PROVE  Run(text, joined, k + 1)
<1>1. k + 1 \notin run /\ joined \in SUBSET (1 .. (k + 1)) /\ joined # {}
  BY RunLater DEF Run
<1>2. IsFiniteSet(run) /\ Cardinality(run) \in Nat
  BY FS_CardinalityType DEF Run
<1>3. IsFiniteSet(joined) /\ Cardinality(joined) = Cardinality(run) + 1
  BY <1>1, <1>2, FS_AddElement
<1>4. Cardinality(joined) <= TextPages
  BY <1>2, <1>3, Limits DEF Full
<1>5. CharsOf(text, joined) <= MaxText
  <2>1. joined \in SUBSET PagesOf(text)
    BY <1>1, ReadableInterval DEF PagesOf, Text
  <2>2. CharsOf(text, joined) \in Nat
    BY <2>1, CharsType DEF Text
  <2>3. ~(CharsOf(text, joined) > MaxText)
    BY DEF Full
  <2> QED
    BY <2>2, <2>3, Limits
<1>6. Cardinality(joined) <= ImagePages \/ Cardinality({q \in joined : IsThin(text, q)}) <= ImagePages
  <2>1. PICK thin : thin = {q \in joined : IsThin(text, q)}
    OBVIOUS
  <2>2. IsFiniteSet(thin) /\ Cardinality(thin) \in Nat
    BY <1>3, <2>1, FS_Subset, FS_CardinalityType
  <2>3. ~(Cardinality(run) >= ImagePages /\ Cardinality(thin) > ImagePages)
    BY <2>1 DEF Full
  <2> QED
    BY <1>2, <1>3, <2>1, <2>2, <2>3, Limits
<1> QED
  BY <1>1, <1>3, <1>4, <1>5, <1>6 DEF Run

\* Placing the next page keeps the division of the pages into runs.
LEMMA PlaceDivides ==
  ASSUME NEW text, Text(text), NEW k \in Nat, k + 1 \in Readable(text),
         NEW plan \in Filling(text), Divides(text, plan, k), NEW next, next = Place(text, plan, k + 1)
  PROVE  Divides(text, next, k + 1)
<1> DEFINE n == Len(plan.closed)
<1>1. plan.closed \in Seq(SUBSET Readable(text)) /\ plan.current \in SUBSET Readable(text)
  BY DEF Filling
<1>2. n \in Nat /\ DOMAIN plan.closed = 1 .. n
  BY <1>1, LenProperties
<1>3. \A i \in 1 .. n : /\ Run(text, plan.closed[i], k + 1) /\ k + 1 \notin plan.closed[i]
                        /\ plan.closed[i] \cap plan.current = {}
  BY <1>2, RunLater DEF Divides
<1>4. \A i, j \in 1 .. n : i # j => plan.closed[i] \cap plan.closed[j] = {}
  BY <1>2 DEF Divides
<1>5. \A p \in 1 .. k : p \in plan.current \/ \E i \in 1 .. n : p \in plan.closed[i]
  BY <1>2 DEF Divides
<1>6. k # 0 => Run(text, plan.current, k) /\ Run(text, plan.current, k + 1) /\ k + 1 \notin plan.current
  BY RunLater DEF Divides
<1>7. k = 0 => plan.current = {} /\ n = 0
  BY EmptySeq DEF Divides
<1>8. CASE plan.current # {} /\ Full(text, plan.current, k + 1)
  <2>1. k # 0
    BY <1>7, <1>8
  <2>2. PICK closed : closed = Append(plan.closed, plan.current)
    OBVIOUS
  <2>3. next.closed = closed /\ next.current = {k + 1}
    BY <1>8, <2>2 DEF Place
  <2>4. /\ closed \in Seq(SUBSET Readable(text)) /\ Len(closed) = n + 1
        /\ closed[n + 1] = plan.current /\ \A i \in 1 .. n : closed[i] = plan.closed[i]
    BY <1>1, <2>2, AppendProperties
  <2>5. DOMAIN closed = 1 .. (n + 1)
    BY <2>4, LenProperties
  <2>6. PICK one : one = {k + 1}
    OBVIOUS
  <2>7. Run(text, one, k + 1)
    BY <2>6, RunOfOne
  <2>8. \A i \in 1 .. (n + 1) : Run(text, closed[i], k + 1) /\ closed[i] \cap one = {}
    <3> TAKE i \in 1 .. (n + 1)
    <3>1. CASE i = n + 1
      BY <1>6, <2>1, <2>4, <2>6, <3>1
    <3>2. CASE i \in 1 .. n
      BY <1>3, <2>4, <2>6, <3>2
    <3> QED
      BY <1>2, <3>1, <3>2
  <2>9. \A i, j \in 1 .. (n + 1) : i # j => closed[i] \cap closed[j] = {}
    <3> TAKE i, j \in 1 .. (n + 1)
    <3>1. CASE i \in 1 .. n /\ j \in 1 .. n
      BY <1>4, <2>4, <3>1
    <3>2. CASE i \in 1 .. n /\ j = n + 1
      BY <1>3, <2>4, <3>2
    <3>3. CASE i = n + 1 /\ j \in 1 .. n
      BY <1>3, <2>4, <3>3
    <3> QED
      BY <1>2, <3>1, <3>2, <3>3
  <2>10. \A p \in 1 .. (k + 1) : p \in one \/ \E i \in 1 .. (n + 1) : p \in closed[i]
    <3> TAKE p \in 1 .. (k + 1)
    <3>1. CASE p = k + 1
      BY <2>6, <3>1
    <3>2. CASE p \in 1 .. k
      <4>1. CASE p \in plan.current
        <5>1. n + 1 \in 1 .. (n + 1) /\ p \in closed[n + 1]
          BY <1>2, <2>4, <4>1
        <5> QED
          BY <5>1
      <4>2. CASE \E i \in 1 .. n : p \in plan.closed[i]
        <5>1. PICK i \in 1 .. n : p \in plan.closed[i]
          BY <4>2
        <5>2. i \in 1 .. (n + 1)
          BY <1>2
        <5> QED
          BY <2>4, <5>1, <5>2
      <4> QED
        BY <1>5, <3>2, <4>1, <4>2
    <3> QED
      BY <3>1, <3>2
  <2>11. k + 1 # 0 /\ next.current = one /\ DOMAIN next.closed = 1 .. (n + 1)
    BY <2>3, <2>5, <2>6
  <2> QED
    BY <2>3, <2>7, <2>8, <2>9, <2>10, <2>11 DEF Divides
<1>9. CASE ~(plan.current # {} /\ Full(text, plan.current, k + 1))
  <2>1. PICK joined : joined = plan.current \cup {k + 1}
    OBVIOUS
  <2>2. next.closed = plan.closed /\ next.current = joined
    BY <1>9, <2>1 DEF Place
  <2>3. Run(text, joined, k + 1)
    <3>1. CASE k = 0
      <4>1. joined = {k + 1}
        BY <1>7, <2>1, <3>1
      <4> QED
        BY <4>1, RunOfOne
    <3>2. CASE k # 0
      <4>1. Run(text, plan.current, k) /\ plan.current # {}
        BY <1>6, <3>2 DEF Run
      <4> QED
        BY <1>9, <2>1, <4>1, RunJoined
    <3> QED
      BY <3>1, <3>2
  <2>4. \A i \in 1 .. n : plan.closed[i] \cap joined = {}
    BY <1>3, <2>1
  <2>5. \A p \in 1 .. (k + 1) : p \in joined \/ \E i \in 1 .. n : p \in plan.closed[i]
    <3> TAKE p \in 1 .. (k + 1)
    <3>1. p = k + 1 \/ p \in 1 .. k
      OBVIOUS
    <3> QED
      BY <1>5, <2>1, <3>1
  <2>6. PICK closed : closed = plan.closed
    OBVIOUS
  <2>7. /\ k + 1 # 0 /\ DOMAIN closed = 1 .. n /\ Run(text, joined, k + 1)
        /\ \A i \in 1 .. n : Run(text, closed[i], k + 1) /\ closed[i] \cap joined = {}
        /\ \A i, j \in 1 .. n : i # j => closed[i] \cap closed[j] = {}
        /\ \A p \in 1 .. (k + 1) : p \in joined \/ \E i \in 1 .. n : p \in closed[i]
    BY <1>2, <1>3, <1>4, <2>3, <2>4, <2>5, <2>6
  <2> QED
    BY <2>2, <2>6, <2>7 DEF Divides
<1> QED
  BY <1>8, <1>9

\* The text plan divides the readable pages into runs.
LEMMA TextPlanDivides ==
  ASSUME NEW text, Text(text)
  PROVE  TextPlan(text) \in Filling(text) /\ Divides(text, TextPlan(text), LastRead(text))
<1>1. PICK n : n = LastRead(text)
  OBVIOUS
<1>2. text.pageCount \in Nat /\ n \in Nat /\ Readable(text) = 1 .. n
  BY <1>1, ReadableInterval DEF Text
<1>3. PICK after : /\ after[0] = Empty
                   /\ \A k \in 1 .. n : after[k] = Place(text, after[k - 1], k)
                   /\ TextPlan(text) = after[n]
                   /\ \A k \in 0 .. n : after[k] \in Filling(text)
  BY <1>1, <1>2, PlanSteps
<1>4. PICK P : P = {k \in 0 .. n : Divides(text, after[k], k)}
  OBVIOUS
<1>5. 0 \in P
  <2>1. Empty.closed = <<>> /\ Empty.current = {} /\ DOMAIN <<>> = {}
    BY EmptySeq DEF Empty
  <2>2. Divides(text, Empty, 0)
    BY <2>1 DEF Divides
  <2> QED
    BY <1>2, <1>3, <1>4, <2>2
<1>6. ASSUME NEW k \in Nat, k < n, k \in P
      PROVE  k + 1 \in P
  <2>1. k + 1 \in 1 .. n /\ (k + 1) - 1 = k /\ k + 1 \in 0 .. n /\ k \in 0 .. n
    BY <1>2, <1>6
  <2>2. after[k + 1] = Place(text, after[k], k + 1)
    BY <1>3, <2>1
  <2>3. Divides(text, after[k], k) /\ after[k] \in Filling(text) /\ k + 1 \in Readable(text)
    BY <1>2, <1>3, <1>4, <1>6, <2>1
  <2>4. Divides(text, after[k + 1], k + 1)
    BY <2>2, <2>3, PlaceDivides
  <2> QED
    BY <1>4, <2>1, <2>4
<1>7. n \in 0 .. n /\ \A k \in 0 .. n : k \in P
  BY <1>2, <1>5, <1>6, UpTo
<1> QED
  BY <1>1, <1>3, <1>4, <1>7

\* A call the route takes, unless its text is too much and either it is one page or another page has no text.
Sendable(text, batch) ==
  /\ \/ validateFactRead(text, batch)
     \/ TooLong(text) \/ TooManyLines(text, batch)
     \/ TooMuchText(text, batch) /\ (Cardinality(batch.pages) = 1 \/ ~TextMode(text))
  /\ \A p \in batch.pages : IsThin(text, p) => p \in batch.imagePages

\* Every page that is read is in exactly one batch, and every batch is one the route takes.
Covers(text, batches) ==
  /\ Len(batches) \in Nat /\ DOMAIN batches = 1 .. Len(batches)
  /\ \A i \in DOMAIN batches : batches[i].pages \in SUBSET Readable(text) /\ Sendable(text, batches[i])
  /\ \A i, j \in DOMAIN batches : i # j => batches[i].pages \cap batches[j].pages = {}
  /\ \A p \in Readable(text) : \E i \in DOMAIN batches : p \in batches[i].pages

\* The length of a function on 1 .. n is n.
LEMMA LenOf ==
  ASSUME NEW n \in Nat, NEW s, s = [i \in 1 .. n |-> s[i]]
  PROVE  Len(s) = n /\ DOMAIN s = 1 .. n
<1>1. PICK S : S = {s[i] : i \in 1 .. n}
  OBVIOUS
<1>2. s \in [1 .. n -> S]
  BY <1>1
<1>3. s \in Seq(S)
  BY <1>2, SeqDef
<1> QED
  BY <1>2, <1>3, LenProperties

\* A run of a text document is a batch the route takes.
LEMMA TextBatchSent ==
  ASSUME NEW text, Text(text), TextMode(text), NEW run, Run(text, run, LastRead(text))
  PROVE  Batch(text, run).pages = run /\ Sendable(text, Batch(text, run))
<1>1. PICK batch : batch = Batch(text, run)
  OBVIOUS
<1>2. PICK thin : thin = {p \in run : IsThin(text, p)}
  OBVIOUS
<1>3. batch.pages = run /\ batch.imagePages = IF Cardinality(run) <= ImagePages THEN run ELSE thin
  BY <1>1, <1>2 DEF Batch
<1>4. run \in SUBSET Readable(text) /\ run \in SUBSET PagesOf(text) /\ run # {}
  BY ReadableInterval DEF Run, Text, PagesOf
<1>5. IsFiniteSet(run) /\ Cardinality(run) \in 1 .. TextPages
  <2>1. IsFiniteSet(run) /\ Cardinality(run) \in Nat /\ Cardinality(run) # 0 /\ Cardinality(run) <= TextPages
    BY <1>4, FS_CardinalityType, FS_EmptySet DEF Run
  <2> QED
    BY <2>1, Limits
<1>6. \A p \in run : text.chars[p] > 0
  BY <1>4 DEF TextMode
<1>7. {p \in run : text.chars[p] > 0} = run
  BY <1>6
<1>8. TooMuchText(text, batch) => Cardinality(run) = 1
  <2>1. CharsOf(text, run) \in Nat
    BY <1>4, CharsType DEF Text
  <2>2. TooMuchText(text, batch) <=> CharsOf(text, run) > TextLimit
    BY <1>3, <1>7 DEF TooMuchText
  <2>3. Cardinality(run) = 1 \/ CharsOf(text, run) <= MaxText
    BY DEF Run
  <2> QED
    BY <2>1, <2>2, <2>3, Limits
<1>9. Cardinality(batch.imagePages) <= ImagePages /\ batch.imagePages \subseteq run
  <2>1. CASE Cardinality(run) <= ImagePages
    BY <1>3, <2>1
  <2>2. CASE ~(Cardinality(run) <= ImagePages)
    BY <1>2, <1>3, <2>2 DEF Run
  <2> QED
    BY <2>1, <2>2
<1>10. \E p \in run : text.chars[p] > 0
  BY <1>4, <1>6
<1>11. \/ TooLong(text) \/ TooManyLines(text, batch)
       \/ ~TooMuchText(text, batch) => validateFactRead(text, batch)
  BY <1>3, <1>4, <1>5, <1>9, <1>10 DEF validateFactRead
<1>12. \A p \in run : IsThin(text, p) => p \in batch.imagePages
  BY <1>2, <1>3
<1> QED
  BY <1>1, <1>3, <1>8, <1>11, <1>12 DEF Sendable

\* The batches of a text document take every readable page exactly once.
LEMMA TextCovers ==
  ASSUME NEW text, Text(text), TextMode(text)
  PROVE  Covers(text, TextBatches(text))
<1>1. PICK plan : plan = TextPlan(text)
  OBVIOUS
<1>2. PICK n : n = LastRead(text)
  OBVIOUS
<1>3. plan \in Filling(text) /\ Divides(text, plan, n) /\ Readable(text) = 1 .. n /\ n \in Nat
  BY <1>1, <1>2, TextPlanDivides, ReadableInterval DEF Text
<1>4. n # 0
  BY <1>3 DEF TextMode
<1>5. PICK m : m = Len(plan.closed)
  OBVIOUS
<1>6. plan.closed \in Seq(SUBSET Readable(text)) /\ plan.current \in SUBSET Readable(text)
  BY <1>3 DEF Filling
<1>7. m \in Nat /\ DOMAIN plan.closed = 1 .. m
  BY <1>5, <1>6, LenProperties
<1>8. PICK runs : runs = Append(plan.closed, plan.current)
  OBVIOUS
<1>9. /\ runs \in Seq(SUBSET Readable(text)) /\ Len(runs) = m + 1
      /\ runs[m + 1] = plan.current /\ \A i \in 1 .. m : runs[i] = plan.closed[i]
  BY <1>5, <1>6, <1>8, AppendProperties
<1>10. DOMAIN runs = 1 .. (m + 1)
  BY <1>9, LenProperties
<1>11. \A i \in 1 .. (m + 1) : Run(text, runs[i], n)
  <2> TAKE i \in 1 .. (m + 1)
  <2>1. CASE i = m + 1
    BY <1>3, <1>4, <1>9, <2>1 DEF Divides
  <2>2. CASE i \in 1 .. m
    BY <1>3, <1>7, <1>9, <2>2 DEF Divides
  <2> QED
    BY <1>7, <2>1, <2>2
<1>12. \A i, j \in 1 .. (m + 1) : i # j => runs[i] \cap runs[j] = {}
  <2>1. /\ \A i \in 1 .. m : plan.closed[i] \cap plan.current = {}
        /\ \A i, j \in 1 .. m : i # j => plan.closed[i] \cap plan.closed[j] = {}
    BY <1>3, <1>7 DEF Divides
  <2> TAKE i, j \in 1 .. (m + 1)
  <2>2. CASE i \in 1 .. m /\ j \in 1 .. m
    BY <1>9, <2>1, <2>2
  <2>3. CASE i \in 1 .. m /\ j = m + 1
    BY <1>9, <2>1, <2>3
  <2>4. CASE i = m + 1 /\ j \in 1 .. m
    BY <1>9, <2>1, <2>4
  <2> QED
    BY <1>7, <2>2, <2>3, <2>4
<1>13. \A p \in 1 .. n : \E i \in 1 .. (m + 1) : p \in runs[i]
  <2> TAKE p \in 1 .. n
  <2>1. p \in plan.current \/ \E i \in 1 .. m : p \in plan.closed[i]
    BY <1>3, <1>7 DEF Divides
  <2> QED
    BY <1>7, <1>9, <2>1
<1>14. PICK batches : batches = TextBatches(text)
  OBVIOUS
<1>15. batches = [i \in 1 .. (m + 1) |-> Batch(text, runs[i])]
  BY <1>1, <1>8, <1>10, <1>14 DEF TextBatches
<1>16. Len(batches) = m + 1 /\ DOMAIN batches = 1 .. (m + 1)
  <2>1. batches = [i \in 1 .. (m + 1) |-> batches[i]] /\ m + 1 \in Nat
    BY <1>7, <1>15
  <2> QED
    BY <2>1, LenOf
<1>17. \A i \in 1 .. (m + 1) : /\ batches[i].pages = runs[i] /\ runs[i] \in SUBSET Readable(text)
                               /\ Sendable(text, batches[i])
  <2> TAKE i \in 1 .. (m + 1)
  <2>1. batches[i] = Batch(text, runs[i]) /\ Run(text, runs[i], n)
    BY <1>11, <1>15
  <2>2. runs[i] \in SUBSET Readable(text)
    BY <1>3, <2>1 DEF Run
  <2> QED
    BY <1>2, <2>1, <2>2, TextBatchSent
<1>18. Len(batches) \in Nat /\ Len(batches) = m + 1 /\ DOMAIN batches = 1 .. Len(batches)
  BY <1>7, <1>16
<1>19. \A i, j \in 1 .. (m + 1) : i # j => batches[i].pages \cap batches[j].pages = {}
  BY <1>12, <1>17
<1>20. \A p \in Readable(text) : \E i \in 1 .. (m + 1) : p \in batches[i].pages
  BY <1>3, <1>13, <1>17
<1>21. \A i \in 1 .. (m + 1) : batches[i].pages \in SUBSET Readable(text) /\ Sendable(text, batches[i])
  BY <1>17
<1>22. Covers(text, batches)
  BY <1>18, <1>19, <1>20, <1>21 DEF Covers
<1> QED
  BY <1>14, <1>22

\* Division rounds down.
LEMMA Division ==
  ASSUME NEW k \in Nat \ {0}, NEW x \in Nat
  PROVE  x \div k \in Nat /\ k * (x \div k) <= x /\ x < k * (x \div k) + k
OBVIOUS

\* The multiples of a positive number are its number apart.
LEMMA Multiples ==
  ASSUME NEW k \in Nat \ {0}, NEW i \in Nat, NEW j \in Nat
  PROVE  k * i \in Nat /\ k * (i + 1) = k * i + k /\ (i < j => k * i + k <= k * j) /\ (i <= j => k * i <= k * j)
<1>1. k * i \in Nat /\ k * (i + 1) = k * i + k
  OBVIOUS
<1>2. i < j => k * i + k <= k * j
  OBVIOUS
<1>3. i <= j => k * i <= k * j
  OBVIOUS
<1> QED
  BY <1>1, <1>2, <1>3

\* The quotient is the one number whose multiple is the last below.
LEMMA Quotient ==
  ASSUME NEW k \in Nat \ {0}, NEW x \in Nat, NEW q \in Nat
  PROVE  x \div k = q <=> k * q <= x /\ x < k * q + k
<1>1. PICK d \in Nat : d = x \div k /\ k * d <= x /\ x < k * d + k
  BY Division
<1>2. k * d \in Nat /\ k * q \in Nat /\ (d < q => k * d + k <= k * q) /\ (q < d => k * q + k <= k * d)
  BY Multiples
<1> QED
  BY <1>1, <1>2

\* The batches of a scanned document take every readable page exactly once.
LEMMA ImageCovers ==
  ASSUME NEW text, Text(text), ~TextMode(text)
  PROVE  Covers(text, ImageBatches(text))
<1>1. PICK n : n = LastRead(text)
  OBVIOUS
<1>2. Readable(text) = 1 .. n /\ n \in Nat /\ 1 .. n \in SUBSET PagesOf(text)
  BY <1>1, ReadableInterval DEF Text, PagesOf
<1>3. PICK k : k = ImagePages
  OBVIOUS
<1>4. k \in Nat \ {0} /\ k <= TextPages /\ TextPages \in Nat
  BY <1>3, Limits
<1>5. Cardinality(Readable(text)) = n
  BY <1>2, FS_Interval
<1>6. PICK count : count = (n + k - 1) \div k
  OBVIOUS
<1>7. count \in Nat /\ k * count <= n + k - 1 /\ n + k - 1 < k * count + k /\ k * count \in Nat
  <2>1. n + k - 1 \in Nat
    BY <1>2, <1>4
  <2>2. count \in Nat /\ k * count <= n + k - 1 /\ n + k - 1 < k * count + k
    BY <1>4, <1>6, <2>1, Division
  <2> QED
    BY <1>4, <2>2, Multiples
<1> DEFINE chunk(i) == {p \in 1 .. n : (p - 1) \div k = i - 1}
<1>8. \A p \in 1 .. n, i \in 1 .. count : p \in chunk(i) <=> k * (i - 1) < p /\ p <= k * (i - 1) + k
  <2> TAKE p \in 1 .. n, i \in 1 .. count
  <2>1. p - 1 \in Nat /\ i - 1 \in Nat
    BY <1>2, <1>7
  <2>2. k * (i - 1) \in Nat
    BY <1>4, <2>1, Multiples
  <2>3. (p - 1) \div k = i - 1 <=> k * (i - 1) <= p - 1 /\ p - 1 < k * (i - 1) + k
    BY <1>4, <2>1, Quotient
  <2> QED
    BY <1>2, <1>4, <2>2, <2>3
<1>9. PICK batches : batches = ImageBatches(text)
  OBVIOUS
<1>10. batches = [i \in 1 .. count |-> [pages |-> chunk(i), imagePages |-> chunk(i)]]
  BY <1>2, <1>3, <1>5, <1>6, <1>9 DEF ImageBatches
<1> HIDE DEF chunk
<1>11. Len(batches) = count /\ DOMAIN batches = 1 .. count
  <2>1. batches = [i \in 1 .. count |-> batches[i]]
    BY <1>10
  <2> QED
    BY <1>7, <2>1, LenOf
<1>12. \A i \in 1 .. count : batches[i].pages = chunk(i) /\ batches[i].imagePages = chunk(i)
  BY <1>10
<1>13. \A i \in 1 .. count : chunk(i) \in SUBSET (1 .. n)
  BY DEF chunk
<1>14. \A i, j \in 1 .. count : i # j => chunk(i) \cap chunk(j) = {}
  BY <1>7 DEF chunk
<1>15. \A p \in 1 .. n : \E i \in 1 .. count : p \in chunk(i)
  <2> TAKE p \in 1 .. n
  <2>0. p - 1 \in Nat
    BY <1>2
  <2>1. PICK q \in Nat : q = (p - 1) \div k /\ k * q <= p - 1 /\ p - 1 < k * q + k
    BY <1>4, <2>0, Division
  <2>2. k * q \in Nat /\ k * (q + 1) = k * q + k /\ (count <= q => k * count <= k * q)
    BY <1>4, <1>7, Multiples
  <2>3. q < count
    BY <1>2, <1>4, <1>7, <2>1, <2>2
  <2>4. q + 1 \in 1 .. count /\ (q + 1) - 1 = q
    BY <1>7, <2>3
  <2> QED
    BY <2>1, <2>4 DEF chunk
<1>16. ASSUME NEW i \in 1 .. count
       PROVE  chunk(i) # {} /\ IsFiniteSet(chunk(i)) /\ Cardinality(chunk(i)) \in 1 .. k
  <2>1. PICK low \in Nat : low = k * (i - 1) /\ low + k <= k * count
    <3>1. i - 1 \in Nat /\ i - 1 < count
      BY <1>7
    <3> QED
      BY <1>4, <1>7, <3>1, Multiples
  <2>2. low + 1 \in 1 .. n
    BY <1>2, <1>4, <1>7, <2>1
  <2>3. low + 1 \in chunk(i)
    BY <1>4, <1>8, <2>1, <2>2
  <2>4. chunk(i) \in SUBSET ((low + 1) .. (low + k))
    <3>1. \A p \in chunk(i) : p \in 1 .. n /\ low < p /\ p <= low + k
      BY <1>8, <1>13, <2>1
    <3> QED
      BY <1>2, <3>1
  <2>5. IsFiniteSet((low + 1) .. (low + k)) /\ Cardinality((low + 1) .. (low + k)) = k
    BY <1>4, FS_Interval
  <2>6. IsFiniteSet(chunk(i)) /\ Cardinality(chunk(i)) \in Nat /\ Cardinality(chunk(i)) <= k /\ Cardinality(chunk(i)) # 0
    BY <2>3, <2>4, <2>5, FS_Subset, FS_CardinalityType, FS_EmptySet
  <2> QED
    BY <1>4, <2>3, <2>6
<1>17. ASSUME NEW i \in 1 .. count
       PROVE  Sendable(text, batches[i])
  <2>1. PICK batch : batch = batches[i]
    OBVIOUS
  <2>2. /\ batch.pages = chunk(i) /\ batch.imagePages = chunk(i) /\ chunk(i) # {} /\ Cardinality(chunk(i)) \in 1 .. k
        /\ chunk(i) \in SUBSET PagesOf(text)
    BY <1>2, <1>12, <1>13, <1>16, <2>1
  <2>3. Cardinality(chunk(i)) \in 1 .. TextPages /\ Cardinality(chunk(i)) <= ImagePages
    BY <1>3, <1>4, <2>2
  <2>4. \/ TooLong(text) \/ TooManyLines(text, batch)
        \/ ~TooMuchText(text, batch) => validateFactRead(text, batch)
    BY <2>2, <2>3 DEF validateFactRead
  <2> QED
    BY <2>1, <2>2, <2>4 DEF Sendable
<1>18. \A i \in DOMAIN batches : Sendable(text, batches[i])
  BY <1>11, <1>17
<1>19. Covers(text, batches)
  <2>1. Len(batches) \in Nat /\ DOMAIN batches = 1 .. Len(batches)
    BY <1>7, <1>11
  <2>2. \A i \in DOMAIN batches : batches[i].pages \in SUBSET Readable(text)
    BY <1>2, <1>11, <1>12, <1>13
  <2>3. \A i, j \in DOMAIN batches : i # j => batches[i].pages \cap batches[j].pages = {}
    BY <1>11, <1>12, <1>14
  <2>4. \A p \in Readable(text) : \E i \in DOMAIN batches : p \in batches[i].pages
    BY <1>2, <1>11, <1>12, <1>15
  <2> QED
    BY <1>18, <2>1, <2>2, <2>3, <2>4 DEF Covers
<1> QED
  BY <1>9, <1>19

\* The plan of a document, scanned or not, takes every readable page exactly once.
LEMMA PlanCovers ==
  ASSUME NEW text, Text(text)
  PROVE  Covers(text, planDocumentBatches(text).batches)
BY TextCovers, ImageCovers DEF planDocumentBatches
----------------------------------------------------------------------------
(* PayslipAnalysis *)

\* A function from the first n numbers is a sequence.
LEMMA FunIsSeq ==
  ASSUME NEW n \in Nat, NEW S, NEW s, s \in [1 .. n -> S]
  PROVE  s \in Seq(S)
BY SeqDef

\* A sequence with one more element.
LEMMA AppendOne ==
  ASSUME NEW s, NEW e, s \in Seq({s[i] : i \in DOMAIN s}), NEW t, t = Append(s, e)
  PROVE  /\ Len(s) \in Nat /\ DOMAIN s = 1 .. Len(s) /\ DOMAIN t = 1 .. (Len(s) + 1)
         /\ t[Len(s) + 1] = e /\ \A i \in DOMAIN s : t[i] = s[i]
         /\ t \in Seq({t[i] : i \in DOMAIN t})
<1>1. PICK S : S = {s[i] : i \in DOMAIN s} \cup {e}
  OBVIOUS
<1>2. s \in Seq(S) /\ e \in S
  <2>1. PICK R : R = {s[i] : i \in DOMAIN s}
    OBVIOUS
  <2>2. s \in Seq(R) /\ R \subseteq S
    BY <1>1, <2>1
  <2> QED
    BY <1>1, <2>2, SeqMonotonic
<1>3. Len(s) \in Nat /\ DOMAIN s = 1 .. Len(s)
  BY <1>2, LenProperties
<1>4. t \in Seq(S) /\ Len(t) = Len(s) + 1 /\ t[Len(s) + 1] = e /\ \A i \in 1 .. Len(s) : t[i] = s[i]
  BY <1>2, AppendProperties
<1>5. DOMAIN t = 1 .. (Len(s) + 1)
  BY <1>4, LenProperties
<1>6. t \in Seq({t[i] : i \in DOMAIN t})
  <2>1. PICK n \in Nat : n = Len(s) + 1
    BY <1>3
  <2>2. PICK R : R = {t[i] : i \in DOMAIN t}
    OBVIOUS
  <2>3. t \in [1 .. n -> S]
    BY <1>4, <2>1, LenProperties
  <2>4. t \in [1 .. n -> R]
    BY <2>2, <2>3
  <2>5. t \in Seq(R)
    BY <2>1, <2>4, FunIsSeq
  <2> QED
    BY <2>2, <2>5
<1> QED
  BY <1>3, <1>4, <1>5, <1>6

\* What the server keeps of a scalar: exact only with a value, on a page of the call or none.
LEMMA MappedScalar ==
  ASSUME NEW answer, NEW pages \in SUBSET Nat, NEW f \in mapScalar(answer, pages)
  PROVE  /\ DOMAIN f = {"field", "value", "status", "reason", "raw", "page"}
         /\ f.page \in Nat /\ (f.status = "exact" => f.value # NoValue)
<1>1. evidencePage(answer.page, pages) \in Nat
  BY DEF evidencePage
<1>2. \A key, value, evidence, r : r = exactOrRejected(key, value, evidence) /\ r.status = "exact" => r.value = value
  BY DEF exactOrRejected
<1> QED
  BY <1>1, <1>2 DEF mapScalar

\* A fact made of an answer has the fields of a fact, and a value when it is exact.
LEMMA MappedResponse ==
  ASSUME NEW answers, NEW pages \in SUBSET Nat, NEW f \in mapPayslipFactsResponse(answers, pages).facts
  PROVE  /\ DOMAIN f = {"field", "value", "status", "reason", "raw", "page"}
         /\ f.page \in Nat /\ (f.status = "exact" => f.value # NoValue)
<1>1. PICK answer : f \in mapScalar(answer, pages)
  BY DEF mapPayslipFactsResponse
<1> QED
  BY <1>1, MappedScalar

\* What the records kept under some references say together.
FactsOf(kept, refs) == UNION {kept[r].facts : r \in refs}
LinesOf(kept, refs) == UNION {kept[r].lines : r \in refs}
PremiumsOf(kept, refs) == UNION {kept[r].premiums : r \in refs}
ReadPages(kept, refs) == UNION {kept[r].pages : r \in refs}
Totals(kept, refs) == {kept[r].total : r \in refs}
Merged(kept, refs) == Document!mergeBatches({kept[r] : r \in refs})

\* What a set of records holds is what the records of its references hold.
LEMMA OfRecords ==
  ASSUME NEW kept, NEW refs, NEW set, set = {kept[r] : r \in refs}
  PROVE  /\ UNION {b.facts : b \in set} = FactsOf(kept, refs)
         /\ UNION {b.lines : b \in set} = LinesOf(kept, refs)
         /\ UNION {b.premiums : b \in set} = PremiumsOf(kept, refs)
         /\ UNION {b.pages : b \in set} = ReadPages(kept, refs)
         /\ {b.total : b \in set} = Totals(kept, refs)
<1>1. UNION {b.facts : b \in set} = FactsOf(kept, refs)
  BY DEF FactsOf
<1>2. UNION {b.lines : b \in set} = LinesOf(kept, refs)
  BY DEF LinesOf
<1>3. UNION {b.premiums : b \in set} = PremiumsOf(kept, refs)
  BY DEF PremiumsOf
<1>4. UNION {b.pages : b \in set} = ReadPages(kept, refs)
  BY DEF ReadPages
<1>5. {b.total : b \in set} = Totals(kept, refs)
  BY DEF Totals
<1> QED
  BY <1>1, <1>2, <1>3, <1>4, <1>5

\* The last page of records of some totals.
LastPage(totals) == CHOOSE t \in totals \cup {0} : \A u \in totals : u <= t

\* What the parts of a document merge to.
LEMMA MergedParts ==
  ASSUME NEW kept, NEW refs
  PROVE  Merged(kept, refs) =
           [facts |-> Document!markContradictions(FactsOf(kept, refs)), lines |-> LinesOf(kept, refs),
            premiums |-> PremiumsOf(kept, refs), missing |-> (1 .. LastPage(Totals(kept, refs))) \ ReadPages(kept, refs)]
<1>1. PICK set : set = {kept[r] : r \in refs}
  OBVIOUS
<1>2. Document!notProcessedPages(set) = (1 .. LastPage(Totals(kept, refs))) \ ReadPages(kept, refs)
  BY <1>1, OfRecords DEF Document!notProcessedPages, LastPage
<1> QED
  BY <1>1, <1>2, OfRecords DEF Merged, Document!mergeBatches

\* Whether the records are still kept does not matter.
LEMMA MergedSame ==
  ASSUME NEW one, NEW other, NEW refs,
         \A r \in refs : /\ one[r].facts = other[r].facts /\ one[r].lines = other[r].lines
                         /\ one[r].premiums = other[r].premiums /\ one[r].pages = other[r].pages
                         /\ one[r].total = other[r].total
  PROVE  /\ FactsOf(one, refs) = FactsOf(other, refs) /\ LinesOf(one, refs) = LinesOf(other, refs)
         /\ ReadPages(one, refs) = ReadPages(other, refs) /\ Merged(one, refs) = Merged(other, refs)
<1>1. FactsOf(one, refs) = FactsOf(other, refs)
  BY DEF FactsOf
<1>2. LinesOf(one, refs) = LinesOf(other, refs)
  BY DEF LinesOf
<1>3. PremiumsOf(one, refs) = PremiumsOf(other, refs)
  BY DEF PremiumsOf
<1>4. ReadPages(one, refs) = ReadPages(other, refs)
  BY DEF ReadPages
<1>5. Totals(one, refs) = Totals(other, refs)
  BY DEF Totals
<1> QED
  BY <1>1, <1>2, <1>3, <1>4, <1>5, MergedParts

\* The records of one document agree on its last page.
LEMMA LastPageOf ==
  ASSUME NEW n \in Nat, NEW totals, totals = {n}
  PROVE  LastPage(totals) = n
<1>1. n \in totals \cup {0} /\ \A u \in totals : u <= n
  OBVIOUS
<1>2. \A t \in totals \cup {0} : (\A u \in totals : u <= t) => t = n
  OBVIOUS
<1> QED
  BY <1>1, <1>2 DEF LastPage

\* The pages no record read.
LEMMA MissingOf ==
  ASSUME NEW kept, NEW refs, NEW n \in Nat, refs # {}, \A r \in refs : kept[r].total = n
  PROVE  Merged(kept, refs).missing = (1 .. n) \ ReadPages(kept, refs)
<1>1. Totals(kept, refs) = {n}
  BY DEF Totals
<1>2. LastPage(Totals(kept, refs)) = n
  BY <1>1, LastPageOf
<1> QED
  BY <1>2, MergedParts

\* Facts as the server keeps them, the exact ones of a field, and what they state.
WellFacts(facts) ==
  \A f \in facts : /\ DOMAIN f = {"field", "value", "status", "reason", "raw", "page"}
                   /\ f.page \in Nat /\ (f.status = "exact" => f.value # NoValue)
Exacts(facts, field) == {f \in facts : f.field = field /\ f.status = "exact"}
Stated(facts, field) == {f.value : f \in Exacts(facts, field)}

\* The distinct exact values of a field are the values stated for it.
LEMMA DistinctIsStated ==
  ASSUME NEW facts, NEW field, WellFacts(facts)
  PROVE  Document!distinctExactValues(facts, field) = Stated(facts, field)
<1>1. {g \in Document!occurrences(facts, field) : g.status = "exact" /\ g.value # Document!NoValue} = Exacts(facts, field)
  BY DEF WellFacts, Document!occurrences, Document!NoValue, NoValue, Exacts
<1> QED
  BY <1>1 DEF Document!distinctExactValues, Stated

\* One occurrence after the contradictions are marked.
Mark(facts, f) ==
  IF f.field # "employer" /\ f.status = "exact" /\ Document!Several(Document!distinctExactValues(facts, f.field))
    THEN [f EXCEPT !.status = "contradiction"] ELSE f

\* Marking contradictions marks each fact of its own.
LEMMA MarkedIs ==
  ASSUME NEW facts
  PROVE  Document!markContradictions(facts) = {Mark(facts, f) : f \in facts}
BY DEF Document!markContradictions, Mark

\* A mark changes neither the field nor the value nor the page, and leaves exact only what it did not touch.
LEMMA MarkKeeps ==
  ASSUME NEW facts, NEW f \in facts, WellFacts(facts)
  PROVE  LET m == Mark(facts, f)
         IN  /\ m.field = f.field /\ m.value = f.value /\ m.page = f.page
             /\ m.status = "exact" => m = f
             /\ f.status = "exact" => m.status \in {"exact", "contradiction"}
             /\ f.field # "employer" /\ f.status = "exact" =>
                  (m.status = "exact" <=> ~Document!Several(Stated(facts, f.field)))
<1>1. DOMAIN f = {"field", "value", "status", "reason", "raw", "page"}
  BY DEF WellFacts
<1>2. PICK m : m = [f EXCEPT !.status = "contradiction"]
  OBVIOUS
<1>3. m.field = f.field /\ m.value = f.value /\ m.page = f.page /\ m.status = "contradiction"
  BY <1>1, <1>2
<1>4. Document!distinctExactValues(facts, f.field) = Stated(facts, f.field)
  BY DistinctIsStated
<1>5. Mark(facts, f) = IF f.field # "employer" /\ f.status = "exact" /\ Document!Several(Stated(facts, f.field)) THEN m ELSE f
  BY <1>2, <1>4 DEF Mark
<1> QED
  BY <1>3, <1>5

\* Several values of a field leave none exact; one leaves every occurrence.
LEMMA MarkedExacts ==
  ASSUME NEW facts, NEW field, field # "employer", WellFacts(facts), NEW marked, marked = Document!markContradictions(facts)
  PROVE  /\ Document!Several(Stated(facts, field)) => Exacts(marked, field) = {}
         /\ ~Document!Several(Stated(facts, field)) => Exacts(marked, field) = Exacts(facts, field)
<1>1. marked = {Mark(facts, f) : f \in facts}
  BY MarkedIs
<1>2. ASSUME NEW m \in Exacts(marked, field)
      PROVE  m \in Exacts(facts, field) /\ ~Document!Several(Stated(facts, field))
  <2>1. PICK f \in facts : m = Mark(facts, f)
    BY <1>1, <1>2 DEF Exacts
  <2>2. m.field = field /\ m.status = "exact"
    BY <1>2 DEF Exacts
  <2>3. m = f /\ f.field = field /\ f.status = "exact"
    BY <2>1, <2>2, MarkKeeps
  <2> QED
    BY <2>1, <2>2, <2>3, MarkKeeps DEF Exacts
<1>3. ASSUME NEW f \in Exacts(facts, field), ~Document!Several(Stated(facts, field))
      PROVE  f \in Exacts(marked, field)
  <2>1. f \in facts /\ f.field = field /\ f.status = "exact"
    BY <1>3 DEF Exacts
  <2>2. PICK m : m = Mark(facts, f)
    OBVIOUS
  <2>3. m.status = "exact" /\ m = f
    BY <1>3, <2>1, <2>2, MarkKeeps
  <2> QED
    BY <1>1, <2>1, <2>2, <2>3 DEF Exacts
<1> QED
  BY <1>2, <1>3

\* Knowledge of a field is the first exact statement of it.
LEMMA ScalarIs ==
  ASSUME NEW facts, NEW field, NEW key, key \notin {"tax", "tax_special"}
  PROVE  ScalarKnowledge(facts, field, key) =
           {Known(key, f.value, f.page, 0) : f \in {FirstPage(e) : e \in {Exacts(facts, field)} \ {{}}}}
<1>1. {f \in Document!occurrences(facts, field) : f.status = "exact"} = Exacts(facts, field)
  BY DEF Document!occurrences, Exacts
<1> QED
  BY <1>1 DEF ScalarKnowledge

\* Knowledge of a field is filed under its key.
LEMMA ScalarKey ==
  ASSUME NEW facts, NEW field, NEW key, NEW k \in ScalarKnowledge(facts, field, key)
  PROVE  k.key = key
BY DEF ScalarKnowledge, Known

LineKeys == {"wage_line_amount", "deduction", "reimbursement", "net_deduction", "regular_hours", "overtime_hours", "surcharge_percent"}

\* The amount of a line is filed under a key for lines.
LEMMA AmountKeys ==
  ASSUME NEW line
  PROVE  AmountKey(line) \in LineKeys \cup {"none"}
BY DEF AmountKey, LineKeys

\* Knowledge of a line is filed under a key for lines.
LEMMA LineKey ==
  ASSUME NEW line, NEW k \in LineKnowledge(line)
  PROVE  k.key \in LineKeys
<1>1. \A key, v, page, at : Known(key, v, page, at).key = key
  BY DEF Known
<1>2. PICK amount : amount = AmountKey(line)
  OBVIOUS
<1>3. amount \in LineKeys \cup {"none"}
  BY <1>2, AmountKeys
<1>4. \/ amount # "none" /\ k.key = amount
      \/ k.key \in {"regular_hours", "overtime_hours", "surcharge_percent"}
  BY <1>1, <1>2 DEF LineKnowledge
<1> QED
  BY <1>3, <1>4 DEF LineKeys

\* The rate facts are the rate readings, in conflict when there are several.
LEMMA RateIs ==
  ASSUME NEW doc, NEW readings, readings = RateReadings(doc)
  PROVE  /\ \A k \in rateFacts(doc) : /\ k.key = "hourly_rate" /\ k.value \in readings
                                      /\ Cardinality(readings) > 1 => k.status = "conflict"
         /\ \A v \in readings : \E k \in rateFacts(doc) : k.value = v
<1> DEFINE rate(v) == [Known("hourly_rate", v, 0, 0) EXCEPT !.status = IF Cardinality(readings) > 1 THEN "conflict" ELSE @]
<1>1. rateFacts(doc) = {rate(v) : v \in readings}
  BY DEF rateFacts
<1>2. \A v : rate(v).key = "hourly_rate" /\ rate(v).value = v /\ (Cardinality(readings) > 1 => rate(v).status = "conflict")
  BY DEF Known
<1> HIDE DEF rate
<1> QED
  BY <1>1, <1>2

\* What is shown of one of the totals.
LEMMA OfTotal ==
  ASSUME NEW doc, NEW field \in {"printedGrossTotal", "printedNet", "printedPayout"}, NEW key, key = SCALAR_KEYS[field]
  PROVE  {k \in buildDocumentKnowledge(doc) : k.key = key} = ScalarKnowledge(doc.facts, field, key)
<1>1. key \notin LineKeys /\ key # "hourly_rate" /\ field \in DOMAIN SCALAR_KEYS
  BY DEF SCALAR_KEYS, LineKeys
<1>2. \A f \in DOMAIN SCALAR_KEYS : SCALAR_KEYS[f] = key => f = field
  BY DEF SCALAR_KEYS
<1>3. \A k \in ScalarKnowledge(doc.facts, field, key) : k \in buildDocumentKnowledge(doc) /\ k.key = key
  BY <1>1, ScalarKey DEF buildDocumentKnowledge, payslipFacts
<1>4. ASSUME NEW k \in buildDocumentKnowledge(doc), k.key = key
      PROVE  k \in ScalarKnowledge(doc.facts, field, key)
  <2>1. k \notin rateFacts(doc)
    BY <1>1, <1>4, RateIs
  <2>2. \A l \in doc.lines : k \notin LineKnowledge(l)
    BY <1>1, <1>4, LineKey
  <2>3. PICK f \in DOMAIN SCALAR_KEYS : k \in ScalarKnowledge(doc.facts, f, SCALAR_KEYS[f])
    BY <1>4, <2>1, <2>2 DEF buildDocumentKnowledge, payslipFacts
  <2>4. SCALAR_KEYS[f] = key
    BY <1>4, <2>3, ScalarKey
  <2> QED
    BY <1>2, <2>3, <2>4
<1> QED
  BY <1>3, <1>4

\* The statement on the first page is one of the statements.
LEMMA FirstPageIn ==
  ASSUME NEW facts, facts # {}, \A f \in facts : f.page \in Nat
  PROVE  FirstPage(facts) \in facts
<1>1. PICK pages : pages = {f.page : f \in facts}
  OBVIOUS
<1>2. pages \in SUBSET Nat /\ \E p \in pages : TRUE
  BY <1>1
<1>3. PICK m \in pages : \A p \in pages : m <= p
  BY <1>2, NatMin
<1>4. PICK f \in facts : f.page = m
  BY <1>1, <1>3
<1>5. \A g \in facts : f.page <= g.page
  BY <1>1, <1>3, <1>4
<1> QED
  BY <1>4, <1>5 DEF FirstPage

\* A total that is shown is what every page that states it says.
LEMMA TotalAgrees ==
  ASSUME NEW facts, WellFacts(facts), NEW doc, doc.facts = Document!markContradictions(facts),
         NEW field \in {"printedGrossTotal", "printedNet", "printedPayout"}, NEW key, key = SCALAR_KEYS[field],
         NEW shown, shown = ValuesOf(buildDocumentKnowledge(doc), key), shown # {}
  PROVE  shown = Stated(facts, field) /\ Cardinality(shown) = 1
<1>1. PICK exact : exact = Exacts(doc.facts, field)
  OBVIOUS
<1>2. field # "employer" /\ key \notin {"tax", "tax_special"}
  BY DEF SCALAR_KEYS
<1>3. {k \in buildDocumentKnowledge(doc) : k.key = key} = {Known(key, f.value, f.page, 0) : f \in {FirstPage(e) : e \in {exact} \ {{}}}}
  BY <1>1, <1>2, OfTotal, ScalarIs
<1>4. shown = {f.value : f \in {FirstPage(e) : e \in {exact} \ {{}}}}
  <2>1. \A v, page : Known(key, v, page, 0).value = v
    BY DEF Known
  <2> QED
    BY <1>3, <2>1 DEF ValuesOf
<1>5. exact # {} /\ shown = {FirstPage(exact).value}
  BY <1>4
<1>6. ~Document!Several(Stated(facts, field)) /\ exact = Exacts(facts, field)
  BY <1>1, <1>2, <1>5, MarkedExacts
<1>7. FirstPage(exact) \in exact
  <2>1. \A f \in exact : f.page \in Nat
    BY <1>6 DEF Exacts, WellFacts
  <2> QED
    BY <1>5, <2>1, FirstPageIn
<1>8. PICK v : v = FirstPage(exact).value
  OBVIOUS
<1>9. v \in Stated(facts, field)
  BY <1>6, <1>7, <1>8 DEF Stated
<1>10. Stated(facts, field) = {v}
  BY <1>6, <1>9 DEF Document!Several
<1> QED
  BY <1>5, <1>8, <1>10, FS_Singleton

\* The rates that are shown are the readings, and of two none is shown as the one.
LEMMA RatesAgree ==
  ASSUME NEW facts, WellFacts(facts), NEW doc, doc.facts = Document!markContradictions(facts),
         NEW knowledge, knowledge = buildDocumentKnowledge(doc),
         NEW shown, shown = ValuesOf(knowledge, "hourly_rate")
  PROVE  /\ Stated(facts, "hourlyRate") \subseteq shown
         /\ Cardinality(shown) > 1 => \A k \in knowledge : k.key = "hourly_rate" => k.status = "conflict"
<1>1. PICK readings : readings = RateReadings(doc)
  OBVIOUS
<1>2. ASSUME NEW k \in knowledge, k.key = "hourly_rate"
      PROVE  k \in rateFacts(doc)
  <2>1. \A l \in doc.lines : k \notin LineKnowledge(l)
    BY <1>2, LineKey DEF LineKeys
  <2>2. \A f \in DOMAIN SCALAR_KEYS : SCALAR_KEYS[f] # "hourly_rate"
    BY DEF SCALAR_KEYS
  <2>3. \A f \in DOMAIN SCALAR_KEYS : k \notin ScalarKnowledge(doc.facts, f, SCALAR_KEYS[f])
    BY <1>2, <2>2, ScalarKey
  <2> QED
    BY <2>1, <2>3 DEF buildDocumentKnowledge, payslipFacts
<1>3. rateFacts(doc) \subseteq knowledge
  BY DEF buildDocumentKnowledge
<1>4. shown = readings
  <2>1. \A v \in shown : v \in readings
    BY <1>1, <1>2, RateIs DEF ValuesOf
  <2>2. ASSUME NEW v \in readings
        PROVE  v \in shown
    <3>1. PICK k \in rateFacts(doc) : k.value = v
      BY <1>1, RateIs
    <3>2. k.key = "hourly_rate" /\ k \in knowledge
      BY <1>1, <1>3, <3>1, RateIs
    <3> QED
      BY <3>1, <3>2 DEF ValuesOf
  <2> QED
    BY <2>1, <2>2
<1>5. ASSUME NEW v \in Stated(facts, "hourlyRate")
      PROVE  v \in readings
  <2>1. PICK f \in facts : f.field = "hourlyRate" /\ f.status = "exact" /\ f.value = v
    BY <1>5 DEF Stated, Exacts
  <2>2. PICK m : m = Mark(facts, f)
    OBVIOUS
  <2>3. m \in doc.facts /\ m.field = "hourlyRate" /\ m.value = v /\ m.status \in {"exact", "contradiction"}
    BY <2>1, <2>2, MarkKeeps, MarkedIs
  <2> QED
    BY <1>1, <2>3 DEF RateReadings, Document!occurrences
<1> QED
  BY <1>1, <1>2, <1>4, <1>5, RateIs

\* What a comparison of records under some references says of them.
Comparable(kept, refs, pages) ==
  /\ ReadPages(kept, refs) = pages
  /\ Cardinality(Stated(FactsOf(kept, refs), "periodType")) = 1
  /\ \A l \in LinesOf(kept, refs) : "amount" \in DOMAIN l.numbers => l.numbers.amount # {}

\* One period type is known only when the pages state one.
LEMMA OnePeriodType ==
  ASSUME NEW facts, WellFacts(facts), NEW doc, doc.facts = Document!markContradictions(facts), PeriodTypeKnown(doc)
  PROVE  Cardinality(Stated(facts, "periodType")) = 1
<1>1. PICK exact : exact = Exacts(doc.facts, "periodType")
  OBVIOUS
<1>2. PICK stated : stated = Document!distinctExactValues(doc.facts, "periodType")
  OBVIOUS
<1>3. stated # {}
  BY <1>2 DEF PeriodTypeKnown, Document!singleExactValue, Document!NoValue, PERIOD_TYPES
<1>4. \A v \in stated : \E f \in exact : f.value = v
  BY <1>1, <1>2 DEF Document!distinctExactValues, Document!occurrences, Exacts
<1>5. ~Document!Several(Stated(facts, "periodType")) /\ exact = Exacts(facts, "periodType")
  BY <1>1, <1>3, <1>4, MarkedExacts
<1>6. PICK v : v \in stated
  BY <1>3
<1>7. v \in Stated(facts, "periodType")
  BY <1>4, <1>5, <1>6 DEF Stated
<1>8. Stated(facts, "periodType") = {v}
  BY <1>5, <1>7 DEF Document!Several
<1> QED
  BY <1>8, FS_Singleton

\* What the reader of the merged document compares, told of its records.
LEMMA ComparedIs ==
  ASSUME NEW kept, NEW refs, NEW n \in Nat, refs # {}, \A r \in refs : kept[r].total = n /\ kept[r].pages \subseteq 1 .. n,
         WellFacts(FactsOf(kept, refs)), NEW doc, doc = Merged(kept, refs), PeriodTypeKnown(doc), doc.missing = {},
         UnreadAmounts(doc) = {}, \A l \in doc.lines : l.list = "deduction_lines" => l.numbers.amount # {}
  PROVE  Comparable(kept, refs, 1 .. n)
<1>1. doc.facts = Document!markContradictions(FactsOf(kept, refs)) /\ doc.lines = LinesOf(kept, refs)
  BY MergedParts
<1>2. Cardinality(Stated(FactsOf(kept, refs), "periodType")) = 1
  BY <1>1, OnePeriodType
<1>3. ReadPages(kept, refs) = 1 .. n
  <2>1. (1 .. n) \ ReadPages(kept, refs) = {}
    BY MissingOf
  <2>2. ReadPages(kept, refs) \subseteq 1 .. n
    BY DEF ReadPages
  <2> QED
    BY <2>1, <2>2
<1>4. \A l \in LinesOf(kept, refs) : "amount" \in DOMAIN l.numbers => l.numbers.amount # {}
  BY <1>1 DEF UnreadAmounts
<1> QED
  BY <1>2, <1>3, <1>4 DEF Comparable
(* The invariant, of any sources, screen, loop and records. *)

ScreenFields == {"file", "fileError", "readerAvailable", "phase", "error", "coverage", "facts", "contextRef", "replay", "replayProblem", "batchRefs"}
LoopFields == {"at", "file", "plan", "next", "read", "refs", "failed"}

RecordsOK(kept) == kept \in Seq({kept[r] : r \in DOMAIN kept}) /\ \A r \in DOMAIN kept : WellRead(kept[r])

PhaseOK(screen, loop) ==
  /\ DOMAIN screen = ScreenFields /\ DOMAIN loop = LoopFields
  /\ loop.at \in {"idle", "open", "batches", "resolve", "replay"}
  /\ loop.at = "idle" => screen.phase \notin {"reading", "analysing"}
  /\ loop.at \in {"open", "batches"} => screen.phase = "reading"
  /\ loop.at = "open" => loop.read = 0 /\ loop.refs = {} /\ loop.failed = {}
  /\ loop.at \in {"resolve", "replay"} => screen.phase = "analysing" /\ loop.refs = screen.batchRefs
  /\ loop.at # "idle" => loop.file = screen.file /\ screen.file \in Files
  /\ screen.file # Null => screen.file \in Files
  /\ loop.at # "batches" => loop.plan.batches = <<>>

LoopOK(sources, loop, kept) ==
  loop.at = "batches" =>
    LET text == sources[loop.file]
    IN  /\ loop.plan = planDocumentBatches(text)
        /\ loop.next \in 1..(Len(loop.plan.batches) + 1) /\ loop.read \in Nat
        /\ Split(kept, text, CalledFor(loop), loop.refs, loop.failed)
        /\ IsFiniteSet(loop.refs) /\ Cardinality(loop.refs) <= loop.read
        /\ Cardinality(loop.refs) = loop.read => Whole(kept, CalledFor(loop), loop.refs, loop.failed)

\* The references and the pages reported unread account for the document.
Accounted(text, screen, kept) ==
  /\ screen.batchRefs # {}
  /\ Split(kept, text, PagesOf(text), screen.batchRefs, screen.coverage)
  /\ Whole(kept, PagesOf(text), screen.batchRefs, screen.coverage)

ScreenOK(sources, screen, kept) ==
  /\ screen.phase \in {"analysing", "done"} => screen.file \in Files /\ Accounted(sources[screen.file], screen, kept)
  /\ screen.phase = "done" /\ screen.error = Null =>
       /\ screen.facts = buildDocumentKnowledge(Merged(kept, screen.batchRefs))
       /\ screen.replay = "substantiated" => Comparable(kept, screen.batchRefs, PagesOf(sources[screen.file]))

AllOK(sources, screen, loop, kept) ==
  sources \in Sources /\ RecordsOK(kept) /\ PhaseOK(screen, loop) /\ LoopOK(sources, loop, kept) /\ ScreenOK(sources, screen, kept)

\* The phase invariant, of the state before a step and of the state after.
LEMMA PhaseIs ==
  /\ PhaseInv <=> PhaseOK(state, reading)
  /\ PhaseInv' <=> PhaseOK(state', reading')
<1>1. DOMAIN initialPayslipState("unknown") = ScreenFields /\ DOMAIN NotReading = LoopFields
  BY DEF initialPayslipState, ScreenFields, NotReading, LoopFields
<1> QED
  BY <1>1 DEF PhaseInv, PhaseOK, Busy, Batches

\* The loop invariant, of the state before a step and of the state after.
LEMMA LoopIs ==
  /\ LoopInv <=> LoopOK(source, reading, records)
  /\ LoopInv' <=> LoopOK(source', reading', records')
BY DEF LoopInv, LoopOK, Batches

\* The comparison, of a set of records.
SetCompared(set, pages) ==
  /\ UNION {b.pages : b \in set} = pages
  /\ Cardinality({f.value : f \in {g \in UNION {b.facts : b \in set} : g.field = "periodType" /\ g.status = "exact"}}) = 1
  /\ \A l \in UNION {b.lines : b \in set} : "amount" \in DOMAIN l.numbers => l.numbers.amount # {}

\* That a document can be compared, told of the set of its records.
LEMMA ComparableIs ==
  ASSUME NEW kept, NEW refs, NEW pages, NEW set, set = {kept[r] : r \in refs}
  PROVE  Comparable(kept, refs, pages) <=> SetCompared(set, pages)
<1>1. PICK facts : facts = FactsOf(kept, refs)
  OBVIOUS
<1>2. PICK lines : lines = LinesOf(kept, refs)
  OBVIOUS
<1>3. UNION {b.facts : b \in set} = facts /\ UNION {b.lines : b \in set} = lines
      /\ UNION {b.pages : b \in set} = ReadPages(kept, refs)
  BY <1>1, <1>2, OfRecords
<1>4. {f.value : f \in {g \in facts : g.field = "periodType" /\ g.status = "exact"}} = Stated(facts, "periodType")
  BY DEF Stated, Exacts
<1>5. SetCompared(set, pages) <=>
        /\ ReadPages(kept, refs) = pages
        /\ Cardinality(Stated(facts, "periodType")) = 1
        /\ \A l \in lines : "amount" \in DOMAIN l.numbers => l.numbers.amount # {}
  BY <1>3, <1>4 DEF SetCompared
<1> QED
  BY <1>1, <1>2, <1>5 DEF Comparable

\* The screen invariant, of the state before a step and of the state after.
LEMMA ScreenIs ==
  /\ ScreenInv <=> ScreenOK(source, state, records)
  /\ ScreenInv' <=> ScreenOK(source', state', records')
<1>1. ComparedWhole <=> (ResultsShown /\ state.replay = "substantiated" => Comparable(records, state.batchRefs, PagesOf(source[state.file])))
  <2>1. PICK set : set = {records[r] : r \in state.batchRefs}
    OBVIOUS
  <2>2. RecordsOf(state.batchRefs) = set
    BY <2>1 DEF RecordsOf
  <2>3. ComparedWhole <=> (ResultsShown /\ state.replay = "substantiated" => SetCompared(set, PagesOf(source[state.file])))
    BY <2>2 DEF ComparedWhole, SetCompared
  <2> QED
    BY <2>1, <2>3, ComparableIs
<1>2. ComparedWhole' <=> (ResultsShown' /\ state'.replay = "substantiated" => Comparable(records', state'.batchRefs, PagesOf(source'[state'.file])))
  <2>1. PICK set : set = {records'[r] : r \in state'.batchRefs}
    OBVIOUS
  <2>2. RecordsOf(state.batchRefs)' = set
    BY <2>1 DEF RecordsOf
  <2>3. ComparedWhole' <=> (ResultsShown' /\ state'.replay = "substantiated" => SetCompared(set, PagesOf(source'[state'.file])))
    BY <2>2 DEF ComparedWhole, SetCompared
  <2> QED
    BY <2>1, <2>3, ComparableIs
<1>3. ScreenInv <=> ScreenOK(source, state, records)
  BY <1>1 DEF ScreenInv, ScreenOK, Accounted, ResultsShown, DocumentOf, RecordsOf, Merged
<1>4. ScreenInv' <=> ScreenOK(source', state', records')
  BY <1>2 DEF ScreenInv, ScreenOK, Accounted, ResultsShown, DocumentOf, RecordsOf, Merged
<1> QED
  BY <1>3, <1>4

\* The inductive invariant, of the state before a step and of the state after.
LEMMA InvIs ==
  /\ AnalysisInv <=> AllOK(source, state, reading, records)
  /\ AnalysisInv' <=> AllOK(source', state', reading', records')
<1>1. RecordsInv <=> RecordsOK(records)
  BY DEF RecordsInv, RecordsOK
<1>2. RecordsInv' <=> RecordsOK(records')
  BY DEF RecordsInv, RecordsOK
<1> QED
  BY <1>1, <1>2, PhaseIs, LoopIs, ScreenIs DEF AnalysisInv, AllOK

\* A screen that changes nothing the results depend on stays right.
LEMMA SameScreen ==
  ASSUME NEW sources, NEW kept, NEW s, ScreenOK(sources, s, kept), NEW t,
         t.phase = s.phase, t.file = s.file, t.error = s.error, t.facts = s.facts, t.replay = s.replay,
         t.batchRefs = s.batchRefs, t.coverage = s.coverage
  PROVE  ScreenOK(sources, t, kept)
BY DEF ScreenOK, Accounted

\* A screen without results is right about them.
LEMMA NoResults ==
  ASSUME NEW sources, NEW kept, NEW screen, screen.phase \notin {"analysing", "done"}
  PROVE  ScreenOK(sources, screen, kept)
BY DEF ScreenOK

\* A loop that sends no batches is right about them.
LEMMA NoLoop ==
  ASSUME NEW sources, NEW kept, NEW loop, loop.at # "batches"
  PROVE  LoopOK(sources, loop, kept)
BY DEF LoopOK

\* A screen nothing was read for.
LEMMA FreshScreen ==
  ASSUME NEW available, NEW screen, screen = initialPayslipState(available)
  PROVE  /\ DOMAIN screen = ScreenFields /\ screen.file = Null /\ screen.phase = "empty" /\ screen.batchRefs = {}
         /\ screen.readerAvailable = available
BY DEF initialPayslipState, ScreenFields

\* What a loop that reads nothing holds.
LEMMA IdleLoop ==
  /\ DOMAIN NotReading = LoopFields /\ NotReading.at = "idle" /\ NotReading.file = Null
  /\ NotReading.plan.batches = <<>> /\ NotReading.refs = {}
  /\ NotReading.read = 0 /\ NotReading.failed = {}
BY DEF NotReading, LoopFields

\* When nothing is read the adapter is idle.
LEMMA IdleWhen ==
  ASSUME NEW screen, NEW loop, PhaseOK(screen, loop), screen.phase \notin {"reading", "analysing"}
  PROVE  loop.at = "idle" /\ loop.plan.batches = <<>>
BY DEF PhaseOK

\* The invariant holds at the start: the screen is empty and nothing is read.
LEMMA AnalysisInitOK ==
  ASSUME AnalysisInit
  PROVE  AllOK(source, state, reading, records)
<1>1. state.phase = "empty" /\ state.file = Null /\ DOMAIN state = ScreenFields
  BY FreshScreen DEF AnalysisInit
<1>2. reading = NotReading /\ records = <<>> /\ source \in Sources
  BY DEF AnalysisInit
<1>3. RecordsOK(records)
  <2>1. DOMAIN records = {}
    BY <1>2
  <2>2. PICK S : S = {records[r] : r \in DOMAIN records}
    OBVIOUS
  <2>3. records \in Seq(S)
    BY <1>2, EmptySeq
  <2> QED
    BY <2>1, <2>2, <2>3 DEF RecordsOK
<1>4. PhaseOK(state, reading)
  BY <1>1, <1>2, IdleLoop DEF PhaseOK
<1> QED
  BY <1>1, <1>2, <1>3, <1>4, IdleLoop, NoResults, NoLoop DEF AllOK

\* What the reader answers about itself changes nothing that is read.
LEMMA CheckReaderOK ==
  ASSUME AllOK(source, state, reading, records), NEW answer, CheckReader(answer)
  PROVE  AllOK(source', state', reading', records')
<1>1. UNCHANGED <<source, reading, records>>
  BY DEF CheckReader
<1>2. /\ DOMAIN state' = ScreenFields /\ state'.phase = state.phase /\ state'.file = state.file /\ state'.error = state.error
      /\ state'.facts = state.facts /\ state'.replay = state.replay /\ state'.batchRefs = state.batchRefs
      /\ state'.coverage = state.coverage
  BY DEF CheckReader, AllOK, PhaseOK, ScreenFields
<1>3. PhaseOK(state', reading)
  BY <1>2 DEF AllOK, PhaseOK
<1>4. ScreenOK(source, state', records)
  BY <1>2, SameScreen DEF AllOK
<1> QED
  BY <1>1, <1>3, <1>4 DEF AllOK

\* A chosen file starts from an empty screen, and a refused one shows an error.
LEMMA SelectFileOK ==
  ASSUME AllOK(source, state, reading, records), NEW f \in Files, SelectFile(f)
  PROVE  AllOK(source', state', reading', records')
<1>1. UNCHANGED <<source, reading, records>>
  BY DEF SelectFile
<1>2. state.phase \notin {"reading", "analysing", "done"}
  BY DEF SelectFile, MaySelect, Busy
<1>3. reading.at = "idle"
  BY <1>2, IdleWhen DEF AllOK
<1>4. CASE f \in Rejected
  <2>1. DOMAIN state' = ScreenFields /\ state'.phase = state.phase /\ state'.file = state.file
    BY <1>4 DEF SelectFile, AllOK, PhaseOK, ScreenFields
  <2>2. PhaseOK(state', reading)
    BY <1>2, <1>3, <2>1 DEF AllOK, PhaseOK
  <2> QED
    BY <1>1, <1>2, <2>1, <2>2, NoResults DEF AllOK
<1>5. CASE f \notin Rejected
  <2>1. PICK fresh : fresh = initialPayslipState(state.readerAvailable)
    OBVIOUS
  <2>2. state' = [fresh EXCEPT !.file = f, !.phase = "selected"]
    BY <1>5, <2>1 DEF SelectFile
  <2>3. DOMAIN state' = ScreenFields /\ state'.phase = "selected" /\ state'.file = f
    BY <2>1, <2>2, FreshScreen DEF ScreenFields
  <2>4. PhaseOK(state', reading)
    BY <1>3, <2>3 DEF AllOK, PhaseOK
  <2> QED
    BY <1>1, <2>3, <2>4, NoResults DEF AllOK
<1> QED
  BY <1>4, <1>5

\* The screen is put back while nothing is read.
LEMMA FreshOK ==
  ASSUME AllOK(source, state, reading, records), UNCHANGED <<source, reading, records>>,
         state.phase \notin {"reading", "analysing"}, state' = initialPayslipState(state.readerAvailable)
  PROVE  AllOK(source', state', reading', records')
<1>1. reading.at = "idle"
  BY IdleWhen DEF AllOK
<1>2. DOMAIN state' = ScreenFields /\ state'.phase = "empty" /\ state'.file = Null
  BY FreshScreen
<1>3. PhaseOK(state', reading)
  BY <1>1, <1>2 DEF AllOK, PhaseOK
<1> QED
  BY <1>2, <1>3, NoResults DEF AllOK

\* Reading starts with the file of the screen.
LEMMA ReadOK ==
  ASSUME AllOK(source, state, reading, records), Read
  PROVE  AllOK(source', state', reading', records')
<1>1. UNCHANGED <<source, records>> /\ state.file # Null /\ state.file \in Files
  BY DEF Read, AllOK, PhaseOK
<1>2. DOMAIN state' = ScreenFields /\ state'.phase = "reading" /\ state'.file = state.file
  BY DEF Read, AllOK, PhaseOK, ScreenFields
<1>3. /\ DOMAIN reading' = LoopFields /\ reading'.at = "open" /\ reading'.file = state.file /\ reading'.plan.batches = <<>>
      /\ reading'.read = 0 /\ reading'.refs = {} /\ reading'.failed = {}
  BY IdleLoop DEF Read, LoopFields
<1>4. PhaseOK(state', reading')
  BY <1>1, <1>2, <1>3 DEF PhaseOK
<1> QED
  BY <1>1, <1>2, <1>3, <1>4, NoResults, NoLoop DEF AllOK

\* A retry reads the same file again from nothing.
LEMMA RetryOK ==
  ASSUME AllOK(source, state, reading, records), retryAnalysis
  PROVE  AllOK(source', state', reading', records')
<1>1. UNCHANGED <<source, records>> /\ state.phase = "done"
  BY DEF retryAnalysis, OffersRetry
<1>2. /\ DOMAIN state' = ScreenFields /\ state'.phase = "analysing" /\ state'.file = state.file
      /\ state'.batchRefs = state.batchRefs /\ state'.coverage = state.coverage
  BY DEF retryAnalysis, AllOK, PhaseOK, ScreenFields
<1>3. /\ DOMAIN reading' = LoopFields /\ reading'.at = "resolve" /\ reading'.file = state.file /\ reading'.plan.batches = <<>>
      /\ reading'.refs = state.batchRefs
  BY IdleLoop DEF retryAnalysis, LoopFields
<1>4. ScreenOK(source, state', records)
  BY <1>1, <1>2 DEF AllOK, ScreenOK, Accounted
<1>5. state.file \in Files
  BY <1>1 DEF AllOK, ScreenOK
<1>6. PhaseOK(state', reading')
  BY <1>2, <1>3, <1>5 DEF PhaseOK
<1> QED
  BY <1>1, <1>3, <1>4, <1>6, NoLoop DEF AllOK

\* What was read stays accounted for as records are added.
LEMMA SplitGrows ==
  ASSUME NEW kept, NEW more, DOMAIN kept \subseteq DOMAIN more, \A r \in DOMAIN kept : more[r] = kept[r],
         NEW text, NEW pages, NEW refs, NEW failed, Split(kept, text, pages, refs, failed)
  PROVE  /\ Split(more, text, pages, refs, failed)
         /\ Whole(kept, pages, refs, failed) => Whole(more, pages, refs, failed)
<1>1. refs \subseteq DOMAIN kept
  BY DEF Split
<1>2. Split(more, text, pages, refs, failed)
  BY <1>1 DEF Split
<1>3. Whole(kept, pages, refs, failed) => Whole(more, pages, refs, failed)
  BY <1>1 DEF Whole
<1> QED
  BY <1>2, <1>3

IsUnion(all, one, other) == all = one \cup other

\* A call that failed, one that was read, and one whose record has no reference.
LEMMA SplitFailed ==
  ASSUME NEW kept, NEW text, NEW pages, NEW refs, NEW failed, Split(kept, text, pages, refs, failed),
         NEW new, new \cap pages = {}, NEW all, IsUnion(all, pages, new), NEW lost, IsUnion(lost, failed, new)
  PROVE  /\ Split(kept, text, all, refs, lost)
         /\ Whole(kept, pages, refs, failed) => Whole(kept, all, refs, lost)
<1>1. Split(kept, text, all, refs, lost)
  BY DEF Split, IsUnion
<1>2. Whole(kept, pages, refs, failed) => Whole(kept, all, refs, lost)
  BY DEF Whole, IsUnion
<1> QED
  BY <1>1, <1>2

\* A batch that was read adds its pages to those accounted for, and its record to those named.
LEMMA SplitRead ==
  ASSUME NEW kept, NEW text, NEW pages, NEW refs, NEW failed, Split(kept, text, pages, refs, failed),
         NEW new, new \cap pages = {}, NEW r \in DOMAIN kept, kept[r].pages = new, kept[r].total = text.pageCount,
         NEW all, IsUnion(all, pages, new), NEW named, IsUnion(named, refs, {r})
  PROVE  /\ Split(kept, text, all, named, failed)
         /\ Whole(kept, pages, refs, failed) => Whole(kept, all, named, failed)
<1>1. new \cap failed = {} /\ \A s \in refs : kept[s].pages \cap new = {}
  BY DEF Split
<1>2. Split(kept, text, all, named, failed)
  BY <1>1 DEF Split, IsUnion
<1>3. Whole(kept, pages, refs, failed) => Whole(kept, all, named, failed)
  BY DEF Whole, IsUnion
<1> QED
  BY <1>2, <1>3

\* A batch that was lost adds its pages to those accounted for: they count as failed.
LEMMA SplitCalled ==
  ASSUME NEW kept, NEW text, NEW pages, NEW refs, NEW failed, Split(kept, text, pages, refs, failed), NEW new,
         NEW all, IsUnion(all, pages, new)
  PROVE  Split(kept, text, all, refs, failed)
BY DEF Split, IsUnion

\* The loop makes a call of its plan, and has made it next.
Calls(text, loop, batch, next) ==
  /\ Text(text) /\ loop.plan.batches = planDocumentBatches(text).batches
  /\ loop.next \in DOMAIN loop.plan.batches /\ batch = loop.plan.batches[loop.next]
  /\ next.plan.batches = loop.plan.batches /\ next.next = loop.next + 1

Called(loop, batch, next) ==
  /\ IsUnion(CalledFor(next), CalledFor(loop), batch.pages)
  /\ batch.pages \cap CalledFor(loop) = {} /\ batch.pages \in SUBSET Nat
  /\ next.next \in 1 .. (Len(loop.plan.batches) + 1)

\* The pages called for, and those of the next call.
LEMMA CalledNext ==
  ASSUME NEW text, NEW loop, NEW batch, NEW next, Calls(text, loop, batch, next)
  PROVE  Called(loop, batch, next)
<1>0. Text(text) /\ loop.plan.batches = planDocumentBatches(text).batches /\ loop.next \in DOMAIN loop.plan.batches
  BY DEF Calls
<1>1. PICK batches : batches = loop.plan.batches
  OBVIOUS
<1>2. Covers(text, batches)
  BY <1>0, <1>1, PlanCovers
<1>3. PICK n : n = loop.next
  OBVIOUS
<1>4. Len(batches) \in Nat /\ DOMAIN batches = 1 .. Len(batches) /\ n \in 1 .. Len(batches)
  BY <1>0, <1>1, <1>2, <1>3 DEF Covers
<1>5. (n + 1) - 1 = n /\ 1 .. n = (1 .. (n - 1)) \cup {n} /\ 1 .. n \subseteq DOMAIN batches /\ n + 1 \in 1 .. (Len(batches) + 1)
  BY <1>4
<1>6. CalledFor(loop) = UNION {batches[i].pages : i \in 1 .. (n - 1)} /\ CalledFor(next) = UNION {batches[i].pages : i \in 1 .. n}
  BY <1>1, <1>3, <1>5 DEF CalledFor, Calls
<1>7. CalledFor(next) = CalledFor(loop) \cup batch.pages
  BY <1>1, <1>3, <1>5, <1>6 DEF Calls
<1>8. batch.pages \cap CalledFor(loop) = {}
  <2>1. \A i \in 1 .. (n - 1) : i \in DOMAIN batches /\ n \in DOMAIN batches /\ i # n
    BY <1>4
  <2>2. \A i \in 1 .. (n - 1) : batches[i].pages \cap batches[n].pages = {}
    BY <1>2, <2>1 DEF Covers
  <2> QED
    BY <1>1, <1>3, <1>6, <2>2 DEF Calls
<1>9. batch.pages \in SUBSET Nat
  BY <1>1, <1>2, <1>3, <1>4 DEF Calls, Covers, Readable, PagesOf
<1> QED
  BY <1>1, <1>3, <1>5, <1>7, <1>8, <1>9 DEF Calls, Called, IsUnion

\* A file is a text the plan can be made of.
LEMMA SourceText ==
  ASSUME NEW sources \in Sources, NEW f \in Files
  PROVE  Text(sources[f])
BY FilesAssumption DEF Text

\* An opened file is refused, or its plan takes every readable page exactly once.
LEMMA OpenFileOK ==
  ASSUME AllOK(source, state, reading, records), OpenFile
  PROVE  AllOK(source', state', reading', records')
<1>1. UNCHANGED <<source, records>> /\ reading.at = "open" /\ reading.file = state.file /\ state.file \in Files
  BY DEF OpenFile, AllOK, PhaseOK
<1>2. PICK plan : plan = planDocumentBatches(source[reading.file])
  OBVIOUS
<1>3. CASE reading' = [reading EXCEPT !.at = "batches", !.next = 1, !.plan = plan] /\ UNCHANGED state
  <2>1. /\ DOMAIN reading' = LoopFields /\ reading'.at = "batches" /\ reading'.file = reading.file /\ reading'.plan = plan
        /\ reading'.next = 1 /\ reading'.read = 0 /\ reading'.refs = {} /\ reading'.failed = {}
    BY <1>1, <1>3 DEF AllOK, PhaseOK, LoopFields
  <2>2. PhaseOK(state, reading')
    BY <1>1, <2>1 DEF AllOK, PhaseOK
  <2>3. Len(plan.batches) \in Nat
    BY <1>1, <1>2, SourceText, PlanCovers DEF AllOK, Covers
  <2>4. CalledFor(reading') = {}
    BY <2>1 DEF CalledFor
  <2>5. Split(records, source[reading.file], {}, {}, {}) /\ Whole(records, {}, {}, {})
    BY DEF Split, Whole
  <2>6. LoopOK(source, reading', records)
    BY <1>2, <2>1, <2>3, <2>4, <2>5, FS_EmptySet DEF LoopOK
  <2> QED
    BY <1>1, <1>3, <2>2, <2>6 DEF AllOK
<1>4. CASE reading' = NotReading /\ ReadFails
  <2>1. DOMAIN state' = ScreenFields /\ state'.phase = "selected" /\ state'.file = state.file
    BY <1>4 DEF ReadFails, AllOK, PhaseOK, ScreenFields
  <2>2. PhaseOK(state', reading')
    BY <1>1, <1>4, <2>1, IdleLoop DEF PhaseOK
  <2> QED
    BY <1>1, <1>4, <2>1, <2>2, IdleLoop, NoResults, NoLoop DEF AllOK
<1> QED
  BY <1>2, <1>3, <1>4 DEF OpenFile

\* What holds of a call about to be made.
Calling(sources, loop, kept, batch) ==
  /\ LoopOK(sources, loop, kept) /\ loop.at = "batches" /\ DOMAIN loop = LoopFields
  /\ Text(sources[loop.file])
  /\ loop.next \in DOMAIN loop.plan.batches /\ batch = loop.plan.batches[loop.next]

\* What becomes of the loop.
Lost(after, loop, batch) == after = [loop EXCEPT !.next = @ + 1, !.failed = @ \cup batch.pages]
AnsweredWith(after, loop, refs) == after = [loop EXCEPT !.next = @ + 1, !.read = @ + 1, !.refs = @ \cup refs]
More(more, kept) == DOMAIN kept \subseteq DOMAIN more /\ \A r \in DOMAIN kept : more[r] = kept[r]

\* A call that failed, whatever the server kept of it.
LEMMA BatchFails ==
  ASSUME NEW sources, NEW kept, NEW loop, NEW batch, Calling(sources, loop, kept, batch),
         NEW more, More(more, kept),
         NEW after, Lost(after, loop, batch)
  PROVE  /\ DOMAIN after = LoopFields /\ after.at = "batches" /\ after.file = loop.file
         /\ LoopOK(sources, after, more)
<1>1. PICK text : text = sources[loop.file]
  OBVIOUS
<1>2. /\ DOMAIN after = LoopFields /\ after.at = "batches" /\ after.file = loop.file /\ after.plan = loop.plan
      /\ after.next = loop.next + 1 /\ after.failed = loop.failed \cup batch.pages
      /\ after.refs = loop.refs /\ after.read = loop.read
  BY DEF Calling, LoopFields, Lost, AnsweredWith
<1>3. /\ loop.plan = planDocumentBatches(text) /\ loop.read \in Nat
      /\ Split(kept, text, CalledFor(loop), loop.refs, loop.failed)
      /\ IsFiniteSet(loop.refs) /\ Cardinality(loop.refs) <= loop.read
      /\ Cardinality(loop.refs) = loop.read => Whole(kept, CalledFor(loop), loop.refs, loop.failed)
  BY <1>1 DEF Calling, LoopOK
<1>4. /\ IsUnion(CalledFor(after), CalledFor(loop), batch.pages) /\ batch.pages \cap CalledFor(loop) = {}
      /\ after.next \in 1 .. (Len(loop.plan.batches) + 1)
  <2>1. Text(text) /\ loop.next \in DOMAIN loop.plan.batches /\ batch = loop.plan.batches[loop.next]
    BY <1>1 DEF Calling
  <2>2. loop.plan.batches = planDocumentBatches(text).batches
    BY <1>3
  <2>3. Calls(text, loop, batch, after)
    BY <1>2, <2>1, <2>2 DEF Calls
  <2> QED
    BY <2>3, CalledNext DEF Called
<1>5. /\ Split(more, text, CalledFor(loop), loop.refs, loop.failed)
      /\ Whole(kept, CalledFor(loop), loop.refs, loop.failed) => Whole(more, CalledFor(loop), loop.refs, loop.failed)
  BY <1>3, SplitGrows DEF More
<1>6. /\ Split(more, text, CalledFor(after), after.refs, after.failed)
      /\ Whole(more, CalledFor(loop), loop.refs, loop.failed) => Whole(more, CalledFor(after), after.refs, after.failed)
  <2>1. IsUnion(after.failed, loop.failed, batch.pages)
    BY <1>2 DEF IsUnion
  <2> QED
    BY <1>2, <1>4, <1>5, <2>1, SplitFailed
<1>7. LoopOK(sources, after, more)
  BY <1>1, <1>2, <1>3, <1>4, <1>5, <1>6 DEF LoopOK
<1> QED
  BY <1>2, <1>7

\* A call that was read and kept under a fresh reference.
LEMMA BatchKept ==
  ASSUME NEW sources, NEW kept, NEW loop, NEW batch, Calling(sources, loop, kept, batch),
         NEW more, More(more, kept),
         NEW ref \in DOMAIN more \ DOMAIN kept, more[ref].pages = batch.pages, more[ref].total = sources[loop.file].pageCount,
         NEW after, AnsweredWith(after, loop, {ref})
  PROVE  /\ DOMAIN after = LoopFields /\ after.at = "batches" /\ after.file = loop.file
         /\ LoopOK(sources, after, more)
<1>1. PICK text : text = sources[loop.file]
  OBVIOUS
<1>2. /\ DOMAIN after = LoopFields /\ after.at = "batches" /\ after.file = loop.file /\ after.plan = loop.plan
      /\ after.next = loop.next + 1 /\ after.failed = loop.failed
      /\ after.refs = loop.refs \cup {ref} /\ after.read = loop.read + 1
  BY DEF Calling, LoopFields, Lost, AnsweredWith
<1>3. /\ loop.plan = planDocumentBatches(text) /\ loop.read \in Nat
      /\ Split(kept, text, CalledFor(loop), loop.refs, loop.failed)
      /\ IsFiniteSet(loop.refs) /\ Cardinality(loop.refs) <= loop.read
      /\ Cardinality(loop.refs) = loop.read => Whole(kept, CalledFor(loop), loop.refs, loop.failed)
  BY <1>1 DEF Calling, LoopOK
<1>4. /\ IsUnion(CalledFor(after), CalledFor(loop), batch.pages) /\ batch.pages \cap CalledFor(loop) = {}
      /\ after.next \in 1 .. (Len(loop.plan.batches) + 1)
  <2>1. Text(text) /\ loop.next \in DOMAIN loop.plan.batches /\ batch = loop.plan.batches[loop.next]
    BY <1>1 DEF Calling
  <2>2. loop.plan.batches = planDocumentBatches(text).batches
    BY <1>3
  <2>3. Calls(text, loop, batch, after)
    BY <1>2, <2>1, <2>2 DEF Calls
  <2> QED
    BY <2>3, CalledNext DEF Called
<1>5. /\ Split(more, text, CalledFor(loop), loop.refs, loop.failed)
      /\ Whole(kept, CalledFor(loop), loop.refs, loop.failed) => Whole(more, CalledFor(loop), loop.refs, loop.failed)
  BY <1>3, SplitGrows DEF More
<1>6. /\ Split(more, text, CalledFor(after), after.refs, after.failed)
      /\ Whole(more, CalledFor(loop), loop.refs, loop.failed) => Whole(more, CalledFor(after), after.refs, after.failed)
  <2>1. more[ref].pages = batch.pages /\ more[ref].total = text.pageCount /\ ref \in DOMAIN more
    BY <1>1
  <2>2. IsUnion(after.refs, loop.refs, {ref})
    BY <1>2 DEF IsUnion
  <2> QED
    BY <1>2, <1>4, <1>5, <2>1, <2>2, SplitRead
<1>7. ref \notin loop.refs
  BY <1>3 DEF Split
<1>8. IsFiniteSet(after.refs) /\ Cardinality(after.refs) = Cardinality(loop.refs) + 1 /\ Cardinality(loop.refs) \in Nat
  BY <1>2, <1>3, <1>7, FS_AddElement, FS_CardinalityType
<1>9. after.read \in Nat /\ Cardinality(after.refs) <= after.read /\ (Cardinality(after.refs) = after.read => Cardinality(loop.refs) = loop.read)
  BY <1>2, <1>3, <1>8
<1>10. LoopOK(sources, after, more)
  BY <1>1, <1>2, <1>3, <1>4, <1>5, <1>6, <1>8, <1>9 DEF LoopOK
<1> QED
  BY <1>2, <1>10

\* A call that was read while the store was unavailable: from now on the references are too few.
LEMMA BatchNotKept ==
  ASSUME NEW sources, NEW kept, NEW loop, NEW batch, Calling(sources, loop, kept, batch),
         NEW after, AnsweredWith(after, loop, {})
  PROVE  /\ DOMAIN after = LoopFields /\ after.at = "batches" /\ after.file = loop.file
         /\ LoopOK(sources, after, kept)
<1>1. PICK text : text = sources[loop.file]
  OBVIOUS
<1>2. /\ DOMAIN after = LoopFields /\ after.at = "batches" /\ after.file = loop.file /\ after.plan = loop.plan
      /\ after.next = loop.next + 1 /\ after.failed = loop.failed
      /\ after.refs = loop.refs /\ after.read = loop.read + 1
  BY DEF Calling, LoopFields, Lost, AnsweredWith
<1>3. /\ loop.plan = planDocumentBatches(text) /\ loop.read \in Nat
      /\ Split(kept, text, CalledFor(loop), loop.refs, loop.failed)
      /\ IsFiniteSet(loop.refs) /\ Cardinality(loop.refs) <= loop.read
  BY <1>1 DEF Calling, LoopOK
<1>4. /\ IsUnion(CalledFor(after), CalledFor(loop), batch.pages)
      /\ after.next \in 1 .. (Len(loop.plan.batches) + 1)
  <2>1. Text(text) /\ loop.next \in DOMAIN loop.plan.batches /\ batch = loop.plan.batches[loop.next]
    BY <1>1 DEF Calling
  <2>2. loop.plan.batches = planDocumentBatches(text).batches
    BY <1>3
  <2>3. Calls(text, loop, batch, after)
    BY <1>2, <2>1, <2>2 DEF Calls
  <2> QED
    BY <2>3, CalledNext DEF Called
<1>5. Split(kept, text, CalledFor(after), after.refs, after.failed)
  BY <1>2, <1>3, <1>4, SplitCalled
<1>6. Cardinality(loop.refs) \in Nat
  BY <1>3, FS_CardinalityType
<1>7. after.read \in Nat /\ Cardinality(after.refs) <= after.read /\ Cardinality(after.refs) # after.read
  BY <1>2, <1>3, <1>6
<1>8. LoopOK(sources, after, kept)
  BY <1>1, <1>2, <1>3, <1>4, <1>5, <1>7 DEF LoopOK
<1> QED
  BY <1>2, <1>8

\* While batches are read only the loop and the records change.
LEMMA WhileReading ==
  ASSUME AllOK(source, state, reading, records), reading.at = "batches", UNCHANGED <<source, state>>,
         RecordsOK(records'), LoopOK(source, reading', records'),
         DOMAIN reading' = LoopFields, reading'.at = "batches", reading'.file = reading.file
  PROVE  AllOK(source', state', reading', records')
<1>1. state.phase = "reading"
  BY DEF AllOK, PhaseOK
<1>2. PhaseOK(state, reading')
  BY DEF AllOK, PhaseOK
<1> QED
  BY <1>1, <1>2, NoResults DEF AllOK

\* A loop with batches left is about to send one of its plan.
LEMMA CallingIs ==
  ASSUME AllOK(source, state, reading, records), reading.at = "batches", reading.next \in DOMAIN Batches
  PROVE  Calling(source, reading, records, Batches[reading.next])
<1>1. reading.file \in Files /\ DOMAIN reading = LoopFields
  BY DEF AllOK, PhaseOK
<1> QED
  BY <1>1, SourceText DEF AllOK, Calling, Batches

\* A lost batch keeps the invariant: its pages are reported.
LEMMA LoseBatchOK ==
  ASSUME AllOK(source, state, reading, records), LoseBatch
  PROVE  AllOK(source', state', reading', records')
<1>1. PICK batch : batch = Batches[reading.next]
  OBVIOUS
<1>2. /\ UNCHANGED <<source, state, records>> /\ reading.at = "batches" /\ reading.next \in DOMAIN Batches
      /\ reading' = BatchFailed(batch)
  BY <1>1 DEF LoseBatch
<1>3. Calling(source, reading, records, batch)
  BY <1>1, <1>2, CallingIs
<1>4. /\ DOMAIN reading' = LoopFields /\ reading'.at = "batches" /\ reading'.file = reading.file
      /\ LoopOK(source, reading', records)
  <2>1. PICK after : after = reading'
    OBVIOUS
  <2>2. Lost(after, reading, batch) /\ More(records, records)
    BY <1>2, <2>1 DEF BatchFailed, Lost, More
  <2> QED
    BY <1>3, <2>1, <2>2, BatchFails
<1> QED
  BY <1>2, <1>4, WhileReading DEF AllOK

\* A record is added under a reference.
Adds(more, kept, record, ref) == more = Append(kept, record) /\ ref = Len(kept) + 1

\* A new record leaves those there were, under a reference of its own.
LEMMA RecordAdded ==
  ASSUME NEW kept, RecordsOK(kept), NEW record, WellRead(record), NEW more, NEW ref, Adds(more, kept, record, ref)
  PROVE  RecordsOK(more) /\ More(more, kept) /\ ref \in DOMAIN more \ DOMAIN kept /\ more[ref] = record
<1>1. kept \in Seq({kept[r] : r \in DOMAIN kept}) /\ \A r \in DOMAIN kept : WellRead(kept[r])
  BY DEF RecordsOK
<1>2. /\ Len(kept) \in Nat /\ DOMAIN kept = 1 .. Len(kept) /\ DOMAIN more = 1 .. (Len(kept) + 1)
      /\ more[Len(kept) + 1] = record /\ \A r \in DOMAIN kept : more[r] = kept[r]
      /\ more \in Seq({more[r] : r \in DOMAIN more})
  BY <1>1, AppendOne DEF Adds
<1>3. DOMAIN more = DOMAIN kept \cup {Len(kept) + 1} /\ Len(kept) + 1 \notin DOMAIN kept
  BY <1>2
<1>4. \A r \in DOMAIN more : WellRead(more[r])
  BY <1>1, <1>2, <1>3
<1>5. RecordsOK(more)
  BY <1>2, <1>4 DEF RecordsOK
<1> QED
  BY <1>2, <1>3, <1>5 DEF More, Adds

\* The record of a batch names the pages of the batch.
LEMMA RecordRead ==
  ASSUME NEW batch, batch.pages \in SUBSET Nat, NEW answers, NEW record, record = RecordOf(batch, answers)
  PROVE  WellRead(record) /\ record.pages = batch.pages /\ record.total = source[reading.file].pageCount
<1>1. PICK mapped : mapped = mapPayslipFactsResponse(answers, batch.pages)
  OBVIOUS
<1>2. /\ DOMAIN record = {"file", "kept", "pages", "total", "facts", "lines", "premiums"}
      /\ record.facts = mapped.facts /\ record.pages = batch.pages /\ record.total = source[reading.file].pageCount
  BY <1>1 DEF RecordOf
<1>3. \A f \in mapped.facts : /\ DOMAIN f = {"field", "value", "status", "reason", "raw", "page"}
                              /\ f.page \in Nat /\ (f.status = "exact" => f.value # NoValue)
  BY <1>1, MappedResponse
<1> QED
  BY <1>2, <1>3 DEF WellRead

\* A batch that was read keeps the invariant: its pages are in one record.
LEMMA ReadBatchOK ==
  ASSUME AllOK(source, state, reading, records), ReadBatch
  PROVE  AllOK(source', state', reading', records')
<1>1. PICK batch : batch = Batches[reading.next]
  OBVIOUS
<1>2. UNCHANGED <<source, state>> /\ reading.at = "batches" /\ reading.next \in DOMAIN Batches
  BY DEF ReadBatch
<1>3. Calling(source, reading, records, batch)
  BY <1>1, <1>2, CallingIs
<1>4. batch.pages \in SUBSET Nat
  <2>1. PICK next : next = [reading EXCEPT !.next = @ + 1]
    OBVIOUS
  <2>2. next.plan.batches = reading.plan.batches /\ next.next = reading.next + 1
    BY <1>3, <2>1 DEF Calling, LoopFields
  <2>3. Calls(source[reading.file], reading, batch, next)
    BY <1>3, <2>2 DEF Calling, LoopOK, Calls
  <2> QED
    BY <2>3, CalledNext DEF Called
<1>5. PICK after : after = reading'
  OBVIOUS
<1>6. PICK more : more = records'
  OBVIOUS
<1>7. \/ /\ \E answers \in Responses(batch) : more = Append(records, RecordOf(batch, answers))
         /\ AnsweredWith(after, reading, {Len(records) + 1}) \/ Lost(after, reading, batch)
      \/ AnsweredWith(after, reading, {}) /\ UNCHANGED records
  BY <1>1, <1>5, <1>6 DEF ReadBatch, AnsweredWith, Lost, BatchFailed
<1>8. CASE UNCHANGED records /\ AnsweredWith(after, reading, {})
  <2>1. /\ DOMAIN after = LoopFields /\ after.at = "batches" /\ after.file = reading.file
        /\ LoopOK(source, after, records)
    BY <1>3, <1>8, BatchNotKept
  <2> QED
    BY <1>2, <1>5, <1>8, <2>1, WhileReading DEF AllOK
<1>9. CASE /\ \E answers \in Responses(batch) : more = Append(records, RecordOf(batch, answers))
           /\ AnsweredWith(after, reading, {Len(records) + 1}) \/ Lost(after, reading, batch)
  <2>1. PICK answers : more = Append(records, RecordOf(batch, answers))
    BY <1>9
  <2>2. PICK record : record = RecordOf(batch, answers)
    OBVIOUS
  <2>3. PICK ref : ref = Len(records) + 1
    OBVIOUS
  <2>4. WellRead(record) /\ record.pages = batch.pages /\ record.total = source[reading.file].pageCount
    BY <1>4, <2>2, RecordRead
  <2>5. /\ RecordsOK(more) /\ More(more, records)
        /\ ref \in DOMAIN more \ DOMAIN records /\ more[ref] = record
    <3>1. Adds(more, records, record, ref) /\ RecordsOK(records) /\ WellRead(record)
      BY <2>1, <2>2, <2>3, <2>4 DEF AllOK, Adds
    <3> QED
      BY <3>1, RecordAdded
  <2>6. /\ DOMAIN after = LoopFields /\ after.at = "batches" /\ after.file = reading.file
        /\ LoopOK(source, after, more)
    <3>1. CASE Lost(after, reading, batch)
      BY <1>3, <2>5, <3>1, BatchFails
    <3>2. CASE AnsweredWith(after, reading, {ref})
      <4>1. more[ref].pages = batch.pages /\ more[ref].total = source[reading.file].pageCount
        BY <2>4, <2>5
      <4> QED
        BY <1>3, <2>5, <3>2, <4>1, BatchKept
    <3> QED
      BY <1>9, <2>3, <3>1, <3>2
  <2> QED
    BY <1>2, <1>5, <1>6, <2>5, <2>6, WhileReading
<1> QED
  BY <1>6, <1>7, <1>8, <1>9

\* When every call was made, the pages called for are those the plan reads.
LEMMA AllCalled ==
  ASSUME NEW text, Text(text), NEW loop, loop.plan = planDocumentBatches(text), loop.next = Len(loop.plan.batches) + 1
  PROVE  CalledFor(loop) = Readable(text)
<1>1. PICK batches : batches = loop.plan.batches
  OBVIOUS
<1>2. Covers(text, batches)
  BY <1>1, PlanCovers
<1>3. PICK n : n = Len(batches)
  OBVIOUS
<1>4. n \in Nat /\ DOMAIN batches = 1 .. n /\ loop.next = n + 1 /\ (n + 1) - 1 = n
  BY <1>1, <1>2, <1>3 DEF Covers
<1>5. CalledFor(loop) = UNION {batches[i].pages : i \in 1 .. n}
  BY <1>1, <1>4 DEF CalledFor
<1> QED
  BY <1>2, <1>4, <1>5 DEF Covers

\* The pages of the text that no call of the plan reads are reported with those whose call failed.
LEMMA SplitReported ==
  ASSUME NEW kept, NEW text, NEW refs, NEW failed, Split(kept, text, Readable(text), refs, failed),
         Whole(kept, Readable(text), refs, failed), NEW reported, reported = (PagesOf(text) \ Readable(text)) \cup failed
  PROVE  Split(kept, text, PagesOf(text), refs, reported) /\ Whole(kept, PagesOf(text), refs, reported)
<1>1. PICK readable : readable = Readable(text)
  OBVIOUS
<1>2. readable \subseteq PagesOf(text)
  BY <1>1 DEF Readable
<1>3. failed \subseteq readable /\ PagesOf(text) \ reported = readable \ failed /\ reported \subseteq PagesOf(text)
  BY <1>1, <1>2 DEF Split
<1>4. Split(kept, text, PagesOf(text), refs, reported)
  BY <1>1, <1>3 DEF Split
<1>5. Whole(kept, PagesOf(text), refs, reported)
  BY <1>1, <1>3 DEF Whole
<1> QED
  BY <1>4, <1>5

\* The end of a read keeps the invariant: what is shown is read or reported.
LEMMA EndReadOK ==
  ASSUME AllOK(source, state, reading, records), EndRead
  PROVE  AllOK(source', state', reading', records')
<1>1. PICK reported : reported = reading.plan.notProcessedPages \cup reading.failed
  OBVIOUS
<1>2. PICK refs : refs = IF Cardinality(reading.refs) = reading.read THEN reading.refs ELSE {}
  OBVIOUS
<1>3. /\ UNCHANGED <<source, records>> /\ reading.at = "batches" /\ reading.next = Len(reading.plan.batches) + 1
      /\ reading.file = state.file /\ state.file \in Files /\ DOMAIN state = ScreenFields /\ state.phase = "reading"
  BY DEF EndRead, Batches, AllOK, PhaseOK
<1>4. PICK text : text = source[reading.file]
  OBVIOUS
<1>5. Text(text)
  BY <1>3, <1>4, SourceText DEF AllOK
<1>6. CASE reading' = NotReading /\ ReadFails
  <2>1. DOMAIN state' = ScreenFields /\ state'.phase = "selected" /\ state'.file = state.file
    BY <1>3, <1>6 DEF ReadFails, ScreenFields
  <2>2. PhaseOK(state', reading')
    BY <1>3, <1>6, <2>1, IdleLoop DEF PhaseOK
  <2> QED
    BY <1>3, <1>6, <2>1, <2>2, IdleLoop, NoResults, NoLoop DEF AllOK
<1>7. CASE /\ state' = [state EXCEPT !.coverage = reported, !.batchRefs = refs,
                                     !.phase = IF refs = {} THEN "selected" ELSE "analysing",
                                     !.error = IF refs = {} THEN "reference" ELSE Null]
           /\ reading' = IF refs = {} THEN NotReading ELSE [NotReading EXCEPT !.at = "resolve", !.file = reading.file, !.refs = refs]
  <2>1. /\ DOMAIN state' = ScreenFields /\ state'.coverage = reported /\ state'.batchRefs = refs /\ state'.file = state.file
        /\ state'.phase = (IF refs = {} THEN "selected" ELSE "analysing")
    BY <1>3, <1>7 DEF ScreenFields
  <2>2. CASE refs = {}
    <3>1. PhaseOK(state', reading')
      BY <1>3, <1>7, <2>1, <2>2, IdleLoop DEF PhaseOK
    <3>2. ScreenOK(source, state', records)
      BY <2>1, <2>2, NoResults
    <3>3. LoopOK(source, reading', records)
      BY <1>7, <2>2, IdleLoop, NoLoop
    <3> QED
      BY <1>3, <3>1, <3>2, <3>3 DEF AllOK
  <2>3. CASE refs # {}
    <3>1. /\ DOMAIN reading' = LoopFields /\ reading'.at = "resolve" /\ reading'.file = reading.file /\ reading'.refs = refs
          /\ reading'.plan.batches = <<>>
      BY <1>7, <2>3, IdleLoop DEF LoopFields
    <3>2. PhaseOK(state', reading')
      BY <1>3, <2>1, <2>3, <3>1 DEF PhaseOK
    <3>3. Cardinality(reading.refs) = reading.read /\ refs = reading.refs
      BY <1>2, <2>3
    <3>4. /\ reading.plan = planDocumentBatches(text)
          /\ Split(records, text, CalledFor(reading), refs, reading.failed)
          /\ Whole(records, CalledFor(reading), refs, reading.failed)
      BY <1>3, <1>4, <3>3 DEF AllOK, LoopOK
    <3>5. CalledFor(reading) = Readable(text)
      BY <1>3, <1>5, <3>4, AllCalled
    <3>6. reported = (PagesOf(text) \ Readable(text)) \cup reading.failed
      BY <1>1, <3>4 DEF planDocumentBatches
    <3>7. Split(records, text, PagesOf(text), refs, reported) /\ Whole(records, PagesOf(text), refs, reported)
      BY <3>4, <3>5, <3>6, SplitReported
    <3>8. ScreenOK(source, state', records)
      BY <1>3, <1>4, <2>1, <2>3, <3>7 DEF ScreenOK, Accounted
    <3> QED
      BY <1>3, <3>1, <3>2, <3>8, NoLoop DEF AllOK
  <2> QED
    BY <2>2, <2>3
<1> QED
  BY <1>1, <1>2, <1>6, <1>7 DEF EndRead

\* The profile is resolved for the records the screen names.
LEMMA ResolveOK ==
  ASSUME AllOK(source, state, reading, records), resolveProfile
  PROVE  AllOK(source', state', reading', records')
<1>1. /\ UNCHANGED <<source, records>> /\ reading.at = "resolve" /\ state.phase = "analysing"
      /\ reading.file = state.file /\ reading.refs = state.batchRefs /\ state.file \in Files /\ reading.plan.batches = <<>>
      /\ DOMAIN state = ScreenFields /\ DOMAIN reading = LoopFields
  BY DEF resolveProfile, AllOK, PhaseOK
<1>2. CASE reading' = [reading EXCEPT !.at = "replay"] /\ UNCHANGED state
  <2>1. /\ DOMAIN reading' = LoopFields /\ reading'.at = "replay" /\ reading'.file = reading.file
        /\ reading'.refs = reading.refs /\ reading'.plan.batches = <<>>
    BY <1>1, <1>2 DEF LoopFields
  <2>2. PhaseOK(state, reading')
    BY <1>1, <2>1 DEF AllOK, PhaseOK
  <2> QED
    BY <1>1, <1>2, <2>1, <2>2, NoLoop DEF AllOK
<1>3. CASE state' = [state EXCEPT !.phase = "done", !.error = "facts"] /\ reading' = NotReading
  <2>1. /\ DOMAIN state' = ScreenFields /\ state'.phase = "done" /\ state'.error = "facts" /\ state'.file = state.file
        /\ state'.batchRefs = state.batchRefs /\ state'.coverage = state.coverage
    BY <1>1, <1>3 DEF ScreenFields
  <2>2. PhaseOK(state', reading')
    BY <1>1, <1>3, <2>1, IdleLoop DEF PhaseOK
  <2>3. ScreenOK(source, state', records)
    BY <1>1, <2>1 DEF AllOK, ScreenOK, Accounted, Null
  <2> QED
    BY <1>1, <1>3, <2>2, <2>3, IdleLoop, NoLoop DEF AllOK
<1> QED
  BY <1>2, <1>3 DEF resolveProfile

\* The facts of records as the server keeps them.
LEMMA FactsAreWell ==
  ASSUME NEW kept, RecordsOK(kept), NEW refs, refs \subseteq DOMAIN kept
  PROVE  WellFacts(FactsOf(kept, refs))
BY DEF RecordsOK, WellRead, FactsOf, WellFacts

\* A comparison is substantiated only when the document is whole.
LEMMA ReplaySubstantiates ==
  ASSUME NEW screen, NEW text, Text(text), NEW kept, RecordsOK(kept), Accounted(text, screen, kept),
         NEW doc, doc = Merged(kept, screen.batchRefs), PeriodTypeKnown(doc), doc.missing = {}, UnreadAmounts(doc) = {},
         \A l \in doc.lines : l.list = "deduction_lines" => l.numbers.amount # {}
  PROVE  Comparable(kept, screen.batchRefs, PagesOf(text))
<1>1. PICK refs : refs = screen.batchRefs
  OBVIOUS
<1>2. PICK n : n = text.pageCount
  OBVIOUS
<1>3. n \in Nat /\ PagesOf(text) = 1 .. n
  BY <1>2 DEF Text, PagesOf
<1>4. /\ refs # {} /\ refs \subseteq DOMAIN kept
      /\ \A r \in refs : kept[r].total = n /\ kept[r].pages \subseteq 1 .. n
  BY <1>1, <1>2, <1>3 DEF Accounted, Split
<1>5. WellFacts(FactsOf(kept, refs))
  BY <1>4, FactsAreWell
<1>6. Comparable(kept, refs, 1 .. n)
  BY <1>1, <1>3, <1>4, <1>5, ComparedIs
<1> QED
  BY <1>1, <1>3, <1>6

\* What the screen holds once the analysis is over.
LEMMA AnalysedIs ==
  ASSUME DOMAIN state = ScreenFields, NEW replay, NEW problem, NEW s, s = Analysed(replay, problem)
  PROVE  /\ DOMAIN s = ScreenFields /\ s.phase = "done" /\ s.file = state.file /\ s.batchRefs = state.batchRefs
         /\ s.coverage = state.coverage /\ s.replay = replay /\ s.facts = buildDocumentKnowledge(DocumentOf(reading.refs))
BY DEF Analysed, ScreenFields

\* The end of the analysis keeps the invariant: it compares only a whole document.
LEMMA ReplayOK ==
  ASSUME AllOK(source, state, reading, records), ReplayByRefs
  PROVE  AllOK(source', state', reading', records')
<1>1. /\ UNCHANGED <<source, records>> /\ reading.at = "replay" /\ state.phase = "analysing"
      /\ reading.file = state.file /\ reading.refs = state.batchRefs /\ state.file \in Files
      /\ DOMAIN state = ScreenFields /\ reading' = NotReading
  BY DEF ReplayByRefs, AllOK, PhaseOK
<1>2. PICK text : text = source[state.file]
  OBVIOUS
<1>3. Text(text) /\ Accounted(text, state, records) /\ RecordsOK(records)
  BY <1>1, <1>2, SourceText DEF AllOK, ScreenOK
<1>4. PICK doc : doc = Merged(records, state.batchRefs)
  OBVIOUS
<1>5. DocumentOf(reading.refs) = doc
  BY <1>1, <1>4 DEF DocumentOf, RecordsOf, Merged
<1>6. \E shown, issue : /\ state' = Analysed(shown, issue)
                        /\ shown = "substantiated" => Comparable(records, state.batchRefs, PagesOf(text))
  <2>1. CASE replayAnswered
    <3>1. PICK unread : unread = (\E l \in doc.lines : l.list = "deduction_lines" /\ l.numbers.amount = {})
      OBVIOUS
    <3>2. PICK computed \in BOOLEAN, gaps \in BOOLEAN :
            state' = Analysed(comparisonState(PeriodTypeKnown(doc), computed /\ ~unread, gaps \/ UnreadAmounts(doc) # {}, doc.missing), Null)
      BY <1>5, <2>1, <3>1 DEF replayAnswered
    <3>3. PICK replay : replay = comparisonState(PeriodTypeKnown(doc), computed /\ ~unread, gaps \/ UnreadAmounts(doc) # {}, doc.missing)
      OBVIOUS
    <3>4. replay = "substantiated" => PeriodTypeKnown(doc) /\ ~unread /\ UnreadAmounts(doc) = {} /\ doc.missing = {}
      BY <3>3 DEF comparisonState
    <3>5. replay = "substantiated" => Comparable(records, state.batchRefs, PagesOf(text))
      BY <1>3, <1>4, <3>1, <3>4, ReplaySubstantiates
    <3> QED
      BY <3>2, <3>3, <3>5
  <2>2. CASE replayRefused
    BY <2>2 DEF replayRefused, Null
  <2> QED
    BY <2>1, <2>2 DEF ReplayByRefs
<1>7. PICK shown, issue : /\ state' = Analysed(shown, issue)
                          /\ shown = "substantiated" => Comparable(records, state.batchRefs, PagesOf(text))
  BY <1>6
<1>8. /\ DOMAIN state' = ScreenFields /\ state'.phase = "done" /\ state'.file = state.file /\ state'.batchRefs = state.batchRefs
      /\ state'.coverage = state.coverage /\ state'.replay = shown /\ state'.facts = buildDocumentKnowledge(doc)
  <2>1. state' = Analysed(shown, issue) /\ DOMAIN state = ScreenFields
    BY <1>1, <1>7
  <2>2. /\ DOMAIN state' = ScreenFields /\ state'.phase = "done" /\ state'.file = state.file /\ state'.batchRefs = state.batchRefs
        /\ state'.coverage = state.coverage /\ state'.replay = shown /\ state'.facts = buildDocumentKnowledge(DocumentOf(reading.refs))
    BY <2>1, AnalysedIs
  <2> QED
    BY <1>5, <2>2
<1>9. PhaseOK(state', reading')
  BY <1>1, <1>8, IdleLoop DEF PhaseOK
<1>10. ScreenOK(source, state', records)
  <2>1. Accounted(text, state', records)
    BY <1>3, <1>8 DEF Accounted
  <2> QED
    BY <1>1, <1>2, <1>4, <1>7, <1>8, <2>1 DEF ScreenOK
<1> QED
  BY <1>1, <1>9, <1>10, IdleLoop, NoLoop DEF AllOK

\* Records that differ in whether they are kept.
Alike(more, kept) ==
  /\ DOMAIN more = DOMAIN kept
  /\ \A r \in DOMAIN kept : /\ DOMAIN more[r] = DOMAIN kept[r]
                            /\ more[r].facts = kept[r].facts /\ more[r].lines = kept[r].lines
                            /\ more[r].premiums = kept[r].premiums /\ more[r].pages = kept[r].pages
                            /\ more[r].total = kept[r].total

\* A division of the pages does not depend on what the server still keeps.
LEMMA SplitAlike ==
  ASSUME NEW kept, NEW more, Alike(more, kept),
         NEW text, NEW pages, NEW refs, NEW failed, Split(kept, text, pages, refs, failed)
  PROVE  /\ Split(more, text, pages, refs, failed)
         /\ Whole(kept, pages, refs, failed) => Whole(more, pages, refs, failed)
<1>1. refs \subseteq DOMAIN kept
  BY DEF Split
<1>2. \A r \in refs : more[r].pages = kept[r].pages /\ more[r].total = kept[r].total
  BY <1>1 DEF Alike
<1>3. Split(more, text, pages, refs, failed)
  BY <1>1, <1>2 DEF Split, Alike
<1>4. Whole(kept, pages, refs, failed) => Whole(more, pages, refs, failed)
  BY <1>2 DEF Whole
<1> QED
  BY <1>3, <1>4

\* Nor does what is shown.
LEMMA ScreenAlike ==
  ASSUME NEW sources, NEW screen, NEW kept, NEW more, Alike(more, kept), ScreenOK(sources, screen, kept),
         screen.phase \in {"analysing", "done"}
  PROVE  ScreenOK(sources, screen, more)
<1>1. PICK refs : refs = screen.batchRefs
  OBVIOUS
<1>2. PICK text : text = sources[screen.file]
  OBVIOUS
<1>3. /\ screen.file \in Files /\ refs # {}
      /\ Split(kept, text, PagesOf(text), refs, screen.coverage)
      /\ Whole(kept, PagesOf(text), refs, screen.coverage)
  BY <1>1, <1>2 DEF ScreenOK, Accounted
<1>4. Split(more, text, PagesOf(text), refs, screen.coverage) /\ Whole(more, PagesOf(text), refs, screen.coverage)
  BY <1>3, SplitAlike
<1>5. /\ FactsOf(more, refs) = FactsOf(kept, refs) /\ LinesOf(more, refs) = LinesOf(kept, refs)
      /\ ReadPages(more, refs) = ReadPages(kept, refs) /\ Merged(more, refs) = Merged(kept, refs)
  <2>1. refs \subseteq DOMAIN kept
    BY <1>3 DEF Split
  <2>2. \A r \in refs : /\ more[r].facts = kept[r].facts /\ more[r].lines = kept[r].lines
                        /\ more[r].premiums = kept[r].premiums /\ more[r].pages = kept[r].pages
                        /\ more[r].total = kept[r].total
    BY <2>1 DEF Alike
  <2> QED
    BY <2>2, MergedSame
<1>6. Comparable(kept, refs, PagesOf(text)) => Comparable(more, refs, PagesOf(text))
  BY <1>5 DEF Comparable
<1>7. screen.phase = "done" /\ screen.error = Null =>
        /\ screen.facts = buildDocumentKnowledge(Merged(kept, refs))
        /\ screen.replay = "substantiated" => Comparable(kept, refs, PagesOf(text))
  BY <1>1, <1>2 DEF ScreenOK
<1>8. Accounted(text, screen, more)
  BY <1>1, <1>3, <1>4 DEF Accounted
<1> QED
  BY <1>1, <1>2, <1>3, <1>5, <1>6, <1>7, <1>8 DEF ScreenOK

\* When the server forgets the records, what is shown is still what was read of them.
LEMMA ForgetOK ==
  ASSUME AllOK(source, state, reading, records), Forget
  PROVE  AllOK(source', state', reading', records')
<1>1. UNCHANGED <<source, state, reading>>
  BY DEF Forget
<1>2. PICK more : more = records'
  OBVIOUS
<1>3. more = [r \in DOMAIN records |-> [records[r] EXCEPT !.kept = FALSE]]
  BY <1>2 DEF Forget
<1>4. records \in Seq({records[r] : r \in DOMAIN records}) /\ \A r \in DOMAIN records : WellRead(records[r])
  BY DEF AllOK, RecordsOK
<1>5. \A r \in DOMAIN records : DOMAIN records[r] = {"file", "kept", "pages", "total", "facts", "lines", "premiums"}
  BY <1>4 DEF WellRead
<1>6. DOMAIN more = DOMAIN records /\ \A r \in DOMAIN records : more[r] = [records[r] EXCEPT !.kept = FALSE]
  BY <1>3
<1>7. Alike(more, records)
  BY <1>5, <1>6 DEF Alike
<1>8. \A r \in DOMAIN more : WellRead(more[r])
  BY <1>4, <1>7 DEF Alike, WellRead
<1>9. more \in Seq({more[r] : r \in DOMAIN more})
  <2>1. PICK n \in Nat : DOMAIN more = 1 .. n
    BY <1>4, <1>6, LenProperties
  <2>2. PICK R : R = {more[r] : r \in DOMAIN more}
    OBVIOUS
  <2>3. more \in [1 .. n -> R]
    BY <1>3, <1>6, <2>1, <2>2
  <2>4. more \in Seq(R)
    BY <2>1, <2>3, FunIsSeq
  <2> QED
    BY <2>2, <2>4
<1>10. RecordsOK(more)
  BY <1>8, <1>9 DEF RecordsOK
<1>11. LoopOK(source, reading, more)
  BY <1>7, SplitAlike DEF AllOK, LoopOK
<1>12. ScreenOK(source, state, more)
  <2>1. CASE state.phase \in {"analysing", "done"}
    BY <1>7, <2>1, ScreenAlike DEF AllOK
  <2>2. CASE state.phase \notin {"analysing", "done"}
    BY <2>2, NoResults
  <2> QED
    BY <2>1, <2>2
<1> QED
  BY <1>1, <1>2, <1>10, <1>11, <1>12 DEF AllOK

\* Every step keeps the invariant.
LEMMA StepOK ==
  ASSUME AllOK(source, state, reading, records), AnalysisNext
  PROVE  AllOK(source', state', reading', records')
<1>1. ASSUME NEW answer, CheckReader(answer) PROVE AllOK(source', state', reading', records')
  BY <1>1, CheckReaderOK
<1>2. ASSUME NEW f \in Files, SelectFile(f) PROVE AllOK(source', state', reading', records')
  BY <1>2, SelectFileOK
<1>3. CASE RemoveFile
  BY <1>3, FreshOK DEF RemoveFile, Busy
<1>4. CASE Read
  BY <1>4, ReadOK
<1>5. CASE retryAnalysis
  BY <1>5, RetryOK
<1>6. CASE Reset
  BY <1>6, FreshOK DEF Reset
<1>7. CASE OpenFile
  BY <1>7, OpenFileOK
<1>8. CASE LoseBatch
  BY <1>8, LoseBatchOK
<1>9. CASE ReadBatch
  BY <1>9, ReadBatchOK
<1>10. CASE EndRead
  BY <1>10, EndReadOK
<1>11. CASE resolveProfile
  BY <1>11, ResolveOK
<1>12. CASE ReplayByRefs
  BY <1>12, ReplayOK
<1>13. CASE Forget
  BY <1>13, ForgetOK
<1> QED
  BY <1>1, <1>2, <1>3, <1>4, <1>5, <1>6, <1>7, <1>8, <1>9, <1>10, <1>11, <1>12, <1>13 DEF AnalysisNext, System

\* The references and the pages reported unread account for the document, from the first call to the results.
THEOREM AnalysisAccounts == AnalysisSpec => []AnalysisInv
<1>1. AnalysisInit => AnalysisInv
  BY AnalysisInitOK, InvIs
<1>2. AnalysisInv /\ [AnalysisNext]_analysisVars => AnalysisInv'
  <2>1. CASE AnalysisNext
    BY <2>1, StepOK, InvIs
  <2>2. CASE UNCHANGED analysisVars
    BY <2>2, InvIs DEF analysisVars
  <2> QED
    BY <2>1, <2>2
<1> QED
  BY <1>1, <1>2, PTL DEF AnalysisSpec

\* The loop sends what the plan divided, and the plan divides it as the route takes it.
LEMMA InvImpliesAccepted == AnalysisInv => PlanAccepted
<1> SUFFICES ASSUME AnalysisInv, NEW i \in DOMAIN Batches
             PROVE  Sendable(source[reading.file], Batches[i])
  BY DEF PlanAccepted, Sendable
<1>1. AllOK(source, state, reading, records)
  BY InvIs
<1>2. reading.at = "batches"
  <2>1. Batches # <<>>
    OBVIOUS
  <2> QED
    BY <1>1, <2>1 DEF AllOK, PhaseOK, Batches
<1>3. Text(source[reading.file]) /\ reading.plan = planDocumentBatches(source[reading.file])
  <2>1. reading.file \in Files /\ source \in Sources
    BY <1>1, <1>2 DEF AllOK, PhaseOK
  <2> QED
    BY <1>1, <1>2, <2>1, SourceText DEF AllOK, LoopOK
<1> QED
  BY <1>3, PlanCovers DEF Covers, Batches

\* The pages read and the pages reported are disjoint and are all pages.
LEMMA InvImpliesReported == AnalysisInv => PageReadOrReported
<1> SUFFICES ASSUME AnalysisInv, ResultsShown, NEW p \in PagesOf(source[state.file]), NEW S,
                    S = {r \in state.batchRefs : p \in records[r].pages}
             PROVE  Cardinality(S) = IF p \in state.coverage THEN 0 ELSE 1
  BY DEF PageReadOrReported
<1>1. PICK text : text = source[state.file]
  OBVIOUS
<1>2. Accounted(text, state, records)
  BY <1>1, InvIs DEF AllOK, ScreenOK, ResultsShown
<1>3. CASE p \in state.coverage
  <2>1. S = {}
    BY <1>2, <1>3 DEF Accounted, Split
  <2> QED
    BY <1>3, <2>1, FS_EmptySet
<1>4. CASE p \notin state.coverage
  <2>1. PICK r \in state.batchRefs : p \in records[r].pages
    BY <1>1, <1>2, <1>4 DEF Accounted, Whole
  <2>2. S = {r}
    BY <1>2, <2>1 DEF Accounted, Split
  <2> QED
    BY <1>4, <2>2, FS_Singleton
<1> QED
  BY <1>3, <1>4

\* What is shown as known was read from the records the screen names.
LEMMA InvImpliesAgreement == AnalysisInv => FiguresAgree
<1> SUFFICES ASSUME AnalysisInv, ResultsShown
             PROVE  FiguresAgree
  BY DEF FiguresAgree
<1>1. PICK refs : refs = state.batchRefs
  OBVIOUS
<1>2. AllOK(source, state, reading, records)
  BY InvIs
<1>3. PICK facts : facts = FactsOf(records, refs)
  OBVIOUS
<1>4. PICK doc : doc = Merged(records, refs)
  OBVIOUS
<1>5. PICK knowledge : knowledge = state.facts
  OBVIOUS
<1>6. knowledge = buildDocumentKnowledge(doc) /\ refs \subseteq DOMAIN records
  BY <1>1, <1>2, <1>4, <1>5 DEF AllOK, ScreenOK, ResultsShown, Accounted, Split
<1>7. WellFacts(facts) /\ doc.facts = Document!markContradictions(facts)
  BY <1>2, <1>3, <1>4, <1>6, FactsAreWell, MergedParts DEF AllOK
<1>8. PICK shown : shown = printedSummary(knowledge)
  OBVIOUS
<1>9. /\ shown.rates = ValuesOf(knowledge, "hourly_rate") /\ shown.gross = ValuesOf(knowledge, "gross_total")
      /\ shown.net = ValuesOf(knowledge, "net") /\ shown.payout = ValuesOf(knowledge, "payout")
  BY <1>8 DEF printedSummary
<1>10. UNION {b.facts : b \in RecordsOf(refs)} = facts
  <2>1. PICK set : set = {records[r] : r \in refs}
    OBVIOUS
  <2>2. RecordsOf(refs) = set
    BY <2>1 DEF RecordsOf
  <2> QED
    BY <1>3, <2>1, <2>2, OfRecords
<1>11. SCALAR_KEYS["printedGrossTotal"] = "gross_total" /\ SCALAR_KEYS["printedNet"] = "net" /\ SCALAR_KEYS["printedPayout"] = "payout"
  BY DEF SCALAR_KEYS
<1>12. shown.gross # {} => shown.gross = Stated(facts, "printedGrossTotal") /\ Cardinality(shown.gross) = 1
  BY <1>6, <1>7, <1>9, <1>11, TotalAgrees
<1>13. shown.net # {} => shown.net = Stated(facts, "printedNet") /\ Cardinality(shown.net) = 1
  BY <1>6, <1>7, <1>9, <1>11, TotalAgrees
<1>14. shown.payout # {} => shown.payout = Stated(facts, "printedPayout") /\ Cardinality(shown.payout) = 1
  BY <1>6, <1>7, <1>9, <1>11, TotalAgrees
<1>15. /\ Stated(facts, "hourlyRate") \subseteq shown.rates
       /\ Cardinality(shown.rates) > 1 => \A k \in knowledge : k.key = "hourly_rate" => k.status = "conflict"
  BY <1>6, <1>7, <1>9, RatesAgree
<1>16. \A field : {f.value : f \in {g \in facts : g.field = field /\ g.status = "exact"}} = Stated(facts, field)
  BY DEF Stated, Exacts
<1> QED
  BY <1>1, <1>5, <1>8, <1>10, <1>12, <1>13, <1>14, <1>15, <1>16 DEF FiguresAgree

\* Every call the browser plans passes the route's checks, but for a document of more pages than the route counts, a
\* call of more lines than it takes, and too much text on one page or in a mixed document.
THEOREM Accepted == AnalysisSpec => []PlanAccepted
BY AnalysisAccounts, InvImpliesAccepted, PTL

\* A page of the document in the results was read once, or is reported unread.
THEOREM ReadOrReported == AnalysisSpec => []PageReadOrReported
BY AnalysisAccounts, InvImpliesReported, PTL

\* Only a whole document of one period type is compared.
THEOREM Compared == AnalysisSpec => []ComparedWhole
<1>1. AnalysisInv => ComparedWhole
  BY DEF AnalysisInv, ScreenInv
<1> QED
  BY <1>1, AnalysisAccounts, PTL

\* A total in the results is what every page that states it says, and no rate is left out or taken for the one.
THEOREM Agreement == AnalysisSpec => []FiguresAgree
BY AnalysisAccounts, InvImpliesAgreement, PTL

----------------------------------------------------------------------------
(* PayslipReview *)

\* What a correction writes: one amount of one list, or none of the lists.
Written(p, path, value, q) ==
  /\ DOMAIN q = DOMAIN p
  /\ \A name \in DOMAIN p : name \in {"hour_lines"} \cup AmountLists => DOMAIN q[name] = DOMAIN p[name]
  /\ \A name \in (DOMAIN p) \cap AmountLists : \A i \in DOMAIN p[name] :
       q[name][i] = IF path[1] = name /\ path[2] = i THEN value ELSE p[name][i]
  /\ "hour_lines" \in DOMAIN p => \A i \in DOMAIN p.hour_lines : "amount" \in DOMAIN p.hour_lines[i] =>
       /\ "amount" \in DOMAIN q.hour_lines[i]
       /\ q.hour_lines[i].amount = IF path[1] = "hour_lines" /\ path[2] = i THEN value ELSE p.hour_lines[i].amount

\* A correction writes that, whatever its path.
LEMMA CorrectionWrites ==
  ASSUME NEW p, NEW path, NEW value
  PROVE  Written(p, path, value, setPeriodFieldByPath(p, path, value))
<1>1. PICK q : q = setPeriodFieldByPath(p, path, value)
  OBVIOUS
<1>2. SUFFICES Written(p, path, value, q)
  BY <1>1, Zenon
<1>3. CASE path[1] = "hour_lines"
  <2>1. PICK line : line = [p.hour_lines[path[2]] EXCEPT !.amount = value]
    OBVIOUS
  <2>2. PICK lines : lines = [p.hour_lines EXCEPT ![path[2]] = line]
    OBVIOUS
  <2>3. q = [p EXCEPT !.hour_lines = lines]
    BY <1>1, <1>3, <2>1, <2>2, Zenon DEF setPeriodFieldByPath
  <2> QED
    BY <1>3, <2>1, <2>2, <2>3 DEF Written, AmountLists
<1>4. CASE path[1] \in AmountLists
  <2>1. PICK amounts : amounts = [p[path[1]] EXCEPT ![path[2]] = value]
    OBVIOUS
  <2>2. q = [p EXCEPT ![path[1]] = amounts]
    BY <1>1, <1>4, <2>1 DEF setPeriodFieldByPath, AmountLists
  <2> QED
    BY <1>4, <2>1, <2>2 DEF Written, AmountLists
<1>5. CASE path[1] = "exchange"
  <2>1. PICK et : et = {[e EXCEPT !.exchange = value] : e \in p.et}
    OBVIOUS
  <2>2. q = [p EXCEPT !.et = et]
    BY <1>1, <1>5, <2>1, Zenon DEF setPeriodFieldByPath, AmountLists
  <2> QED
    BY <1>5, <2>2 DEF Written, AmountLists
<1>6. CASE path[1] \in {"net", "payout"}
  <2>1. q = [p EXCEPT ![path[1]] = {value}]
    BY <1>1, <1>6, Zenon DEF setPeriodFieldByPath, AmountLists
  <2> QED
    BY <1>6, <2>1 DEF Written, AmountLists
<1>7. CASE path[1] \notin {"hour_lines", "exchange", "net", "payout"} \cup AmountLists
  <2>1. q = p
    BY <1>1, <1>7, Zenon DEF setPeriodFieldByPath
  <2> QED
    BY <1>7, <2>1 DEF Written
<1> QED
  BY <1>3, <1>4, <1>5, <1>6, <1>7

\* The amount a correction writes is in its place.
LEMMA PathWritten ==
  ASSUME NEW p, NEW path, NEW at, NEW value, HasPlace(p, at), path[1] = at[1], path[2] = at[2]
  PROVE  GetPath(setPeriodFieldByPath(p, path, value), at) = {value}
<1>1. PICK q : q = setPeriodFieldByPath(p, path, value) /\ Written(p, path, value, q)
  BY CorrectionWrites
<1> QED
  BY <1>1 DEF HasPlace, Written, GetPath, AmountLists

\* Every other amount stays.
LEMMA PathKept ==
  ASSUME NEW p, NEW path, NEW at, NEW value, HasPlace(p, at), ~(path[1] = at[1] /\ path[2] = at[2])
  PROVE  GetPath(setPeriodFieldByPath(p, path, value), at) = GetPath(p, at)
<1>1. PICK q : q = setPeriodFieldByPath(p, path, value) /\ Written(p, path, value, q)
  BY CorrectionWrites
<1> QED
  BY <1>1 DEF HasPlace, Written, GetPath, AmountLists

\* No place is lost.
LEMMA PlaceKept ==
  ASSUME NEW p, NEW path, NEW at, NEW value, HasPlace(p, at)
  PROVE  HasPlace(setPeriodFieldByPath(p, path, value), at)
<1>1. PICK q : q = setPeriodFieldByPath(p, path, value) /\ Written(p, path, value, q)
  BY CorrectionWrites
<1> QED
  BY <1>1 DEF HasPlace, Written, AmountLists


\* Each place of a set of places has a position among them.
LEMMA PositionOfPlace ==
  ASSUME NEW n \in Nat, NEW places \in SUBSET (1 .. n), NEW i \in places
  PROVE  PositionIn(places, i) \in 1 .. Cardinality(places)
<1> DEFINE upTo == {j \in places : j <= i}
<1>1. IsFiniteSet(places)
  <2>1. IsFiniteSet(1 .. n)
    BY FS_Interval
  <2> QED
    BY <2>1, FS_Subset
<1>2. Cardinality(upTo) <= Cardinality(places) /\ IsFiniteSet(upTo)
  BY <1>1, FS_Subset
<1>3. i \in upTo
  OBVIOUS
<1>4. Cardinality(upTo) # 0 /\ Cardinality(upTo) \in Nat
  BY <1>2, <1>3, FS_EmptySet, FS_CardinalityType
<1>5. Cardinality(places) \in Nat
  BY <1>1, FS_CardinalityType
<1> QED
  BY <1>2, <1>4, <1>5 DEF PositionIn

\* The lists of an extraction are as long as those of the facts, and its net lines of a kind.
LEMMA ExtractionLists ==
  ASSUME NEW facts, IsReading(facts), NEW x, x = payslipFactsToTierCExtraction(facts)
  PROVE  /\ DOMAIN x.hours = DOMAIN facts.hours
         /\ DOMAIN x.net_lines = DOMAIN facts.net_lines
         /\ \A i \in DOMAIN x.net_lines : x.net_lines[i].reimbursement \in BOOLEAN
         /\ DOMAIN x.adjustments = DOMAIN facts.adjustments
<1>1. PICK hours : hours = ZeroFilled(facts.hours)
  OBVIOUS
<1>2. PICK lines : lines = ZeroFilled(facts.net_lines)
  OBVIOUS
<1>3. PICK adjustments : adjustments = Values(facts.adjustments)
  OBVIOUS
<1>4. PICK reimbursements : reimbursements = Values(facts.reimbursements)
  OBVIOUS
<1>5. x = [facts EXCEPT !.hours = hours, !.net_lines = lines, !.adjustments = adjustments, !.reimbursements = reimbursements]
  BY <1>1, <1>2, <1>3, <1>4, Zenon DEF payslipFactsToTierCExtraction
<1>6. x.hours = hours /\ x.net_lines = lines /\ x.adjustments = adjustments
  BY <1>5 DEF IsReading
<1>7. DOMAIN hours = DOMAIN facts.hours /\ DOMAIN lines = DOMAIN facts.net_lines /\ DOMAIN adjustments = DOMAIN facts.adjustments
  BY <1>1, <1>2, <1>3 DEF ZeroFilled, Values
<1>8. ASSUME NEW i \in DOMAIN lines
      PROVE  lines[i].reimbursement \in BOOLEAN
  <2>1. PICK line : line = facts.net_lines[i]
    OBVIOUS
  <2>2. line \in [amount : Amounts, reimbursement : BOOLEAN]
    <3>1. PICK kinds : kinds = [amount : Amounts, reimbursement : BOOLEAN]
      OBVIOUS
    <3>2. PICK all : all = facts.net_lines
      OBVIOUS
    <3>3. all \in Seq(kinds)
      BY <3>1, <3>2 DEF IsReading
    <3>4. i \in DOMAIN all
      BY <1>7, <1>8, <3>2
    <3>5. all[i] \in kinds
      BY <3>3, <3>4
    <3> QED
      BY <2>1, <3>1, <3>2, <3>5
  <2>3. PICK zero : zero = amountOrZero(line.amount)
    OBVIOUS
  <2>4. lines[i] = [line EXCEPT !.amount = zero]
    BY <1>2, <1>7, <1>8, <2>1, <2>3 DEF ZeroFilled
  <2> QED
    BY <2>1, <2>2, <2>4
<1> QED
  BY <1>6, <1>7, <1>8

\* The lists of a period are as long as those of the extraction; the net lines are split by their kind.
LEMMA PeriodLists ==
  ASSUME NEW x, NEW p, p = mapExtractionToPeriod(x)
  PROVE  /\ {"hour_lines", "additions", "deductions", "adjustments"} \subseteq DOMAIN p
         /\ DOMAIN p.hour_lines = DOMAIN x.hours
         /\ \A i \in DOMAIN p.hour_lines : "amount" \in DOMAIN p.hour_lines[i]
         /\ DOMAIN p.additions = 1 .. Cardinality(PlacesOf(x.net_lines, TRUE))
         /\ DOMAIN p.deductions = 1 .. Cardinality(PlacesOf(x.net_lines, FALSE))
         /\ DOMAIN p.adjustments = DOMAIN x.adjustments
<1> DEFINE exchange == resolveEtExchangeAmount(x)
           wage == SelectSeq(x.pre_tax, LAMBDA line : ~line.et)
           lines == [i \in DOMAIN x.hours |-> [amount |-> x.hours[i].amount, bt |-> x.hours[i].bt]]
           preTax == [i \in DOMAIN wage |-> normalizeDeductionAmount(wage[i])]
           postTax == [i \in DOMAIN x.post_tax |-> normalizeDeductionAmount(x.post_tax[i])]
           et == IF exchange = {} /\ x.reimbursements = <<>> THEN {}
                 ELSE {[exchange |-> amountOrZero(exchange), reimbursements |-> x.reimbursements]}
           m == [hour_lines |-> lines, pre_tax |-> preTax, post_tax |-> postTax,
                 additions |-> AmountOf(NetLines(x.net_lines, TRUE)), deductions |-> AmountOf(NetLines(x.net_lines, FALSE)),
                 adjustments |-> x.adjustments, et |-> et, bt_percent |-> x.bt_percent, gross |-> x.gross, lvh |-> x.lvh,
                 table_tax |-> x.table_tax, bt_tax |-> x.bt_tax, normal |-> x.normal, special |-> x.special,
                 net |-> x.net, payout |-> x.payout, dates |-> x.dates]
<1>1. p = normalizePeriodSigns(m)
  BY Zenon DEF mapExtractionToPeriod
<1>8. /\ {"hour_lines", "additions", "deductions", "adjustments"} \subseteq DOMAIN m
      /\ m.hour_lines = lines /\ m.adjustments = x.adjustments
      /\ m.additions = AmountOf(NetLines(x.net_lines, TRUE))
      /\ m.deductions = AmountOf(NetLines(x.net_lines, FALSE))
  BY DEF m
<1> HIDE DEF m
<1>2. PICK additions : additions = Magnitudes(m.additions)
  OBVIOUS
<1>3. PICK deductions : deductions = Magnitudes(m.deductions)
  OBVIOUS
<1>4. /\ DOMAIN p = DOMAIN m
      /\ p.hour_lines = m.hour_lines /\ p.adjustments = m.adjustments
      /\ p.additions = additions /\ p.deductions = deductions
  <2>1. PICK ets : ets = {[exchange |-> Magnitude(e.exchange), reimbursements |-> Magnitudes(e.reimbursements)] : e \in m.et}
    OBVIOUS
  <2>2. PICK g, l, t, b, n, s : /\ g = MagnitudeOrNone(m.gross) /\ l = MagnitudeOrNone(m.lvh) /\ t = MagnitudeOrNone(m.table_tax)
                                /\ b = MagnitudeOrNone(m.bt_tax) /\ n = MagnitudeOrNone(m.normal) /\ s = MagnitudeOrNone(m.special)
    OBVIOUS
  <2>3. p = [m EXCEPT !.additions = additions, !.deductions = deductions, !.et = ets, !.gross = g, !.lvh = l, !.table_tax = t,
                      !.bt_tax = b, !.normal = n, !.special = s]
    BY <1>1, <1>2, <1>3, <2>1, <2>2, Zenon DEF normalizePeriodSigns
  <2> QED
    BY <1>8, <2>3
<1>5. DOMAIN additions = 1 .. Cardinality(PlacesOf(x.net_lines, TRUE))
  BY <1>2, <1>8 DEF Magnitudes, AmountOf, NetLines
<1>6. DOMAIN deductions = 1 .. Cardinality(PlacesOf(x.net_lines, FALSE))
  BY <1>3, <1>8 DEF Magnitudes, AmountOf, NetLines
<1> QED
  BY <1>4, <1>5, <1>6, <1>8

\* Every unread amount a correction can set has its place in the period.
LEMMA UnreadHasPlace ==
  ASSUME NEW facts, IsReading(facts), NEW path \in UnreadPaths(facts), path[1] # "reimbursements"
  PROVE  HasPlace(PeriodOf(facts), path)
<1>1. PICK x : x = payslipFactsToTierCExtraction(facts)
  OBVIOUS
<1>2. PICK p : p = mapExtractionToPeriod(x) /\ p = PeriodOf(facts)
  BY <1>1 DEF PeriodOf
<1>3. PICK field \in unreadable_amount_fields(facts) : path = remapUnreadableFieldToPeriodPath(field, x)
  BY <1>1 DEF UnreadPaths
<1>4. /\ DOMAIN x.hours = DOMAIN facts.hours
      /\ DOMAIN x.net_lines = DOMAIN facts.net_lines
      /\ \A i \in DOMAIN x.net_lines : x.net_lines[i].reimbursement \in BOOLEAN
      /\ DOMAIN x.adjustments = DOMAIN facts.adjustments
  BY <1>1, ExtractionLists
<1>5. /\ {"hour_lines", "additions", "deductions", "adjustments"} \subseteq DOMAIN p
      /\ DOMAIN p.hour_lines = DOMAIN x.hours
      /\ \A i \in DOMAIN p.hour_lines : "amount" \in DOMAIN p.hour_lines[i]
      /\ DOMAIN p.additions = 1 .. Cardinality(PlacesOf(x.net_lines, TRUE))
      /\ DOMAIN p.deductions = 1 .. Cardinality(PlacesOf(x.net_lines, FALSE))
      /\ DOMAIN p.adjustments = DOMAIN x.adjustments
  BY <1>2, PeriodLists
<1>6. CASE field \in UnreadIn("hour_lines", AmountOf(facts.hours))
  <2>1. PICK i \in DOMAIN facts.hours : field = <<"hour_lines", i>>
    BY <1>6 DEF UnreadIn, AmountOf
  <2>2. path = <<"hour_lines", i>>
    BY <1>3, <2>1 DEF remapUnreadableFieldToPeriodPath
  <2> QED
    BY <1>2, <1>4, <1>5, <2>2 DEF HasPlace, AmountLists
<1>7. CASE field \in UnreadIn("adjustments", facts.adjustments)
  <2>1. PICK i \in DOMAIN facts.adjustments : field = <<"adjustments", i>>
    BY <1>7 DEF UnreadIn
  <2>2. path = <<"adjustments", i>>
    BY <1>3, <2>1 DEF remapUnreadableFieldToPeriodPath
  <2> QED
    BY <1>2, <1>4, <1>5, <2>2 DEF HasPlace, AmountLists
<1>8. CASE field \in UnreadIn("reimbursements", facts.reimbursements)
  <2>1. PICK i \in DOMAIN facts.reimbursements : field = <<"reimbursements", i>>
    BY <1>8 DEF UnreadIn
  <2> QED
    BY <1>3, <2>1 DEF remapUnreadableFieldToPeriodPath
<1>9. CASE field \in UnreadIn("net_lines", AmountOf(facts.net_lines))
  <2>1. PICK i \in DOMAIN facts.net_lines : field = <<"net_lines", i>>
    BY <1>9 DEF UnreadIn, AmountOf
  <2>2. PICK kind \in BOOLEAN : kind = x.net_lines[i].reimbursement
    BY <1>4
  <2>3. PICK places : places = PlacesOf(x.net_lines, kind)
    OBVIOUS
  <2>4. i \in places
    BY <1>4, <2>2, <2>3 DEF PlacesOf
  <2>5. PICK n \in Nat : DOMAIN x.net_lines = 1 .. n
    BY <1>4 DEF IsReading
  <2>6. places \in SUBSET (1 .. n)
    BY <2>3, <2>5 DEF PlacesOf
  <2>7. PositionIn(places, i) \in 1 .. Cardinality(places)
    BY <2>4, <2>6, PositionOfPlace
  <2>8. path = <<IF kind THEN "additions" ELSE "deductions", PositionIn(places, i)>>
    BY <1>3, <2>1, <2>2, <2>3 DEF remapUnreadableFieldToPeriodPath
  <2>9. CASE kind = TRUE
    BY <1>2, <1>5, <2>3, <2>7, <2>8, <2>9 DEF HasPlace, AmountLists
  <2>10. CASE kind = FALSE
    BY <1>2, <1>5, <2>3, <2>7, <2>8, <2>10 DEF HasPlace, AmountLists
  <2> QED
    BY <2>9, <2>10
<1> QED
  BY <1>6, <1>7, <1>8, <1>9 DEF unreadable_amount_fields


\* A review is of the period it was asked of, and lists what it was given to list.
LEMMA ReviewedShape ==
  ASSUME NEW p, NEW dates, NEW more
  PROVE  /\ {"period", "issues"} \subseteq DOMAIN Reviewed(p, dates, more)
         /\ Reviewed(p, dates, more).period = p
         /\ more \subseteq Reviewed(p, dates, more).issues
<1>1. PICK found, issues :
           Reviewed(p, dates, more) = [period |-> p, discrepancies |-> found, issues |-> more \cup issues]
  BY Zenon DEF Reviewed, The
<1> QED
  BY <1>1

\* The replay leaves a review: every unread amount has its place in the period, and is called unread.
LEMMA ReplayReviews ==
  ASSUME ReviewInv, ReplayPayslip
  PROVE  ReviewInv'
<1>1. UNCHANGED <<document, factsRead, corrections>> /\ phase = "reading" /\ corrections = {}
  BY DEF ReplayPayslip, ReviewInv
<1>2. IsReading(factsRead)
  BY ReadingsAssumption DEF ReviewInv
<1>3. CASE phase' = "unavailable" /\ UNCHANGED analysis
  BY <1>1, <1>3 DEF ReviewInv
<1>4. CASE phase' = "ok" /\ phase' # "unavailable"
  <2>1. PICK gaps : /\ {Unreadable(path) : path \in UnreadPaths(factsRead)} \subseteq gaps
                    /\ analysis' = Reviewed(PeriodOf(factsRead), factsRead.dates, gaps)
    BY <1>4 DEF ReplayPayslip
  <2>2. /\ {"period", "issues"} \subseteq DOMAIN analysis'
        /\ analysis'.period = PeriodOf(factsRead)
        /\ gaps \subseteq analysis'.issues
    BY <2>1, ReviewedShape
  <2>3. IsReview(document, factsRead, analysis')
    BY <1>2, <2>1, <2>2, UnreadHasPlace DEF IsReview, LastingPaths
  <2> QED
    BY <1>1, <1>4, <2>3 DEF ReviewInv
<1> QED
  BY <1>3, <1>4 DEF ReplayPayslip

\* A correction begun is a correction in flight: it writes what is printed at its path, and lists the others.
LEMMA BeginCorrects ==
  ASSUME ReviewInv, NEW issue \in analysis.issues, BeginCorrection(issue)
  PROVE  ReviewInv'
<1>1. UNCHANGED <<document, factsRead, phase, analysis, confirmed>>
  BY DEF BeginCorrection
<1>2. phase = "ok" /\ IsReview(document, factsRead, analysis)
  BY DEF ReviewInv, NoAnalysis
<1> DEFINE path == correctableFieldPath(issue)
           except == IF issue.code = "amount_unreadable" THEN issue.field ELSE NoPath
<1>3. PICK value \in GetPath(PeriodOf(document), path) :
        corrections' = corrections \cup
          {[issue |-> issue, path |-> path, value |-> value, of |-> analysis,
            period |-> setPeriodFieldByPath(analysis.period, path, value), flagged |-> Outstanding(analysis.issues, except)]}
  BY Zenon DEF BeginCorrection
<1>4. PICK c : c = [issue |-> issue, path |-> path, value |-> value, of |-> analysis,
                    period |-> setPeriodFieldByPath(analysis.period, path, value),
                    flagged |-> Outstanding(analysis.issues, except)]
  OBVIOUS
<1>5. /\ c.issue = issue /\ c.of = analysis /\ c.flagged = Outstanding(analysis.issues, except)
      /\ c.period = setPeriodFieldByPath(analysis.period, path, value)
  BY <1>4
<1>6. corrections' = corrections \cup {c}
  BY <1>3, <1>4, Zenon
<1>7. ASSUME NEW at \in LastingPaths(factsRead)
      PROVE  /\ HasPlace(c.period, at)
             /\ Unreadable(at) \in c.of.issues \ {c.issue} \/ AsPrinted(document, c.period, at)
             /\ c.flagged = {} => AsPrinted(document, c.period, at)
  <2>1. HasPlace(analysis.period, at)
    BY <1>2 DEF IsReview
  <2>2. HasPlace(c.period, at)
    BY <1>5, <2>1, PlaceKept
  <2>3. CASE path[1] = at[1] /\ path[2] = at[2]
    <3>1. GetPath(c.period, at) = {value}
      BY <1>5, <2>1, <2>3, PathWritten
    <3>2. GetPath(PeriodOf(document), at) = GetPath(PeriodOf(document), path)
      BY <2>3 DEF GetPath
    <3>3. GetPath(PeriodOf(document), at) = {value}
      BY <1>3, <2>1, <3>2 DEF GetPath, HasPlace
    <3> QED
      BY <2>2, <3>1, <3>3 DEF AsPrinted
  <2>4. CASE ~(path[1] = at[1] /\ path[2] = at[2])
    <3>1. GetPath(c.period, at) = GetPath(analysis.period, at)
      BY <1>5, <2>1, <2>4, PathKept
    <3>2. CASE AsPrinted(document, analysis.period, at)
      BY <2>2, <3>1, <3>2 DEF AsPrinted
    <3>3. CASE Unreadable(at) \in analysis.issues
      <4>1. Unreadable(at).code = "amount_unreadable" /\ Unreadable(at).field = at
        BY DEF Unreadable
      <4>2. Unreadable(at) # issue
        BY <2>4, <4>1 DEF correctableFieldPath, FigurePath
      <4>3. at # except
        BY <2>1, <2>4 DEF correctableFieldPath, FigurePath, NoPath, HasPlace, AmountLists
      <4>4. at \in Outstanding(analysis.issues, except)
        BY <3>3, <4>1, <4>3 DEF Outstanding
      <4> QED
        BY <1>5, <2>2, <3>3, <4>2, <4>4
    <3> QED
      BY <1>2, <3>2, <3>3 DEF IsReview
  <2> QED
    BY <2>3, <2>4
<1>8. IsCorrection(document, factsRead, c)
  BY <1>2, <1>5, <1>7 DEF IsCorrection
<1> QED
  BY <1>1, <1>2, <1>6, <1>8 DEF ReviewInv

\* The answer that amounts are still unread leaves a review.
LEMMA UnreliableReviews ==
  ASSUME ReviewInv, NEW c, AnswerUnreliable(c)
  PROVE  ReviewInv'
<1>1. /\ c \in corrections /\ corrections' = corrections \ {c}
      /\ UNCHANGED <<document, factsRead, phase, confirmed>>
  BY DEF AnswerUnreliable
<1>2. IsCorrection(document, factsRead, c) /\ phase = "ok"
  BY <1>1 DEF ReviewInv
<1>3. PICK a : a = c.of
  OBVIOUS
<1>4. PICK issues : issues = a.issues \ {c.issue}
  OBVIOUS
<1>5. PICK p : p = c.period
  OBVIOUS
<1>6. analysis' = [a EXCEPT !.period = p, !.issues = issues]
  BY <1>3, <1>4, <1>5, Zenon DEF AnswerUnreliable
<1>7. {"period", "issues"} \subseteq DOMAIN a
  BY <1>2, <1>3 DEF IsCorrection, IsReview
<1>8. {"period", "issues"} \subseteq DOMAIN analysis' /\ analysis'.period = p /\ analysis'.issues = issues
  BY <1>6, <1>7
<1>9. IsReview(document, factsRead, analysis')
  BY <1>2, <1>3, <1>4, <1>5, <1>8 DEF IsReview, IsCorrection
<1> QED
  BY <1>1, <1>2, <1>9 DEF ReviewInv

\* The answer that computes and checks anew leaves a review of a period that is as printed.
LEMMA OkReviews ==
  ASSUME ReviewInv, NEW c, AnswerOk(c)
  PROVE  ReviewInv'
<1>1. /\ c \in corrections /\ corrections' = corrections \ {c} /\ c.flagged = {}
      /\ UNCHANGED <<document, factsRead, phase>>
  BY DEF AnswerOk
<1>2. IsCorrection(document, factsRead, c) /\ phase = "ok"
  BY <1>1 DEF ReviewInv
<1>3. PICK dates : analysis' = Reviewed(c.period, dates, {})
  BY DEF AnswerOk
<1>4. {"period", "issues"} \subseteq DOMAIN analysis' /\ analysis'.period = c.period
  BY <1>3, ReviewedShape
<1>5. IsReview(document, factsRead, analysis')
  BY <1>1, <1>2, <1>4 DEF IsReview, IsCorrection
<1> QED
  BY <1>1, <1>2, <1>5 DEF ReviewInv

\* Every step keeps the reviews.
LEMMA ReviewStep ==
  ASSUME ReviewInv, [ReviewNext]_reviewVars
  PROVE  ReviewInv'
<1>1. CASE ReplayPayslip
  BY <1>1, ReplayReviews
<1>2. CASE ReplayFails
  BY <1>2 DEF ReplayFails, ReviewInv
<1>3. ASSUME NEW issue \in analysis.issues, Confirm(issue)
      PROVE  ReviewInv'
  BY <1>3 DEF Confirm, ReviewInv
<1>4. ASSUME NEW issue \in analysis.issues, BeginCorrection(issue)
      PROVE  ReviewInv'
  BY <1>4, BeginCorrects
<1>5. ASSUME NEW c, AnswerUnreliable(c)
      PROVE  ReviewInv'
  BY <1>5, UnreliableReviews
<1>6. ASSUME NEW c, AnswerOk(c)
      PROVE  ReviewInv'
  BY <1>6, OkReviews
<1>7. ASSUME NEW c, CorrectionFails(c)
      PROVE  ReviewInv'
  BY <1>7 DEF CorrectionFails, ReviewInv
<1>8. CASE UNCHANGED reviewVars
  BY <1>8 DEF reviewVars, ReviewInv
<1> QED
  BY <1>1, <1>2, <1>3, <1>4, <1>5, <1>6, <1>7, <1>8 DEF ReviewNext

\* What the reviews keep is the property.
LEMMA ReviewOpens == ReviewInv => UnreadStaysOpen
  BY DEF ReviewInv, IsReview, LastingPaths, AsPrinted, UnreadStaysOpen, TruePeriod

\* An amount that was not read stays open until what is printed is in its place, in whatever order corrections begin,
\* are answered and fail.
THEOREM StaysOpen == ReviewSpec => []UnreadStaysOpen
<1>1. ReviewInit => ReviewInv
  BY DEF ReviewInit, ReviewInv
<1> QED
  BY <1>1, ReviewStep, ReviewOpens, PTL DEF ReviewSpec

==============================================================================
