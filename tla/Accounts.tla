------------------------------ MODULE Accounts ------------------------------
(***************************************************************************)
(* Accounts and stored payslips: signing in by a mailed link               *)
(* (controllers/auth.controller.ts, auth.ts), the rows of the payslips     *)
(* table with their analyses (controllers/payslip.controller.ts), and the  *)
(* nightly clean-up (controllers/maintenance.controller.ts), as the page   *)
(* App.tsx uses them.                                                      *)
(*                                                                         *)
(* Every await of a handler separates two steps: a request that waits for  *)
(* its next statement is a record of `requests', and requests of one       *)
(* browser or of several take turns as they like.  Any statement, and the  *)
(* mail service, may fail; the handler's catch then ends the request and   *)
(* what was written before stays.  Tokens are numbers, never reused.       *)
(***************************************************************************)
EXTENDS Naturals, FiniteSets

CONSTANTS
  Browsers, Emails,
  Cooldown, LinkLife, SessionLife,   \* RESEND_COOLDOWN_SECONDS, MAGIC_LINK_MINUTES, SESSION_DAYS
  ShortRetention, LongRetention,     \* 24 hours for nobody's rows, one year for a user's
  Horizon, MaxLinks, MaxSessions, MaxRows, MaxRequests   \* bounds: the clock, the rows, the requests at once

ASSUME TimesAssumption == {Cooldown, LinkLife, SessionLife, ShortRetention, LongRetention} \subseteq Nat
ASSUME RequestsAssumption == MaxRequests \in Nat

VARIABLES
  now,        \* the database clock
  links,      \* magic_links: id, email, created, expires, used
  mails,      \* ids of the links that reached their address
  users,      \* users, by e-mail
  sessions,   \* auth_sessions: token, email, expires, link (the link that opened it)
  payslips,   \* payslips: id, owner, created, until, status
  analyses,   \* analyses with their payslip_fields: payslip, status
  cookie,     \* [browser -> the session token it holds]
  page,       \* [browser -> the user its page shows]
  requests    \* requests waiting for their next statement

vars == <<now, links, mails, users, sessions, payslips, analyses, cookie, page, requests>>
authTables == <<links, mails, users, sessions>>
payslipTables == <<payslips, analyses>>
browserState == <<cookie, page>>

NoUser == "none"
NoToken == 0

Ids(rows) == {r.id : r \in rows}
LinkOf(id) == CHOOSE l \in links : l.id = id

\* The rows of the tables.
FreshLink == CHOOSE id \in 1..MaxLinks : id \notin Ids(links)
MagicLink(email) ==
  [id |-> FreshLink, email |-> email, created |-> now, expires |-> now + LinkLife, used |-> FALSE]
AuthSession(token, link) ==
  [token |-> token, email |-> LinkOf(link).email, expires |-> now + SessionLife, link |-> link]
PayslipRow(id, owner, life) ==
  [id |-> id, owner |-> owner, created |-> now, until |-> now + life, status |-> "manual_review"]
AnalysisRow(p, status) == [payslip |-> p.id, status |-> status]

\* currentUser: the user of the session the cookie names, while it lives.
UserOf(b) == {s.email : s \in {x \in sessions : x.token = cookie[b] /\ now < x.expires}}

\* slot tells requests apart that ask for the same.
Copy(r, n) == [r EXCEPT !.slot = n]
Start(r) ==
  /\ Cardinality(requests) < MaxRequests
  /\ requests' = requests \cup {Copy(r, CHOOSE n \in 1..MaxRequests : Copy(r, n) \notin requests /\ \A m \in 1..(n - 1) : Copy(r, m) \in requests)}
Goes(r, s) == requests' = (requests \ {r}) \cup {Copy(s, r.slot)}
Ends(r) == requests' = requests \ {r}

-----------------------------------------------------------------------------
(* POST /session *)

Waiting(email) == {l \in links : l.email = email /\ ~l.used}

\* Mutant of Recent: the comparison with the cooldown is turned round.
RecentReversed(email) == {l \in Waiting(email) : now - l.created > Cooldown}

Recent(email) == {l \in Waiting(email) : now - l.created < Cooldown}

Asking(email) == [slot |-> 0, op |-> "ask", step |-> "store", email |-> email]

\* No link of the last minute is waiting: one will be stored.  Otherwise the
\* answer is "sent" and nothing happens, whether or not that mail ever left.
AskLink(email) ==
  /\ Recent(email) = {}
  /\ Start(Asking(email))
  /\ UNCHANGED <<now, authTables, payslipTables, browserState>>

StoreLink(r) ==
  /\ r.op = "ask" /\ r.step = "store" /\ \E id \in 1..MaxLinks : id \notin Ids(links)
  /\ links' = links \cup {MagicLink(r.email)}
  /\ Goes(r, [slot |-> 0, op |-> "ask", step |-> "mail", link |-> FreshLink])
  /\ UNCHANGED <<now, mails, users, sessions, payslipTables, browserState>>

SendMail(r) ==
  /\ r.op = "ask" /\ r.step = "mail"
  /\ mails' = mails \cup {r.link}
  /\ Ends(r)
  /\ UNCHANGED <<now, links, users, sessions, payslipTables, browserState>>

-----------------------------------------------------------------------------
(* GET /verify *)

Usable(l) == ~l.used /\ now < l.expires
Verifying(step, b, id) == [slot |-> 0, op |-> "verify", step |-> step, browser |-> b, link |-> id]

\* Somebody opens a mailed link: the link is read.  A used or expired one is
\* redirected away.
OpenLink(b, id) ==
  /\ id \in mails /\ Usable(LinkOf(id))
  /\ Start(Verifying("use", b, id))
  /\ UNCHANGED <<now, authTables, payslipTables, browserState>>

\* Mutant of UseLink: the statement that marks the link is forgotten.
UseLinkUnmarked(r) ==
  /\ r.op = "verify" /\ r.step = "use"
  /\ Goes(r, Verifying("user", r.browser, r.link))
  /\ UNCHANGED <<now, authTables, payslipTables, browserState>>

UseLink(r) ==
  /\ r.op = "verify" /\ r.step = "use"
  /\ links' = {IF l.id = r.link THEN [l EXCEPT !.used = TRUE] ELSE l : l \in links}
  /\ Goes(r, Verifying("user", r.browser, r.link))
  /\ UNCHANGED <<now, mails, users, sessions, payslipTables, browserState>>

UpsertUser(r) ==
  /\ r.op = "verify" /\ r.step = "user"
  /\ users' = users \cup {LinkOf(r.link).email}
  /\ Goes(r, Verifying("session", r.browser, r.link))
  /\ UNCHANGED <<now, links, mails, sessions, payslipTables, browserState>>

\* createSession; the redirect loads the page anew.
CreateSession(r) ==
  /\ r.op = "verify" /\ r.step = "session" /\ Cardinality(sessions) < MaxSessions
  /\ \E token \in 1..MaxSessions \ ({s.token : s \in sessions} \cup {cookie[b] : b \in Browsers}) :
       /\ sessions' = sessions \cup {AuthSession(token, r.link)}
       /\ cookie' = [cookie EXCEPT ![r.browser] = token]
  /\ page' = [page EXCEPT ![r.browser] = NoUser]
  /\ Ends(r)
  /\ UNCHANGED <<now, links, mails, users, payslipTables>>

-----------------------------------------------------------------------------
(* The page: who is signed in, signing out, deleting the data.  The history   *)
(* it lists is read from the rows and changes nothing.                       *)

\* GET /me, when the page is loaded.
Me(b) ==
  /\ page' = [page EXCEPT ![b] = IF UserOf(b) = {} THEN NoUser ELSE CHOOSE e \in UserOf(b) : TRUE]
  /\ UNCHANGED <<now, authTables, payslipTables, cookie, requests>>

\* DELETE /session.  The page forgets its user whatever the answer.
logout(b, deleted) ==
  /\ page[b] # NoUser
  /\ IF deleted
     THEN sessions' = {s \in sessions : s.token # cookie[b]} /\ cookie' = [cookie EXCEPT ![b] = NoToken]
     ELSE UNCHANGED <<sessions, cookie>>
  /\ page' = [page EXCEPT ![b] = NoUser]
  /\ UNCHANGED <<now, links, mails, users, payslipTables, requests>>

\* DELETE /me/data: requireUser, then the rows.
deleteMyData(b) ==
  /\ page[b] # NoUser /\ UserOf(b) # {}
  /\ Start([slot |-> 0, op |-> "delete", step |-> "rows", owner |-> CHOOSE e \in UserOf(b) : TRUE])
  /\ UNCHANGED <<now, authTables, payslipTables, browserState>>

DropPayslips(rows) ==
  /\ payslips' = payslips \ rows
  /\ analyses' = {a \in analyses : a.payslip \notin Ids(rows)}   \* ON DELETE CASCADE

DeleteRows(r) ==
  /\ r.op = "delete"
  /\ DropPayslips({p \in payslips : p.owner = r.owner})
  /\ Ends(r)
  /\ UNCHANGED <<now, authTables, browserState>>

-----------------------------------------------------------------------------
(* POST /draft, /upload and /analyze *)

\* currentUser; nobody's row when nobody is signed in.
Upload(b) ==
  /\ Start([slot |-> 0, op |-> "upload", step |-> "row", owner |-> IF UserOf(b) = {} THEN NoUser ELSE CHOOSE e \in UserOf(b) : TRUE])
  /\ UNCHANGED <<now, authTables, payslipTables, browserState>>

Retention(owner) == IF owner = NoUser THEN ShortRetention ELSE LongRetention

StoreRow(r) ==
  /\ r.op = "upload"
  /\ \E id \in 1..MaxRows \ Ids(payslips) :
       payslips' = payslips \cup {PayslipRow(id, r.owner, Retention(r.owner))}
  /\ Ends(r)
  /\ UNCHANGED <<now, authTables, analyses, browserState>>

\* Mutant of analyze: the status is written although the analysis is not.
analyzeHalf(p, status) ==
  /\ payslips' = (payslips \ {p}) \cup {[p EXCEPT !.status = status]}
  /\ \/ analyses' = analyses \cup {AnalysisRow(p, status)}
     \/ UNCHANGED analyses
  /\ UNCHANGED <<now, authTables, browserState, requests>>

\* One transaction: the fields, the analysis and the status of the row are
\* written together or (the row is gone, a statement fails) not at all.
\* Of two at once the later commit sets the status, while created_at, by which
\* the history chooses, is when the transaction began: either may be the newer.
analyze(p, status) ==
  /\ payslips' = (payslips \ {p}) \cup {[p EXCEPT !.status = status]}
  /\ analyses' = analyses \cup {AnalysisRow(p, status)}
  /\ UNCHANGED <<now, authTables, browserState, requests>>

-----------------------------------------------------------------------------
(* The nightly clean-up, failures and time *)

\* Mutant of Expired: whatever nobody owns is never looked at.
ExpiredOwned == {p \in payslips : p.until < now /\ p.owner # NoUser}

Expired == {p \in payslips : p.until < now}

CleanupExpired ==
  /\ Expired # {}
  /\ DropPayslips(Expired)
  /\ UNCHANGED <<now, authTables, browserState, requests>>

\* A statement or the mail service fails: the catch answers and the request
\* ends where it was.
Fails(r) ==
  /\ Ends(r)
  /\ UNCHANGED <<now, authTables, payslipTables, browserState>>

Tick ==
  /\ now < Horizon /\ now' = now + 1
  /\ UNCHANGED <<authTables, payslipTables, browserState, requests>>

-----------------------------------------------------------------------------

Init ==
  /\ now = 0 /\ links = {} /\ mails = {} /\ users = {} /\ sessions = {} /\ payslips = {} /\ analyses = {} /\ requests = {}
  /\ cookie = [b \in Browsers |-> NoToken] /\ page = [b \in Browsers |-> NoUser]

SignIn ==
  \/ \E e \in Emails : AskLink(e)
  \/ \E b \in Browsers, id \in mails : OpenLink(b, id)
  \/ \E r \in requests : StoreLink(r) \/ SendMail(r) \/ UseLink(r) \/ UpsertUser(r) \/ CreateSession(r)

Page == \E b \in Browsers : Me(b) \/ (\E deleted \in BOOLEAN : logout(b, deleted)) \/ deleteMyData(b) \/ Upload(b)

Rows ==
  \/ \E r \in requests : DeleteRows(r) \/ StoreRow(r)
  \/ \E p \in payslips, status \in {"consistent", "attention"} : analyze(p, status)

Next == SignIn \/ Page \/ Rows \/ CleanupExpired \/ Tick \/ \E r \in requests : Fails(r)

\* The cron job is run every night; a night it fails is followed by another.
Spec == Init /\ [][Next]_vars /\ WF_vars(CleanupExpired)

-----------------------------------------------------------------------------
(* Properties *)

\* Of an address: the unused links of one cooldown, the requests about to store
\* one, and the links that were mailed and used.
Young(email) == {l \in links : l.email = email /\ ~l.used /\ now - l.created < Cooldown}
Storers(email) == {r \in requests : r.op = "ask" /\ r.step = "store" /\ r.email = email}
Spent(email) == {l \in links : l.email = email /\ l.id \in mails /\ l.used}

\* The cooldown of POST /session is read in one statement and the link stored
\* in a later one, so requests that overlap may pass it together.  It holds
\* against all others: the unused links an address got within one cooldown, and
\* those about to be stored for it, are never more than the requests served at
\* once, whatever is stored, mailed, opened or fails in between.
LinksPerCooldown == \A e \in Emails : Cardinality(Young(e)) + Cardinality(Storers(e)) <= MaxRequests

\* Signing in proves the address, and once per link: a session, the user a page
\* shows, the owner of a stored payslip and of one about to be stored or deleted
\* all come from a link that was mailed to that very address and that nobody can
\* open again, however verifications overlap and whichever statement fails.
SignInProved ==
  /\ \A s \in sessions : \E l \in Spent(s.email) : l.id = s.link
  /\ \A b \in Browsers : page[b] # NoUser => Spent(page[b]) # {}
  /\ \A p \in payslips : p.owner # NoUser => Spent(p.owner) # {}
  /\ \A r \in requests : r.op \in {"upload", "delete"} /\ r.owner # NoUser => Spent(r.owner) # {}

\* How long a stored payslip stays (the comment at RETENTION_SQL): it goes only
\* when its owner deletes the data, or when a year since the upload of a user's
\* row, a day since that of nobody's, has passed.  The account page counts from
\* the analysis, which the code does not.
KeptForRetention ==
  [][\A p \in payslips : p.id \notin Ids(payslips') =>
       \/ now > p.created + (IF p.owner = NoUser THEN ShortRetention ELSE LongRetention)
       \/ \E r \in requests \ requests' : r.op = "delete" /\ r.owner = p.owner]_vars

\* An analysis is stored whole: the row it is of is there, and a row says what
\* one of its analyses found, or waits for a review and has none, whichever of
\* upload, analysis, deletion and clean-up came between.
AnalysisWhole ==
  /\ \A a \in analyses : a.payslip \in Ids(payslips)
  /\ \A p \in payslips :
       LET own == {a \in analyses : a.payslip = p.id}
       IN \/ p.status = "manual_review" /\ own = {}
          \/ \E a \in own : a.status = p.status

\* A row past its retention goes, also one that nobody could ever delete.
ExpiredRowsGo == \A id \in 1..MaxRows : (\E p \in payslips : p.id = id /\ p.until < now) ~> (\A p \in payslips : p.id = id => p.until >= now)

-----------------------------------------------------------------------------
(* The inductive invariant of the proofs *)

IsLink(l) ==
  /\ l = [id |-> l.id, email |-> l.email, created |-> l.created, expires |-> l.expires, used |-> l.used]
  /\ l.created \in Nat

\* A link is one row; what was mailed is one of them.
LinkInv ==
  /\ \A l \in links : IsLink(l)
  /\ \A k, l \in links : k.id = l.id => k = l
  /\ mails \subseteq Ids(links)

\* A verification is of a mailed link, which is spent after its first statement.
RequestInv ==
  /\ IsFiniteSet(links) /\ IsFiniteSet(requests) /\ Cardinality(requests) <= MaxRequests
  /\ \A r \in requests :
       /\ r.op = "ask" /\ r.step = "mail" => r.link \in Ids(links)
       /\ r.op = "verify" => r.link \in mails
       /\ r.op = "verify" /\ r.step # "use" => \A l \in links : l.id = r.link => l.used

IsRow(p) ==
  /\ p = [id |-> p.id, owner |-> p.owner, created |-> p.created, until |-> p.until, status |-> p.status]
  /\ p.created \in Nat /\ p.until = p.created + Retention(p.owner)

\* A stored payslip is one row, with the retention of its owner.
RowInv ==
  /\ \A p \in payslips : IsRow(p)
  /\ \A p, q \in payslips : p.id = q.id => p = q

IInv == now \in Nat /\ DOMAIN page = Browsers /\ LinkInv /\ RequestInv /\ RowInv /\ LinksPerCooldown /\ SignInProved /\ AnalysisWhole

=============================================================================
