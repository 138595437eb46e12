---------------------------- MODULE RateLimiter ----------------------------
(***************************************************************************)
(* The fixed-window rate limiter (rate-limiter.ts) in front of every       *)
(* costly route: one row per client key, one atomic UPSERT per request,    *)
(* a table that is created on first need, and what a request is told when  *)
(* the limiter itself cannot be asked.  Requests of several function       *)
(* instances interleave between any two database statements.               *)
(***************************************************************************)
EXTENDS Integers, Sequences

CONSTANTS
  Keys,          \* `${routeName}:${ip}` of one route
  Slots,         \* requests that may be in flight at once
  Limit, Window, \* requests per window; windowSeconds in ticks
  OnUnknown,     \* "allow" or "deny"
  MaxTime,       \* bound: the clock
  MaxCount       \* bound: a count beyond the limit stops here

ASSUME LimiterAssumption ==
  /\ Keys # {}
  /\ Limit \in Nat \ {0} /\ Window \in Nat \ {0} /\ MaxTime \in Nat /\ MaxCount \in Nat /\ Limit < MaxCount
  /\ OnUnknown \in {"allow", "deny"}

VARIABLES
  clock,
  created,       \* the rate_limits table exists
  rows,          \* its row of each key
  reqs,          \* the requests in the middleware, and what the finished ones were told
  passed,        \* requests of each key let through by count since its window started (history)
  grants         \* of each of them, in order: when it passed and when its window had started (history)

vars == <<clock, created, rows, reqs, passed, grants>>

NoRow == [start |-> 0, count |-> 0]      \* no row yet; a stored row counts at least 1

Idle == [pc |-> "idle", key |-> CHOOSE k \in Keys : TRUE, counted |-> FALSE, failed |-> FALSE,
         told |-> "nothing"]

Request == [pc : {"idle", "check", "heal", "retry"},
            key : Keys,
            counted : BOOLEAN,           \* one of its UPSERTs was committed
            failed : BOOLEAN,            \* one of its statements failed (history)
            told : {"nothing", "next", "429", "503"}]

Grant == [at : 0 .. MaxTime, window : 0 .. MaxTime]

Init ==
  /\ clock = 0
  /\ created \in BOOLEAN
  /\ rows = [k \in Keys |-> NoRow]
  /\ reqs = [q \in Slots |-> Idle]
  /\ passed = [k \in Keys |-> 0]
  /\ grants = [k \in Keys |-> <<>>]

-----------------------------------------------------------------------------
(* runRateLimitQuery *)

\* Mutant of Expired: every tick is a window of its own.
ExpiredAtOnce(row) == row.start < clock

\* The window of this row is over (strictly: a request exactly one window later still counts).
Expired(row) == row.start < clock - Window

\* Mutant of Upserted: a new window goes on counting from the old one.
UpsertedOnOldCount(row) ==
  IF row = NoRow THEN [start |-> clock, count |-> 1]
  ELSE [start |-> IF Expired(row) THEN clock ELSE row.start,
        count |-> IF row.count < MaxCount THEN row.count + 1 ELSE row.count]

\* The row after INSERT ... ON CONFLICT DO UPDATE.
Upserted(row) ==
  IF row = NoRow \/ Expired(row) THEN [start |-> clock, count |-> 1]
  ELSE [row EXCEPT !.count = IF @ < MaxCount THEN @ + 1 ELSE @]

Commit(key) == rows' = [rows EXCEPT ![key] = Upserted(@)]

\* How many passed in the window the row is in after this UPSERT, before this request.
PassedBefore(key) == IF Upserted(rows[key]).count = 1 THEN 0 ELSE passed[key]

-----------------------------------------------------------------------------
(* checkRateLimit and ipRateLimit *)

Tell(q, told, counted, failed) ==
  reqs' = [reqs EXCEPT ![q] = [Idle EXCEPT !.key = reqs[q].key, !.told = told,
                                           !.counted = counted, !.failed = failed]]

Arrive(q, k) ==
  /\ reqs[q].pc = "idle"
  /\ reqs' = [reqs EXCEPT ![q] = [Idle EXCEPT !.pc = "check", !.key = k]]
  /\ UNCHANGED <<clock, created, rows, passed, grants>>

\* The UPSERT (first or after the self-heal) answers with its count.
Count(q) ==
  LET k == reqs[q].key
      new == Upserted(rows[k])
  IN /\ reqs[q].pc \in {"check", "retry"} /\ created
     /\ Commit(k)
     /\ IF new.count <= Limit
          THEN /\ Tell(q, "next", TRUE, FALSE)
               /\ passed' = [passed EXCEPT ![k] = PassedBefore(k) + 1]
               /\ grants' = [grants EXCEPT ![k] = Append(@, [at |-> clock, window |-> new.start])]
          ELSE /\ Tell(q, "429", TRUE, FALSE)
               /\ passed' = [passed EXCEPT ![k] = PassedBefore(k)]
               /\ UNCHANGED grants
     /\ UNCHANGED <<clock, created>>

\* 42P01: the table is not there yet.
TableMissing(q) ==
  /\ reqs[q].pc = "check" /\ ~created
  /\ reqs' = [reqs EXCEPT ![q].pc = "heal"]
  /\ UNCHANGED <<clock, created, rows, passed, grants>>

\* CREATE TABLE IF NOT EXISTS (of two at once both succeed), then the one retry.
Heal(q) ==
  /\ reqs[q].pc = "heal"
  /\ created' = TRUE
  /\ reqs' = [reqs EXCEPT ![q].pc = "retry"]
  /\ UNCHANGED <<clock, rows, passed, grants>>

\* 'unknown': what the route chose for it.
ToldUnknown == IF OnUnknown = "deny" THEN "503" ELSE "next"

\* A statement fails for another reason, or the database is not configured.  An UPSERT may have
\* been committed all the same (its answer was lost).
QueryFails(q) ==
  LET k == reqs[q].key
  IN /\ reqs[q].pc # "idle"
     /\ \/ /\ Tell(q, ToldUnknown, FALSE, TRUE)
           /\ created' \in (IF reqs[q].pc = "heal" THEN {created, TRUE} ELSE {created})
           /\ UNCHANGED <<rows, passed>>
        \/ /\ reqs[q].pc # "heal" /\ created
           /\ Commit(k)
           /\ Tell(q, ToldUnknown, TRUE, TRUE)
           /\ passed' = [passed EXCEPT ![k] = PassedBefore(k)]
           /\ UNCHANGED created
     /\ UNCHANGED <<clock, grants>>

\* Migration 004-rate-limits.sql, run by hand at any time.
Migrate ==
  /\ ~created /\ created' = TRUE
  /\ UNCHANGED <<clock, rows, reqs, passed, grants>>

Tick ==
  /\ clock < MaxTime
  /\ clock' = clock + 1
  /\ UNCHANGED <<created, rows, reqs, passed, grants>>

Next ==
  \/ \E q \in Slots : \/ \E k \in Keys : Arrive(q, k)
                      \/ Count(q) \/ TableMissing(q) \/ Heal(q) \/ QueryFails(q)
  \/ Migrate
  \/ Tick

Spec == Init /\ [][Next]_vars

-----------------------------------------------------------------------------
(* Properties *)

\* The variables keep their types.
TypeOK ==
  /\ clock \in 0 .. MaxTime /\ created \in BOOLEAN
  /\ rows \in [Keys -> [start : 0 .. MaxTime, count : Nat]]
  /\ reqs \in [Slots -> Request]
  /\ passed \in [Keys -> Nat]
  /\ grants \in [Keys -> Seq(Grant)]

\* However many requests and instances count at once, whatever answers are lost, at most Limit requests
\* of a key pass by count in one window.
WindowLimit == \A k \in Keys : passed[k] <= Limit

\* A fixed window lets a burst straddle its edge, but never more than two limits' worth: of any 2 * Limit + 1
\* requests of a key that pass by count one after the other, the last comes more than a Window after the first.
BurstBound ==
  \A k \in Keys : \A i, j \in DOMAIN grants[k] :
    j = i + 2 * Limit => grants[k][j].at > grants[k][i].at + Window

\* On a fail-closed route no request reaches its handler uncounted: outages, lost answers and a missing
\* table never turn into unmetered calls (rate-limiter.ts: 'deny' for paid inference).
PaidIsCounted ==
  OnUnknown = "deny" => \A q \in Slots : reqs[q].told = "next" => reqs[q].counted

\* A 429 is only ever said of a window that is still running and in which Limit requests were counted:
\* a client is never refused for what an earlier window, or its own refused requests there, counted.
DeniedOnlyWhenFull ==
  [][\A q \in Slots :
       reqs[q].pc # "idle" /\ reqs'[q].told = "429" =>
         LET row == rows[reqs[q].key] IN clock <= row.start + Window /\ row.count >= Limit]_vars

\* The self-heal makes the order of deploy and migration irrelevant: a request none of whose statements
\* failed is never told 503, whichever of several first requests finds the table missing.
SelfHealed == \A q \in Slots : reqs[q].told = "503" => reqs[q].failed

-----------------------------------------------------------------------------
(* The inductive invariant behind the safety properties. *)

\* A row that exists counts at least what passed in its window, and starts in the past.
RowInv ==
  \A k \in Keys : /\ passed[k] <= rows[k].count
                  /\ rows[k].start <= clock
                  /\ rows[k].count = 0 => rows[k] = NoRow

\* The last passed[k] grants of a key are those of the row's window; every earlier one is of a window that
\* was over when the row's began.
GrantsOfRow(g, row, n) ==
  /\ n <= Len(g)
  /\ g # <<>> => row # NoRow
  /\ \A i \in DOMAIN g : IF i > Len(g) - n THEN g[i].window = row.start ELSE g[i].window + Window < row.start

\* A grant falls into its window, and never more than Limit grants share one.
GrantsInWindows(g) ==
  /\ \A i \in DOMAIN g : g[i].window <= g[i].at /\ g[i].at <= g[i].window + Window
  /\ \A i, j \in DOMAIN g : i <= j => g[i].window = g[j].window \/ g[i].window + Window < g[j].window
  /\ \A i, j \in DOMAIN g : j = i + Limit => g[i].window # g[j].window

GrantInv == \A k \in Keys : GrantsOfRow(grants[k], rows[k], passed[k]) /\ GrantsInWindows(grants[k])

\* A request in the middleware was told nothing yet.
RequestInv == \A q \in Slots : reqs[q].pc # "idle" => reqs[q].told = "nothing"

IInv == TypeOK /\ RowInv /\ GrantInv /\ RequestInv /\ WindowLimit /\ PaidIsCounted /\ SelfHealed

=============================================================================
