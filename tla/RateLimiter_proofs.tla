------------------------- MODULE RateLimiter_proofs -------------------------
(***************************************************************************)
(* Proofs about RateLimiter, for every set of client keys and of requests  *)
(* in flight, every limit and every window.                                *)
(***************************************************************************)
EXTENDS RateLimiter, SequenceTheorems, TLAPS

Row == [start : 0 .. MaxTime, count : Nat]

\* The row after an UPSERT: counted at least once, in a window that is running, and never losing what
\* passed in it; a count within the limit is one more than before, or a new window's first.
LEMMA UpsertedRow ==
  ASSUME IInv, NEW k \in Keys, NEW r, r = Upserted(rows[k])
  PROVE  /\ r \in Row /\ r.count \in Nat \ {0} /\ r.start <= clock
         /\ PassedBefore(k) \in Nat /\ PassedBefore(k) <= r.count /\ PassedBefore(k) <= Limit
         /\ r.count <= Limit => PassedBefore(k) + 1 <= r.count
         /\ r.count > Limit => clock <= rows[k].start + Window /\ rows[k].count >= Limit
         /\ clock <= r.start + Window
         /\ \/ r.start = clock /\ PassedBefore(k) = 0 /\ (rows[k] = NoRow \/ rows[k].start + Window < clock)
            \/ r.start = rows[k].start /\ PassedBefore(k) = passed[k]
<1>1. /\ rows[k] \in Row /\ passed[k] \in Nat /\ clock \in 0 .. MaxTime
      /\ passed[k] <= rows[k].count /\ rows[k].start <= clock /\ passed[k] <= Limit
      /\ rows[k].count = 0 => rows[k] = NoRow
  BY DEF IInv, TypeOK, RowInv, WindowLimit, Row
<1>2. CASE rows[k] = NoRow \/ Expired(rows[k])
  <2>1. r = [start |-> clock, count |-> 1]
    BY <1>2 DEF Upserted
  <2>2. PassedBefore(k) = 0
    BY <2>1 DEF PassedBefore
  <2>3. rows[k] = NoRow \/ rows[k].start + Window < clock
    BY <1>1, <1>2, LimiterAssumption DEF Expired, Row
  <2> QED
    BY <1>1, <2>1, <2>2, <2>3, LimiterAssumption DEF Row
<1>3. CASE ~(rows[k] = NoRow \/ Expired(rows[k]))
  <2>1. PICK c \in Nat : c = (IF rows[k].count < MaxCount THEN rows[k].count + 1 ELSE rows[k].count)
    BY <1>1 DEF Row
  <2>2. r = [rows[k] EXCEPT !.count = c]
    BY <1>3, <2>1 DEF Upserted
  <2>3. r \in Row /\ r.start = rows[k].start /\ r.count = c
    BY <1>1, <2>2 DEF Row
  <2>4. rows[k].count # 0 /\ rows[k].count \in Nat /\ rows[k].start \in Nat
    BY <1>1, <1>3 DEF Row
  <2>5. c > 1
    BY <2>1, <2>4, LimiterAssumption
  <2>6. PassedBefore(k) = passed[k]
    BY <2>3, <2>5 DEF PassedBefore
  <2>7. clock <= rows[k].start + Window
    BY <1>1, <1>3, <2>4, LimiterAssumption DEF Expired
  <2> QED
    BY <1>1, <2>1, <2>3, <2>4, <2>5, <2>6, <2>7, LimiterAssumption
<1> QED
  BY <1>2, <1>3

\* The grants of a key and the row an UPSERT leaves: what passed in a window that is over is no longer counted.
LEMMA UpsertedGrants ==
  ASSUME IInv, NEW k \in Keys, NEW r, r = Upserted(rows[k]), NEW b, b = PassedBefore(k)
  PROVE  GrantsOfRow(grants[k], r, b)
<1> DEFINE g == grants[k]
           n == Len(g)
           row == rows[k]
<1>1. /\ g \in Seq(Grant) /\ row \in Row /\ passed[k] \in Nat /\ clock \in 0 .. MaxTime /\ row.start <= clock
      /\ n \in Nat /\ DOMAIN g = 1 .. n /\ \A i \in DOMAIN g : g[i] \in Grant
  <2>1. /\ g \in Seq(Grant) /\ row \in Row /\ passed[k] \in Nat /\ clock \in 0 .. MaxTime /\ row.start <= clock
    BY DEF IInv, TypeOK, RowInv, Row
  <2> QED
    BY <2>1, LenProperties, ElementOfSeq
<1>2. /\ passed[k] <= n /\ (g # <<>> => row # NoRow)
      /\ \A i \in 1 .. n : /\ i > n - passed[k] => g[i].window = row.start
                           /\ ~(i > n - passed[k]) => g[i].window + Window < row.start
  BY <1>1 DEF IInv, GrantInv, GrantsOfRow
<1>3. r \in Row /\ r.count \in Nat \ {0} /\ r # NoRow
  BY UpsertedRow DEF NoRow
<1>4. CASE r.start = clock /\ b = 0 /\ (row = NoRow \/ row.start + Window < clock)
  <2>1. ASSUME NEW i \in 1 .. n
        PROVE  ~(i > n - b) /\ g[i].window + Window < clock
    <3>1. g # <<>>
      BY <1>1, <2>1, EmptySeq
    <3>2. row.start + Window < clock /\ g[i] \in Grant
      BY <1>1, <1>2, <1>4, <2>1, <3>1
    <3>3. g[i].window \in Nat /\ row.start \in Nat /\ clock \in Nat
      <4>1. g[i].window \in Nat
        BY <3>2 DEF Grant
      <4>2. row.start \in Nat
        BY <1>1 DEF Row
      <4>3. clock \in Nat
        BY <1>1, LimiterAssumption
      <4> QED
        BY <4>1, <4>2, <4>3
    <3>4. g[i].window = row.start \/ g[i].window + Window < row.start
      BY <1>2, <2>1
    <3>5. g[i].window + Window < clock
      BY <3>2, <3>3, <3>4, LimiterAssumption
    <3>6. ~(i > n - b)
      BY <1>1, <1>4, <2>1
    <3> QED
      BY <3>3, <3>5, <3>6, LimiterAssumption
  <2>2. b <= n
    BY <1>1, <1>4
  <2> QED
    BY <1>1, <1>3, <1>4, <2>1, <2>2 DEF GrantsOfRow
<1>5. CASE r.start = row.start /\ b = passed[k]
  <2>1. ASSUME NEW i \in 1 .. n
        PROVE  IF i > n - b THEN g[i].window = r.start ELSE g[i].window + Window < r.start
    <3>1. g[i].window \in Nat /\ row.start \in Nat
      <4>1. g[i] \in Grant
        BY <1>1, <2>1
      <4>2. g[i].window \in Nat
        BY <4>1 DEF Grant
      <4>3. row.start \in Nat
        BY <1>1 DEF Row
      <4> QED
        BY <4>2, <4>3
    <3> QED
      BY <1>1, <1>2, <1>5, <2>1, <3>1, LimiterAssumption
  <2>2. b <= n
    BY <1>2, <1>5
  <2> QED
    BY <1>1, <1>3, <2>1, <2>2 DEF GrantsOfRow
<1> QED
  BY <1>4, <1>5, UpsertedRow

\* One more grant in a running window that holds fewer than Limit of them.
LEMMA GrantAppended ==
  ASSUME NEW g \in Seq(Grant), NEW row \in Row, NEW n \in Nat, NEW t \in 0 .. MaxTime, NEW h,
         NEW e, e = [at |-> t, window |-> row.start],
         GrantsOfRow(g, row, n), GrantsInWindows(g), n + 1 <= Limit, row # NoRow,
         row.start <= t, t <= row.start + Window, h = Append(g, e)
  PROVE  h \in Seq(Grant) /\ GrantsOfRow(h, row, n + 1) /\ GrantsInWindows(h)
<1> DEFINE m == Len(g)
<1>1. /\ m \in Nat /\ DOMAIN g = 1 .. m /\ row.start \in Nat /\ t \in Nat
      /\ \A i \in 1 .. m : g[i].at \in Nat /\ g[i].window \in Nat
  <2>1. m \in Nat /\ DOMAIN g = 1 .. m /\ \A i \in 1 .. m : g[i] \in Grant
    BY LenProperties, ElementOfSeq
  <2> QED
    BY <2>1, LimiterAssumption, SMTT(30) DEF Grant, Row
<1>2. e \in Grant
  BY LimiterAssumption DEF Grant, Row
<1>3. /\ h \in Seq(Grant) /\ Len(h) = m + 1 /\ DOMAIN h = 1 .. (m + 1)
      /\ h[m + 1] = e /\ \A i \in 1 .. m : h[i] = g[i]
  <2>1. h \in Seq(Grant) /\ Len(h) = m + 1 /\ h[m + 1] = e /\ \A i \in 1 .. m : h[i] = g[i]
    BY <1>2, AppendProperties
  <2> QED
    BY <2>1, LenProperties
<1>4. n <= m /\ \A i \in 1 .. m : /\ i > m - n => g[i].window = row.start
                                  /\ ~(i > m - n) => g[i].window + Window < row.start
  BY <1>1 DEF GrantsOfRow
<1>5. GrantsOfRow(h, row, n + 1)
  <2>1. n + 1 <= Len(h)
    BY <1>1, <1>3, <1>4
  <2>2. ASSUME NEW i \in DOMAIN h
        PROVE  IF i > Len(h) - (n + 1) THEN h[i].window = row.start ELSE h[i].window + Window < row.start
    <3>1. CASE i = m + 1
      BY <1>1, <1>3, <3>1
    <3>2. CASE i \in 1 .. m
      <4>1. h[i] = g[i] /\ (i > Len(h) - (n + 1) <=> i > m - n)
        BY <1>1, <1>3, <3>2
      <4>2. IF i > m - n THEN g[i].window = row.start ELSE g[i].window + Window < row.start
        BY <1>4, <3>2
      <4> QED
        BY <1>1, <1>3, <3>2, <4>1, <4>2, LimiterAssumption
    <3> QED
      BY <1>1, <1>3, <3>1, <3>2
  <2> QED
    BY <2>1, <2>2 DEF GrantsOfRow
<1>6. \A i \in DOMAIN h : h[i].window <= h[i].at /\ h[i].at <= h[i].window + Window
  <2>1. \A i \in 1 .. m : g[i].window <= g[i].at /\ g[i].at <= g[i].window + Window
    BY <1>1 DEF GrantsInWindows
  <2> QED
    BY <1>1, <1>3, <2>1
<1>7. ASSUME NEW i \in DOMAIN h, NEW j \in DOMAIN h
      PROVE  /\ i <= j => h[i].window = h[j].window \/ h[i].window + Window < h[j].window
             /\ j = i + Limit => h[i].window # h[j].window
  <2>1. CASE j \in 1 .. m
    <3>1. i <= j \/ j = i + Limit => i \in 1 .. m
      BY <1>1, <1>3, <2>1, LimiterAssumption
    <3>2. i \in 1 .. m => /\ h[i] = g[i] /\ h[j] = g[j]
                          /\ i <= j => g[i].window = g[j].window \/ g[i].window + Window < g[j].window
                          /\ j = i + Limit => g[i].window # g[j].window
      BY <1>1, <1>3, <2>1 DEF GrantsInWindows
    <3> QED
      BY <1>1, <2>1, <3>1, <3>2, LimiterAssumption
  <2>2. CASE j = m + 1 /\ i = m + 1
    BY <1>1, <2>2, LimiterAssumption
  <2>3. CASE j = m + 1 /\ i \in 1 .. m
    <3>1. h[j].window = row.start /\ h[i] = g[i]
      BY <1>3, <2>3
    <3>2. j = i + Limit => ~(i > m - n)
      BY <1>1, <1>4, <2>3, LimiterAssumption
    <3>3. g[i].window + Window < row.start => g[i].window # row.start
      BY <1>1, <2>3, LimiterAssumption
    <3>4. g[i].window = row.start \/ g[i].window + Window < row.start
      BY <1>4, <2>3
    <3>5. j = i + Limit => g[i].window + Window < row.start
      BY <1>4, <2>3, <3>2
    <3> QED
      BY <1>1, <2>3, <3>1, <3>3, <3>4, <3>5, LimiterAssumption
  <2> QED
    BY <1>1, <1>3, <2>1, <2>2, <2>3
<1> QED
  BY <1>3, <1>5, <1>6, <1>7 DEF GrantsInWindows

LEMMA InitIInv == Init => IInv
<1> SUFFICES ASSUME Init PROVE IInv
  OBVIOUS
<1>1. (CHOOSE k \in Keys : TRUE) \in Keys
  BY LimiterAssumption
<1>2. Idle \in Request
  BY <1>1 DEF Idle, Request
<1>3. TypeOK
  <2>1. <<>> \in Seq(Grant)
    BY EmptySeq
  <2> QED
    BY <1>2, <2>1, LimiterAssumption DEF Init, TypeOK, NoRow
<1>3a. GrantInv
  <2>1. Len(<<>>) = 0 /\ DOMAIN <<>> = {}
    BY EmptySeq
  <2>2. \A k \in Keys : grants[k] = <<>> /\ passed[k] = 0
    BY DEF Init
  <2>3. GrantsInWindows(<<>>) /\ \A row : GrantsOfRow(<<>>, row, 0)
    BY <2>1 DEF GrantsOfRow, GrantsInWindows
  <2> QED
    BY <2>2, <2>3 DEF GrantInv
<1>4. RowInv /\ RequestInv /\ WindowLimit /\ PaidIsCounted /\ SelfHealed
  <2>1. /\ clock = 0 /\ \A k \in Keys : rows[k] = NoRow /\ passed[k] = 0
        /\ \A q \in Slots : reqs[q] = Idle
    BY DEF Init
  <2>2. Idle.told = "nothing" /\ NoRow.start = 0 /\ NoRow.count = 0
    BY DEF Idle, NoRow
  <2> QED
    BY <2>1, <2>2, LimiterAssumption DEF RowInv, RequestInv, WindowLimit, PaidIsCounted, SelfHealed
<1> QED
  BY <1>3, <1>3a, <1>4 DEF IInv

\* A request that is told something.
LEMMA TellType ==
  ASSUME IInv, NEW q \in Slots, NEW told \in {"nothing", "next", "429", "503"}, NEW counted \in BOOLEAN,
         NEW failed \in BOOLEAN, Tell(q, told, counted, failed)
  PROVE  /\ reqs' \in [Slots -> Request]
         /\ reqs'[q].told = told /\ reqs'[q].counted = counted /\ reqs'[q].pc = "idle"
         /\ reqs'[q].failed = failed
         /\ \A p \in Slots \ {q} : reqs'[p] = reqs[p]
BY DEF IInv, TypeOK, Request, Tell, Idle

\* An UPSERT that answers.
LEMMA CountStep == ASSUME IInv, NEW q \in Slots, Count(q) PROVE IInv'
<1>1. PICK k \in Keys : k = reqs[q].key
  BY DEF IInv, TypeOK, Request
<1>2. PICK r : r = Upserted(rows[k])
  OBVIOUS
<1>3. PICK b : b = PassedBefore(k)
  OBVIOUS
<1>4. /\ r \in Row /\ r.count \in Nat \ {0} /\ r.start <= clock
      /\ b \in Nat /\ b <= r.count /\ b <= Limit
      /\ r.count <= Limit => b + 1 <= r.count
  BY <1>2, <1>3, UpsertedRow
<1>5. rows' = [rows EXCEPT ![k] = r] /\ created /\ UNCHANGED <<clock, created>>
  BY <1>1, <1>2 DEF Count, Commit
<1>6. PICK told \in {"next", "429"} : Tell(q, told, TRUE, FALSE)
  BY DEF Count
<1>6a. /\ reqs' \in [Slots -> Request] /\ reqs'[q].pc = "idle" /\ reqs'[q].counted
       /\ reqs'[q].told = told /\ \A p \in Slots \ {q} : reqs'[p] = reqs[p]
  BY <1>6, TellType
<1>7. PICK p \in Nat : passed' = [passed EXCEPT ![k] = p] /\ p <= r.count /\ p <= Limit
  <2>1. CASE r.count <= Limit
    <3>1. passed' = [passed EXCEPT ![k] = b + 1]
      BY <1>1, <1>2, <1>3, <2>1 DEF Count
    <3>2. b + 1 \in Nat /\ b + 1 <= r.count /\ b + 1 <= Limit
      BY <1>4, <2>1, LimiterAssumption
    <3> QED
      BY <3>1, <3>2
  <2>2. CASE ~(r.count <= Limit)
    <3>1. passed' = [passed EXCEPT ![k] = b]
      BY <1>1, <1>2, <1>3, <2>2 DEF Count
    <3> QED
      BY <1>4, <3>1
  <2> QED
    BY <2>1, <2>2
<1>8. grants' \in [Keys -> Seq(Grant)] /\ GrantInv'
  <2>1. grants \in [Keys -> Seq(Grant)] /\ clock \in 0 .. MaxTime /\ rows \in [Keys -> Row] /\ passed \in [Keys -> Nat]
    BY DEF IInv, TypeOK, Row
  <2>2. GrantsOfRow(grants[k], r, b) /\ GrantsInWindows(grants[k]) /\ r # NoRow
    BY <1>2, <1>3, <1>4, UpsertedGrants DEF IInv, GrantInv, NoRow
  <2>3. \A l \in Keys : GrantsOfRow(grants[l], rows[l], passed[l]) /\ GrantsInWindows(grants[l])
    BY DEF IInv, GrantInv
  <2>4. CASE r.count <= Limit
    <3>0. PICK e : e = [at |-> clock, window |-> r.start]
      OBVIOUS
    <3>1. PICK h : h = Append(grants[k], e)
      OBVIOUS
    <3>2. grants' = [grants EXCEPT ![k] = h] /\ passed' = [passed EXCEPT ![k] = b + 1]
      BY <1>1, <1>2, <1>3, <2>4, <3>0, <3>1 DEF Count
    <3>3. clock <= r.start + Window /\ b + 1 <= Limit /\ b + 1 \in Nat
      BY <1>2, <1>4, <2>4, UpsertedRow, LimiterAssumption
    <3>4. h \in Seq(Grant) /\ GrantsOfRow(h, r, b + 1) /\ GrantsInWindows(h)
      <4>1. grants[k] \in Seq(Grant) /\ clock \in 0 .. MaxTime
        BY <2>1
      <4>2. r \in Row /\ b \in Nat /\ r.start <= clock
        BY <1>4
      <4>3. GrantsOfRow(grants[k], r, b) /\ GrantsInWindows(grants[k]) /\ r # NoRow
        BY <2>2
      <4> QED
        BY <3>0, <3>1, <3>3, <4>1, <4>2, <4>3, GrantAppended
    <3>5. ASSUME NEW l \in Keys
          PROVE  GrantsOfRow(grants'[l], rows'[l], passed'[l]) /\ GrantsInWindows(grants'[l])
      <4>1. CASE l = k
        BY <1>5, <2>1, <3>2, <3>4, <4>1
      <4>2. CASE l # k
        BY <1>5, <2>1, <2>3, <3>2, <4>2
      <4> QED
        BY <4>1, <4>2
    <3> QED
      BY <2>1, <3>2, <3>4, <3>5 DEF GrantInv
  <2>5. CASE ~(r.count <= Limit)
    <3>1. grants' = grants /\ passed' = [passed EXCEPT ![k] = b]
      BY <1>1, <1>2, <1>3, <2>5 DEF Count
    <3>2. ASSUME NEW l \in Keys
          PROVE  GrantsOfRow(grants'[l], rows'[l], passed'[l]) /\ GrantsInWindows(grants'[l])
      <4>1. CASE l = k
        BY <1>5, <2>1, <2>2, <3>1, <4>1
      <4>2. CASE l # k
        BY <1>5, <2>1, <2>3, <3>1, <4>2
      <4> QED
        BY <4>1, <4>2
    <3> QED
      BY <2>1, <3>1, <3>2 DEF GrantInv
  <2> QED
    BY <2>4, <2>5
<1>9. TypeOK'
  BY <1>4, <1>5, <1>6a, <1>7, <1>8 DEF IInv, TypeOK, Row
<1>10. RowInv' /\ WindowLimit'
  BY <1>4, <1>5, <1>7 DEF IInv, TypeOK, RowInv, WindowLimit, Row
<1>11. RequestInv' /\ PaidIsCounted' /\ SelfHealed'
  BY <1>5, <1>6, <1>6a DEF IInv, RequestInv, PaidIsCounted, SelfHealed
<1> QED
  BY <1>8, <1>9, <1>10, <1>11 DEF IInv

LEMMA QueryFailsStep == ASSUME IInv, NEW q \in Slots, QueryFails(q) PROVE IInv'
<1>1. PICK k \in Keys : k = reqs[q].key
  BY DEF IInv, TypeOK, Request
<1>2. PICK told \in {"next", "503"} : told = ToldUnknown /\ (OnUnknown = "deny" => told = "503")
  BY DEF ToldUnknown
<1>3. PICK counted \in BOOLEAN : Tell(q, told, counted, TRUE)
  BY <1>2 DEF QueryFails
<1>4. /\ reqs' \in [Slots -> Request] /\ reqs'[q].told = told /\ reqs'[q].pc = "idle"
      /\ reqs'[q].failed
      /\ \A p \in Slots \ {q} : reqs'[p] = reqs[p]
  BY <1>3, TellType
<1>5. created' \in BOOLEAN /\ (created => created') /\ UNCHANGED <<clock, grants>>
  <2>1. created \in BOOLEAN
    BY DEF IInv, TypeOK
  <2>2. created' = created \/ created' = TRUE
    BY DEF QueryFails
  <2>3. UNCHANGED <<clock, grants>>
    BY DEF QueryFails
  <2>4. created' \in BOOLEAN /\ (created => created')
    BY <2>1, <2>2
  <2> QED
    BY <2>3, <2>4
<1>6. RequestInv' /\ PaidIsCounted' /\ SelfHealed'
  <2>1. RequestInv'
    BY <1>4, <1>5 DEF IInv, RequestInv
  <2>2. PaidIsCounted'
    BY <1>2, <1>4, Zenon DEF IInv, PaidIsCounted
  <2>3. SelfHealed'
    BY <1>4, Zenon DEF IInv, SelfHealed
  <2> QED
    BY <2>1, <2>2, <2>3
<1>7. CASE rows' = rows /\ passed' = passed
  BY <1>4, <1>5, <1>6, <1>7 DEF IInv, TypeOK, RowInv, GrantInv, WindowLimit
<1>8. CASE Commit(k) /\ passed' = [passed EXCEPT ![k] = PassedBefore(k)]
  <2>1. PICK r : r = Upserted(rows[k])
    OBVIOUS
  <2>2. PICK b : b = PassedBefore(k)
    OBVIOUS
  <2>3. /\ r \in Row /\ r.count \in Nat \ {0} /\ r.start <= clock
        /\ b \in Nat /\ b <= r.count /\ b <= Limit
    BY <2>1, <2>2, UpsertedRow
  <2>4. rows' = [rows EXCEPT ![k] = r] /\ passed' = [passed EXCEPT ![k] = b]
    BY <1>8, <2>1, <2>2 DEF Commit
  <2>5. TypeOK'
    BY <1>4, <1>5, <2>3, <2>4 DEF IInv, TypeOK, Row
  <2>6. RowInv' /\ WindowLimit'
    BY <1>5, <2>3, <2>4 DEF IInv, TypeOK, RowInv, WindowLimit, Row
  <2>7. GrantInv'
    <3>1. ASSUME NEW l \in Keys
          PROVE  GrantsOfRow(grants'[l], rows'[l], passed'[l]) /\ GrantsInWindows(grants'[l])
      <4>1. GrantsOfRow(grants[l], rows[l], passed[l]) /\ GrantsInWindows(grants[l]) /\ GrantsOfRow(grants[k], r, b)
        BY <2>1, <2>2, UpsertedGrants DEF IInv, GrantInv
      <4>2. grants'[l] = grants[l] /\ rows'[l] = (IF l = k THEN r ELSE rows[l])
            /\ passed'[l] = (IF l = k THEN b ELSE passed[l])
        BY <1>5, <2>4 DEF IInv, TypeOK
      <4> QED
        BY <4>1, <4>2
    <3> QED
      BY <3>1 DEF GrantInv
  <2> QED
    BY <1>6, <2>5, <2>6, <2>7 DEF IInv
<1> QED
  BY <1>1, <1>7, <1>8 DEF QueryFails

\* Arriving, finding the table missing and healing it count nothing.
LEMMA UncountedStep ==
  ASSUME IInv, NEW q \in Slots, NEW k \in Keys, Arrive(q, k) \/ TableMissing(q) \/ Heal(q)
  PROVE  IInv'
<1>1. /\ reqs' \in [Slots -> Request] /\ reqs'[q].told = "nothing"
      /\ \A p \in Slots \ {q} : reqs'[p] = reqs[p]
  <2>1. reqs \in [Slots -> Request] /\ (reqs[q].pc # "idle" => reqs[q].told = "nothing")
    BY DEF IInv, TypeOK, RequestInv
  <2>2. CASE Arrive(q, k)
    BY <2>1, <2>2 DEF Request, Arrive, Idle
  <2>3. CASE TableMissing(q)
    BY <2>1, <2>3 DEF Request, TableMissing
  <2>4. CASE Heal(q)
    BY <2>1, <2>4 DEF Request, Heal
  <2> QED
    BY <2>2, <2>3, <2>4
<1>2. created' \in BOOLEAN /\ UNCHANGED <<clock, rows, passed, grants>>
  BY DEF IInv, TypeOK, Arrive, TableMissing, Heal
<1>3. TypeOK' /\ RowInv' /\ GrantInv' /\ WindowLimit'
  <2>1. created' \in BOOLEAN
    BY <1>2
  <2>2. GrantInv'
    BY <1>2 DEF IInv, GrantInv
  <2> QED
    BY <1>1, <1>2, <2>1, <2>2 DEF IInv, TypeOK, RowInv, WindowLimit
<1>4. RequestInv'
  BY <1>1, <1>2 DEF IInv, RequestInv
<1>5. PaidIsCounted'
  BY <1>1, Zenon DEF IInv, PaidIsCounted
<1>6. SelfHealed'
  BY <1>1 DEF IInv, SelfHealed
<1> QED
  BY <1>3, <1>4, <1>5, <1>6 DEF IInv

LEMMA StepIInv == IInv /\ [Next]_vars => IInv'
<1> SUFFICES ASSUME IInv, [Next]_vars PROVE IInv'
  OBVIOUS
<1>1. CASE Migrate
  <2>1. UNCHANGED <<clock, rows, reqs, passed, grants>> /\ created'
    BY <1>1 DEF Migrate
  <2>2. TypeOK' /\ RowInv' /\ GrantInv' /\ RequestInv' /\ WindowLimit'
    BY <1>1, <2>1 DEF IInv, TypeOK, RowInv, GrantInv, RequestInv, WindowLimit, Migrate
  <2> QED
    BY <2>1, <2>2, Zenon DEF IInv, PaidIsCounted, SelfHealed
<1>2. CASE Tick
  <2>1. UNCHANGED <<created, rows, reqs, passed, grants>>
    BY <1>2 DEF Tick
  <2>2. TypeOK' /\ RowInv'
    BY <1>2, <2>1, LimiterAssumption DEF IInv, TypeOK, RowInv, Row, Tick
  <2> QED
    BY <2>1, <2>2, Zenon DEF IInv, GrantInv, RequestInv, WindowLimit, PaidIsCounted, SelfHealed
<1>3. CASE UNCHANGED vars
  BY <1>3 DEF IInv, TypeOK, RowInv, GrantInv, RequestInv, WindowLimit, PaidIsCounted, SelfHealed, vars
<1>4. ASSUME NEW q \in Slots, Count(q) \/ TableMissing(q) \/ Heal(q) \/ QueryFails(q)
      PROVE  IInv'
  <2>1. PICK k : k \in Keys
    BY LimiterAssumption
  <2> QED
    BY <1>4, <2>1, CountStep, QueryFailsStep, UncountedStep
<1>5. ASSUME NEW q \in Slots, NEW k \in Keys, Arrive(q, k)
      PROVE  IInv'
  BY <1>5, UncountedStep
<1> QED
  BY <1>1, <1>2, <1>3, <1>4, <1>5 DEF Next

\* The inductive invariant of the limiter: a row counts at least what passed in its window.
THEOREM Invariant == Spec => []IInv
BY InitIInv, StepIInv, PTL DEF Spec

\* The variables keep their types.
THEOREM TypeCorrect == Spec => []TypeOK
<1>1. IInv => TypeOK
  BY DEF IInv
<1> QED
  BY <1>1, Invariant, PTL

\* At most Limit requests of a key pass by count in one window, for any number of instances and keys.
THEOREM AtMostLimit == Spec => []WindowLimit
<1>1. IInv => WindowLimit
  BY DEF IInv
<1> QED
  BY <1>1, Invariant, PTL

\* Of any 2 * Limit + 1 consecutive grants of a key the last comes more than a window after the first: grants
\* that are Limit apart are of different windows, so three windows take part.
THEOREM BurstLimited == Spec => []BurstBound
<1>1. IInv => BurstBound
  <2> SUFFICES ASSUME IInv, NEW k \in Keys, NEW i \in DOMAIN grants[k], NEW j \in DOMAIN grants[k], j = i + 2 * Limit
               PROVE  grants[k][j].at > grants[k][i].at + Window
    BY DEF BurstBound
  <2> DEFINE g == grants[k]
  <2>1. GrantsInWindows(g) /\ g \in Seq(Grant)
    BY DEF IInv, GrantInv, TypeOK
  <2>2. Len(g) \in Nat /\ DOMAIN g = 1 .. Len(g) /\ \A l \in DOMAIN g : g[l].at \in Nat /\ g[l].window \in Nat
    <3>1. Len(g) \in Nat /\ DOMAIN g = 1 .. Len(g) /\ \A l \in DOMAIN g : g[l] \in Grant
      BY <2>1, LenProperties, ElementOfSeq
    <3> QED
      BY <3>1, LimiterAssumption DEF Grant
  <2>2a. g[i].at \in Nat /\ g[i].window \in Nat /\ g[j].at \in Nat /\ g[j].window \in Nat
    BY <2>2
  <2>3. PICK m \in DOMAIN g : m = i + Limit
    BY <2>2, LimiterAssumption
  <2>4. j = m + Limit /\ i <= m /\ m <= j
    BY <2>2, <2>3, LimiterAssumption
  <2>5. g[i].window + Window < g[m].window /\ g[m].window + Window < g[j].window
    BY <2>1, <2>3, <2>4 DEF GrantsInWindows
  <2>6. g[i].at <= g[i].window + Window /\ g[j].window <= g[j].at
    BY <2>1 DEF GrantsInWindows
  <2>7. g[m].window \in Nat /\ Window \in Nat
    BY <2>2, LimiterAssumption
  <2> QED
    BY <2>2a, <2>5, <2>6, <2>7
<1> QED
  BY <1>1, Invariant, PTL

\* No uncounted request reaches the handler of a fail-closed route.
THEOREM NeverUncounted == Spec => []PaidIsCounted
<1>1. IInv => PaidIsCounted
  BY DEF IInv
<1> QED
  BY <1>1, Invariant, PTL

\* A missing table alone is never a 503.
THEOREM Healed == Spec => []SelfHealed
<1>1. IInv => SelfHealed
  BY DEF IInv
<1> QED
  BY <1>1, Invariant, PTL

\* A 429 is only said of a running window with Limit requests counted in it.
THEOREM DeniedRightly == Spec => DeniedOnlyWhenFull
<1> DEFINE Right == \A q \in Slots : reqs[q].pc # "idle" /\ reqs'[q].told = "429" =>
                      LET row == rows[reqs[q].key] IN clock <= row.start + Window /\ row.count >= Limit
<1>1. IInv /\ [Next]_vars => [Right]_vars
  <2> SUFFICES ASSUME IInv, Next, NEW q \in Slots, reqs[q].pc # "idle", reqs'[q].told = "429"
               PROVE  /\ clock <= rows[reqs[q].key].start + Window
                      /\ rows[reqs[q].key].count >= Limit
    BY DEF vars
  <2>1. reqs[q].told = "nothing" /\ reqs[q].key \in Keys
    BY DEF IInv, RequestInv, TypeOK, Request
  <2>2. Count(q)
    <3>1. reqs \in [Slots -> Request]
      BY DEF IInv, TypeOK
    <3>2. ASSUME NEW p \in Slots, NEW k \in Keys, Arrive(p, k) \/ TableMissing(p) \/ Heal(p)
          PROVE  FALSE
      BY <2>1, <3>1, <3>2 DEF Request, Arrive, TableMissing, Heal, Idle
    <3>3. ASSUME NEW p \in Slots, QueryFails(p)
          PROVE  FALSE
      <4>1. PICK told \in {"next", "503"}, counted \in BOOLEAN : Tell(p, told, counted, TRUE)
        BY <3>3 DEF QueryFails, ToldUnknown
      <4> QED
        BY <2>1, <4>1, TellType
    <3>4. ASSUME NEW p \in Slots, Count(p)
          PROVE  p = q
      <4>1. PICK told \in {"next", "429"} : Tell(p, told, TRUE, FALSE)
        BY <3>4 DEF Count
      <4> QED
        BY <2>1, <4>1, TellType
    <3>5. reqs' # reqs
      BY <2>1
    <3> QED
      BY <3>2, <3>3, <3>4, <3>5, LimiterAssumption DEF Next, Migrate, Tick
  <2>3. PICK r : r = Upserted(rows[reqs[q].key])
    OBVIOUS
  <2>4. ~(r.count <= Limit)
    <3>1. CASE r.count <= Limit
      <4>1. Tell(q, "next", TRUE, FALSE)
        BY <2>2, <2>3, <3>1 DEF Count
      <4> QED
        BY <4>1, TellType
    <3> QED
      BY <3>1
  <2>5. r.count \in Nat
    BY <2>1, <2>3, UpsertedRow
  <2> QED
    BY <2>1, <2>3, <2>4, <2>5, UpsertedRow, LimiterAssumption
<1> QED
  BY <1>1, Invariant, PTL DEF Spec, DeniedOnlyWhenFull

=============================================================================
