-------------------------- MODULE Accounts_proofs --------------------------
(***************************************************************************)
(* Proofs about Accounts, for every set of browsers and addresses, every   *)
(* cooldown, life and retention, and any number of requests at once.       *)
(***************************************************************************)
EXTENDS Accounts, FiniteSetTheorems, TLAPS

LEMMA InitIInv == Init => IInv
<1>. SUFFICES ASSUME Init PROVE IInv
  OBVIOUS
<1>1. IsFiniteSet({}) /\ Cardinality({}) = 0
  BY FS_EmptySet
<1>2. \A e : Young(e) = {} /\ Storers(e) = {}
  BY DEF Init, Young, Storers
<1>3. LinksPerCooldown
  BY <1>1, <1>2, RequestsAssumption DEF LinksPerCooldown
<1>4. RequestInv
  BY <1>1, RequestsAssumption DEF Init, RequestInv
<1>. QED
  BY <1>3, <1>4 DEF Init, IInv, LinkInv, RowInv, SignInProved, AnalysisWhole

-----------------------------------------------------------------------------
(* Requests that begin, go on and end                                      *)

Few == IsFiniteSet(requests) /\ Cardinality(requests) <= MaxRequests

LEMMA Ending == ASSUME IInv, NEW r, Ends(r) PROVE requests' \subseteq requests /\ Few'
<1>1. requests' \subseteq requests
  BY DEF Ends
<1>2. IsFiniteSet(requests') /\ Cardinality(requests') <= Cardinality(requests)
  BY <1>1, FS_Subset DEF IInv, RequestInv
<1>3. Cardinality(requests) \in Nat /\ Cardinality(requests') \in Nat
  BY <1>2, FS_CardinalityType DEF IInv, RequestInv
<1>. QED
  BY <1>1, <1>2, <1>3, RequestsAssumption DEF Few, IInv, RequestInv

LEMMA GoingOn ==
  ASSUME IInv, NEW r \in requests, NEW s, Goes(r, s)
  PROVE  requests' = (requests \ {r}) \cup {Copy(s, r.slot)} /\ Few'
<1>1. requests' = (requests \ {r}) \cup {Copy(s, r.slot)}
  BY DEF Goes
<1>2. IsFiniteSet(requests) /\ Cardinality(requests) <= MaxRequests
  BY DEF IInv, RequestInv
<1>3. IsFiniteSet(requests \ {r}) /\ Cardinality(requests \ {r}) = Cardinality(requests) - 1
  BY <1>2, FS_RemoveElement
<1>4. PICK kept : kept = requests \ {r}
  OBVIOUS
<1>5. /\ IsFiniteSet(kept \cup {Copy(s, r.slot)})
      /\ \/ Cardinality(kept \cup {Copy(s, r.slot)}) = Cardinality(kept)
         \/ Cardinality(kept \cup {Copy(s, r.slot)}) = Cardinality(kept) + 1
  BY <1>3, <1>4, FS_AddElement
<1>6. Cardinality(requests) \in Nat
  BY <1>2, FS_CardinalityType
<1>. QED
  BY <1>1, <1>2, <1>3, <1>4, <1>5, <1>6, RequestsAssumption DEF Few

LEMMA Starting ==
  ASSUME IInv, NEW r, Start(r)
  PROVE  (\E n : requests' = requests \cup {Copy(r, n)}) /\ Few'
<1>1. PICK n : requests' = requests \cup {Copy(r, n)}
  BY DEF Start
<1>2. IsFiniteSet(requests) /\ Cardinality(requests) < MaxRequests
  BY DEF IInv, RequestInv, Start
<1>3. /\ IsFiniteSet(requests')
      /\ Cardinality(requests') = Cardinality(requests) \/ Cardinality(requests') = Cardinality(requests) + 1
  BY <1>1, <1>2, FS_AddElement
<1>4. Cardinality(requests) \in Nat
  BY <1>2, FS_CardinalityType
<1>. QED
  BY <1>1, <1>2, <1>3, <1>4, RequestsAssumption DEF Few

-----------------------------------------------------------------------------
(* The links                                                               *)

\* No link and no request joins those the cooldown counts.
LEMMA NoMoreLinks ==
  ASSUME IInv, now' \in Nat, now <= now', \A l \in links' : ~l.used => l \in links,
         \A r \in requests' : r.op = "ask" /\ r.step = "store" => r \in requests
  PROVE  LinksPerCooldown'
<1>. SUFFICES ASSUME NEW e \in Emails PROVE Cardinality(Young(e)') + Cardinality(Storers(e)') <= MaxRequests
  BY DEF LinksPerCooldown
<1>1. Young(e)' \subseteq Young(e)
  BY TimesAssumption DEF Young, IInv, LinkInv, IsLink
<1>2. Storers(e)' \subseteq Storers(e)
  BY DEF Storers
<1>3. Young(e) \subseteq links /\ Storers(e) \subseteq requests
  BY DEF Young, Storers
<1>4. IsFiniteSet(Young(e)) /\ IsFiniteSet(Storers(e))
  BY <1>3, FS_Subset DEF IInv, RequestInv
<1>5. /\ IsFiniteSet(Young(e)') /\ Cardinality(Young(e)') <= Cardinality(Young(e))
      /\ IsFiniteSet(Storers(e)') /\ Cardinality(Storers(e)') <= Cardinality(Storers(e))
  BY <1>1, <1>2, <1>4, FS_Subset
<1>6. /\ Cardinality(Young(e)) \in Nat /\ Cardinality(Storers(e)) \in Nat
      /\ Cardinality(Young(e)') \in Nat /\ Cardinality(Storers(e)') \in Nat
  BY <1>4, <1>5, FS_CardinalityType
<1>7. Cardinality(Young(e)) + Cardinality(Storers(e)) <= MaxRequests
  BY DEF IInv, LinksPerCooldown
<1>. QED
  BY <1>5, <1>6, <1>7, RequestsAssumption

\* What proves an address after the step; what proves one now still does.
SpentNext(e) == {l \in links' : l.email = e /\ l.id \in mails' /\ l.used}
Remains == \A e : \A l \in Spent(e) : \E k \in SpentNext(e) : k.id = l.id

\* Every user of the new state was one before, or is proved.
LEMMA StaysProved ==
  ASSUME IInv, Remains,
         \A s \in sessions' : s \in sessions \/ \E l \in SpentNext(s.email) : l.id = s.link,
         \A b \in Browsers : page'[b] \in {page[b], NoUser} \/ Spent(page'[b]) # {},
         \A p \in payslips' : (\E q \in payslips : q.owner = p.owner) \/ p.owner = NoUser \/ Spent(p.owner) # {},
         \A r \in requests' : r.op \in {"upload", "delete"} => r \in requests \/ r.owner = NoUser \/ Spent(r.owner) # {}
  PROVE  SignInProved'
<1>1. \A e : Spent(e) # {} => SpentNext(e) # {}
  BY DEF Remains
<1>2. ASSUME NEW s \in sessions' PROVE \E l \in SpentNext(s.email) : l.id = s.link
  <2>1. CASE s \in sessions
    <3>1. PICK l \in Spent(s.email) : l.id = s.link
      BY <2>1 DEF IInv, SignInProved
    <3>. QED
      BY <3>1 DEF Remains
  <2>. QED
    BY <2>1
<1>3. \A b \in Browsers : page'[b] # NoUser => SpentNext(page'[b]) # {}
  BY <1>1 DEF IInv, SignInProved
<1>4. \A p \in payslips' : p.owner # NoUser => SpentNext(p.owner) # {}
  BY <1>1 DEF IInv, SignInProved
<1>5. \A r \in requests' : r.op \in {"upload", "delete"} /\ r.owner # NoUser => SpentNext(r.owner) # {}
  BY <1>1 DEF IInv, SignInProved
<1>. QED
  BY <1>2, <1>3, <1>4, <1>5 DEF SignInProved, Spent, SpentNext

\* A request that may begin or go on while links, mails and sessions stay.
Sound(r) ==
  \/ r.op = "verify" /\ r.link \in mails /\ (r.step # "use" => \A l \in links : l.id = r.link => l.used)
  \/ r.op \in {"upload", "delete"} /\ (r.owner = NoUser \/ Spent(r.owner) # {})

SignInKept == LinkInv' /\ RequestInv' /\ LinksPerCooldown' /\ SignInProved'

LEMMA LinksStay ==
  ASSUME IInv, UNCHANGED <<links, mails>>, sessions' \subseteq sessions, now' \in Nat, now <= now', Few',
         \A r \in requests' : r \in requests \/ Sound(r),
         \A b \in Browsers : page'[b] \in {page[b], NoUser} \/ Spent(page'[b]) # {},
         \A p \in payslips' : (\E q \in payslips : q.owner = p.owner) \/ p.owner = NoUser \/ Spent(p.owner) # {}
  PROVE  SignInKept
<1>1. LinkInv'
  BY DEF IInv, LinkInv, IsLink, Ids
<1>2. LinksPerCooldown'
  BY NoMoreLinks DEF Sound
<1>3. RequestInv'
  BY DEF IInv, RequestInv, Few, Sound, Ids
<1>4. Remains
  BY DEF Remains, Spent, SpentNext
<1>5. SignInProved'
  BY <1>4, StaysProved DEF Sound
<1>. QED
  BY <1>1, <1>2, <1>3, <1>5 DEF SignInKept

\* The user of a cookie is proved.
LEMMA UserProved == ASSUME IInv, NEW b, NEW e \in UserOf(b) PROVE Spent(e) # {}
BY DEF IInv, SignInProved, UserOf

LEMMA LinkById == ASSUME IInv, NEW id \in Ids(links) PROVE LinkOf(id) \in links /\ LinkOf(id).id = id
BY DEF Ids, LinkOf

\* A request about to store a link has found no young one: with all those about
\* to store one it is among the requests at once.
LEMMA Asks == ASSUME IInv, NEW e \in Emails, AskLink(e) PROVE SignInKept
<1>1. PICK n : requests' = requests \cup {Copy(Asking(e), n)}
  BY Starting DEF AskLink
<1>2. requests' = requests \cup {[slot |-> n, op |-> "ask", step |-> "store", email |-> e]}
  BY <1>1 DEF Copy, Asking
<1>3. Few'
  BY Starting DEF AskLink
<1>4. UNCHANGED <<now, links, mails, sessions, payslips, page>>
  BY DEF AskLink, authTables, payslipTables, browserState
<1>5. LinkInv'
  BY <1>4 DEF IInv, LinkInv, IsLink, Ids
<1>6. RequestInv'
  BY <1>2, <1>3, <1>4 DEF IInv, RequestInv, Few, Ids
<1>7. Remains
  BY <1>4 DEF Remains, Spent, SpentNext
<1>8. SignInProved'
  BY <1>2, <1>4, <1>7, StaysProved DEF IInv, SignInProved
<1>9. ASSUME NEW f \in Emails PROVE Cardinality(Young(f)') + Cardinality(Storers(f)') <= MaxRequests
  <2>1. Young(f)' = Young(f)
    BY <1>4 DEF Young
  <2>2. CASE f = e
    <3>1. Young(f) = {}
      BY <2>2 DEF AskLink, Recent, Waiting, Young
    <3>2. Storers(f)' \subseteq requests'
      BY DEF Storers
    <3>3. /\ IsFiniteSet(Storers(f)') /\ Cardinality(Storers(f)') <= Cardinality(requests')
          /\ Cardinality(requests') \in Nat
      BY <3>2, <1>3, FS_Subset, FS_CardinalityType DEF Few
    <3>4. Cardinality(Storers(f)') \in Nat /\ Cardinality(Young(f)') = 0
      BY <2>1, <3>1, <3>3, FS_CardinalityType, FS_EmptySet
    <3>. QED
      BY <1>3, <3>3, <3>4, RequestsAssumption DEF Few
  <2>3. CASE f # e
    <3>1. Storers(f)' = Storers(f)
      BY <1>2, <2>3 DEF Storers
    <3>. QED
      BY <2>1, <3>1 DEF IInv, LinksPerCooldown
  <2>. QED
    BY <2>2, <2>3
<1>. QED
  BY <1>5, <1>6, <1>8, <1>9 DEF SignInKept, LinksPerCooldown

\* The link stored is one more among the young, its request one less among the storers.
LEMMA StoresLink == ASSUME IInv, NEW r \in requests, StoreLink(r) PROVE SignInKept
<1>1. PICK id : id = FreshLink
  OBVIOUS
<1>2. id \notin Ids(links)
  BY <1>1 DEF StoreLink, FreshLink
<1>3. PICK new : new = MagicLink(r.email)
  OBVIOUS
<1>4. links' = links \cup {new} /\ UNCHANGED <<now, mails, sessions, payslips, page>>
  BY <1>3 DEF StoreLink, payslipTables, browserState
<1>5. new.id = id /\ new.created = now /\ new.email = r.email /\ ~new.used /\ IsLink(new)
  BY <1>1, <1>3 DEF MagicLink, IsLink, IInv
<1>6. PICK mailing : mailing = [slot |-> r.slot, op |-> "ask", step |-> "mail", link |-> id]
  OBVIOUS
<1>7. requests' = (requests \ {r}) \cup {mailing} /\ Few'
  BY <1>1, <1>6, GoingOn DEF StoreLink, Copy
<1>8. mailing.op = "ask" /\ mailing.step = "mail" /\ mailing.link = id
  BY <1>6
<1>9. LinkInv'
  BY <1>2, <1>4, <1>5 DEF IInv, LinkInv, Ids, IsLink
<1>10. IsFiniteSet(links')
  BY <1>4, FS_AddElement DEF IInv, RequestInv
<1>11. RequestInv'
  BY <1>2, <1>4, <1>5, <1>7, <1>8, <1>10 DEF IInv, RequestInv, LinkInv, Few, Ids
<1>12. Remains
  BY <1>4 DEF Remains, Spent, SpentNext
<1>13. SignInProved'
  BY <1>4, <1>7, <1>8, <1>12, StaysProved DEF IInv, SignInProved
<1>14. ASSUME NEW f \in Emails PROVE Cardinality(Young(f)') + Cardinality(Storers(f)') <= MaxRequests
  <2>1. Young(f) \subseteq links /\ Storers(f) \subseteq requests
    BY DEF Young, Storers
  <2>2. IsFiniteSet(Young(f)) /\ IsFiniteSet(Storers(f))
    BY <2>1, FS_Subset DEF IInv, RequestInv
  <2>3. Cardinality(Young(f)) + Cardinality(Storers(f)) <= MaxRequests
    BY DEF IInv, LinksPerCooldown
  <2>4. Cardinality(Young(f)) \in Nat /\ Cardinality(Storers(f)) \in Nat
    BY <2>2, FS_CardinalityType
  <2>5. CASE f # r.email
    <3>1. Young(f)' = Young(f) /\ Storers(f)' = Storers(f)
      BY <1>4, <1>5, <1>7, <1>8, <2>5 DEF Young, Storers
    <3>. QED
      BY <2>3, <3>1
  <2>6. CASE f = r.email
    <3>1. Young(f)' \subseteq Young(f) \cup {new}
      BY <1>4 DEF Young
    <3>2. Storers(f)' = Storers(f) \ {r} /\ r \in Storers(f)
      BY <1>7, <1>8, <2>6 DEF Storers, StoreLink
    <3>3. Cardinality(Storers(f)') = Cardinality(Storers(f)) - 1 /\ IsFiniteSet(Storers(f)')
      BY <2>2, <3>2, FS_RemoveElement
    <3>4. /\ IsFiniteSet(Young(f) \cup {new})
          /\ Cardinality(Young(f) \cup {new}) \in {Cardinality(Young(f)), Cardinality(Young(f)) + 1}
      BY <2>2, FS_AddElement
    <3>5. Cardinality(Young(f)') <= Cardinality(Young(f) \cup {new}) /\ IsFiniteSet(Young(f)')
      BY <3>1, <3>4, FS_Subset
    <3>6. Cardinality(Young(f)') \in Nat
      BY <3>5, FS_CardinalityType
    <3>. QED
      BY <2>3, <2>4, <3>3, <3>4, <3>5, <3>6, RequestsAssumption
  <2>. QED
    BY <2>5, <2>6
<1>. QED
  BY <1>9, <1>11, <1>13, <1>14 DEF SignInKept, LinksPerCooldown

LEMMA SendsMail == ASSUME IInv, NEW r \in requests, SendMail(r) PROVE SignInKept
<1>1. requests' \subseteq requests /\ Few'
  BY Ending DEF SendMail
<1>2. mails' = mails \cup {r.link} /\ UNCHANGED <<now, links, sessions, payslips, page>>
  BY DEF SendMail, payslipTables, browserState
<1>3. r.link \in Ids(links)
  BY DEF IInv, RequestInv, SendMail
<1>4. LinkInv'
  BY <1>2, <1>3 DEF IInv, LinkInv, IsLink, Ids
<1>5. RequestInv'
  BY <1>1, <1>2 DEF IInv, RequestInv, Few, Ids
<1>6. LinksPerCooldown'
  BY <1>1, <1>2, NoMoreLinks DEF IInv
<1>7. Remains
  BY <1>2 DEF Remains, Spent, SpentNext
<1>8. SignInProved'
  BY <1>1, <1>2, <1>7, StaysProved DEF IInv, SignInProved
<1>. QED
  BY <1>4, <1>5, <1>6, <1>8 DEF SignInKept

Marked(l, id) == IF l.id = id THEN [l EXCEPT !.used = TRUE] ELSE l

\* What UseLink makes of a link.
MarkOf(m, l, id) ==
  /\ m.id = l.id /\ m.email = l.email /\ IsLink(m)
  /\ l.used \/ l.id = id => m.used
  /\ ~m.used => m = l

LEMMA UsesLink == ASSUME IInv, NEW r \in requests, UseLink(r) PROVE SignInKept
<1>1. PICK going : going = [slot |-> r.slot, op |-> "verify", step |-> "user", browser |-> r.browser, link |-> r.link]
  OBVIOUS
<1>2. requests' = (requests \ {r}) \cup {going} /\ Few'
  BY <1>1, GoingOn DEF UseLink, Verifying, Copy
<1>3. going.op = "verify" /\ going.step = "user" /\ going.link = r.link /\ r.link \in mails
  BY <1>1 DEF UseLink, IInv, RequestInv
<1>4. UNCHANGED <<now, mails, sessions, payslips, page>>
  BY DEF UseLink, payslipTables, browserState
<1>5. ASSUME NEW l \in links PROVE MarkOf(Marked(l, r.link), l, r.link)
  <2>1. IsLink(l)
    BY DEF IInv, LinkInv
  <2>2. CASE l.id = r.link
    <3>1. Marked(l, r.link) = [l EXCEPT !.used = TRUE]
      BY <2>2 DEF Marked
    <3>2. Marked(l, r.link) = [id |-> l.id, email |-> l.email, created |-> l.created, expires |-> l.expires, used |-> TRUE]
      BY <2>1, <3>1 DEF IsLink
    <3>. QED
      BY <2>1, <3>2 DEF IsLink, MarkOf
  <2>3. CASE l.id # r.link
    BY <2>1, <2>3 DEF Marked, MarkOf
  <2>. QED
    BY <2>2, <2>3
<1>6. links' = {Marked(l, r.link) : l \in links}
  BY DEF UseLink, Marked
<1>7. ASSUME NEW m \in links' PROVE \E l \in links : m = Marked(l, r.link) /\ MarkOf(m, l, r.link)
  <2>1. PICK l \in links : m = Marked(l, r.link)
    BY <1>6
  <2>. QED
    BY <1>5, <2>1
<1>8. ASSUME NEW l \in links PROVE \E m \in links' : MarkOf(m, l, r.link)
  BY <1>5, <1>6
<1>9. IsFiniteSet(links')
  <2>1. PICK f : f = [l \in links |-> Marked(l, r.link)]
    OBVIOUS
  <2>2. f \in Surjection(links, links')
    BY <1>6, <2>1 DEF Surjection
  <2>. QED
    BY <2>2, FS_Surjection DEF IInv, RequestInv
<1>10. Ids(links)' = Ids(links)
  BY <1>7, <1>8 DEF Ids, MarkOf
<1>11. LinkInv'
  <2>1. ASSUME NEW k \in links', NEW l \in links', k.id = l.id PROVE k = l
    <3>1. PICK x \in links : k = Marked(x, r.link) /\ MarkOf(k, x, r.link)
      BY <1>7
    <3>2. PICK y \in links : l = Marked(y, r.link) /\ MarkOf(l, y, r.link)
      BY <1>7
    <3>3. x.id = y.id
      BY <2>1, <3>1, <3>2 DEF MarkOf
    <3>4. x = y
      BY <3>3 DEF IInv, LinkInv
    <3>. QED
      BY <3>1, <3>2, <3>4
  <2>2. \A l \in links' : IsLink(l)
    BY <1>7 DEF MarkOf
  <2>. QED
    BY <1>4, <1>10, <2>1, <2>2 DEF IInv, LinkInv
<1>12. RequestInv'
  <2>1. \A m \in links' : m.id = r.link => m.used
    BY <1>7 DEF MarkOf
  <2>2. ASSUME NEW q \in requests, q.op = "verify", q.step # "use", NEW m \in links', m.id = q.link PROVE m.used
    BY <1>7, <2>2 DEF MarkOf, IInv, RequestInv
  <2>. QED
    BY <1>2, <1>3, <1>4, <1>9, <1>10, <2>1, <2>2 DEF IInv, RequestInv, Few
<1>13. \A l \in links' : ~l.used => l \in links
  BY <1>7 DEF MarkOf
<1>14. LinksPerCooldown'
  BY <1>2, <1>3, <1>4, <1>13, NoMoreLinks DEF IInv
<1>15. Remains
  <2>. SUFFICES ASSUME NEW e, NEW l \in Spent(e) PROVE \E k \in SpentNext(e) : k.id = l.id
    BY DEF Remains
  <2>1. l \in links /\ l.email = e /\ l.id \in mails /\ l.used
    BY DEF Spent
  <2>2. PICK k \in links' : MarkOf(k, l, r.link)
    BY <1>8, <2>1
  <2>. QED
    BY <1>4, <2>1, <2>2 DEF SpentNext, MarkOf
<1>16. SignInProved'
  BY <1>2, <1>3, <1>4, <1>15, StaysProved DEF IInv, SignInProved
<1>. QED
  BY <1>11, <1>12, <1>14, <1>16 DEF SignInKept

\* The link of a verification is mailed and spent by the time its session is stored.
LEMMA CreatesSession == ASSUME IInv, NEW r \in requests, CreateSession(r) PROVE SignInKept
<1>1. requests' \subseteq requests /\ Few'
  BY Ending DEF CreateSession
<1>2. UNCHANGED <<now, links, mails, payslips>>
  BY DEF CreateSession, payslipTables
<1>3. PICK token : sessions' = sessions \cup {AuthSession(token, r.link)}
  BY DEF CreateSession
<1>4. PICK l : l = LinkOf(r.link)
  OBVIOUS
<1>5. l \in links /\ l.id = r.link /\ l.id \in mails /\ l.used
  <2>1. r.link \in mails /\ r.link \in Ids(links) /\ \A k \in links : k.id = r.link => k.used
    BY DEF IInv, RequestInv, LinkInv, CreateSession
  <2>. QED
    BY <1>4, <2>1, LinkById
<1>6. PICK s : s = AuthSession(token, r.link)
  OBVIOUS
<1>7. s.link = r.link /\ s.email = l.email
  BY <1>4, <1>6 DEF AuthSession
<1>8. l \in SpentNext(s.email)
  BY <1>2, <1>5, <1>7 DEF SpentNext
<1>9. LinkInv'
  BY <1>2 DEF IInv, LinkInv, IsLink, Ids
<1>10. RequestInv'
  BY <1>1, <1>2 DEF IInv, RequestInv, Few, Ids
<1>11. LinksPerCooldown'
  BY <1>1, <1>2, NoMoreLinks DEF IInv
<1>12. Remains
  BY <1>2 DEF Remains, Spent, SpentNext
<1>13. \A b \in Browsers : page'[b] \in {page[b], NoUser}
  BY DEF CreateSession, IInv
<1>14. \A x \in sessions' : x \in sessions \/ \E k \in SpentNext(x.email) : k.id = x.link
  BY <1>3, <1>5, <1>6, <1>7, <1>8
<1>15. SignInProved'
  BY <1>1, <1>2, <1>12, <1>13, <1>14, StaysProved DEF IInv, SignInProved
<1>. QED
  BY <1>9, <1>10, <1>11, <1>15 DEF SignInKept

-----------------------------------------------------------------------------
(* The rows                                                                *)

LEMMA KeepsRows == ASSUME IInv, UNCHANGED payslipTables PROVE RowInv' /\ AnalysisWhole'
BY DEF IInv, payslipTables, RowInv, AnalysisWhole, IsRow, Ids

\* Rows that go take their analyses with them.
LEMMA DropsWhole == ASSUME IInv, NEW rows, rows \subseteq payslips, DropPayslips(rows) PROVE RowInv' /\ AnalysisWhole'
<1>1. RowInv'
  BY DEF IInv, RowInv, IsRow, DropPayslips
<1>2. \A a \in analyses' : a.payslip \in Ids(payslips)'
  BY DEF IInv, AnalysisWhole, DropPayslips, Ids
<1>3. ASSUME NEW p \in payslips'
      PROVE  {a \in analyses' : a.payslip = p.id} = {a \in analyses : a.payslip = p.id}
  <2>1. p \in payslips /\ p.id \notin Ids(rows)
    BY DEF IInv, RowInv, DropPayslips, Ids
  <2>. QED
    BY <2>1 DEF DropPayslips
<1>4. payslips' \subseteq payslips
  BY DEF DropPayslips
<1>. QED
  BY <1>1, <1>2, <1>3, <1>4 DEF IInv, AnalysisWhole

LEMMA StoresRow == ASSUME IInv, NEW r, StoreRow(r) PROVE RowInv' /\ AnalysisWhole'
<1>1. PICK id \in 1..MaxRows \ Ids(payslips) : payslips' = payslips \cup {PayslipRow(id, r.owner, Retention(r.owner))}
  BY DEF StoreRow
<1>2. PICK new : new = PayslipRow(id, r.owner, Retention(r.owner))
  OBVIOUS
<1>3. new.id = id /\ new.status = "manual_review" /\ IsRow(new)
  BY <1>2 DEF PayslipRow, IsRow, IInv
<1>4. RowInv'
  BY <1>1, <1>2, <1>3 DEF IInv, RowInv, IsRow, Ids
<1>5. analyses' = analyses /\ \A a \in analyses : a.payslip # id
  BY DEF StoreRow, IInv, AnalysisWhole, Ids
<1>6. AnalysisWhole'
  BY <1>1, <1>2, <1>3, <1>5 DEF IInv, AnalysisWhole, Ids
<1>. QED
  BY <1>4, <1>6

LEMMA Analyzes == ASSUME IInv, NEW p \in payslips, NEW status, analyze(p, status) PROVE RowInv' /\ AnalysisWhole'
<1>1. PICK new : new = [p EXCEPT !.status = status]
  OBVIOUS
<1>2. IsRow(p)
  BY DEF IInv, RowInv
<1>3. /\ new.id = p.id /\ new.owner = p.owner /\ new.created = p.created /\ new.until = p.until /\ new.status = status
      /\ IsRow(new)
  BY <1>1, <1>2 DEF IsRow
<1>4. payslips' = (payslips \ {p}) \cup {new} /\ analyses' = analyses \cup {[payslip |-> p.id, status |-> status]}
  BY <1>1 DEF analyze, AnalysisRow
<1>5. RowInv'
  BY <1>3, <1>4 DEF IInv, RowInv, IsRow
<1>6. \A a \in analyses' : a.payslip \in Ids(payslips)'
  BY <1>3, <1>4 DEF IInv, AnalysisWhole, Ids
<1>7. ASSUME NEW q \in payslips \ {p}
      PROVE  {a \in analyses' : a.payslip = q.id} = {a \in analyses : a.payslip = q.id}
  BY <1>4, q.id # p.id DEF IInv, RowInv
<1>8. \E a \in analyses' : a.payslip = new.id /\ a.status = new.status
  <2>1. PICK a : a = [payslip |-> p.id, status |-> status]
    OBVIOUS
  <2>2. a \in analyses' /\ a.payslip = p.id /\ a.status = status
    BY <1>4, <2>1
  <2>. QED
    BY <1>3, <2>2
<1>9. ASSUME NEW q \in payslips'
      PROVE  \/ q.status = "manual_review" /\ {a \in analyses' : a.payslip = q.id} = {}
             \/ \E a \in {x \in analyses' : x.payslip = q.id} : a.status = q.status
  <2>1. CASE q = new
    BY <1>8, <2>1
  <2>2. CASE q \in payslips \ {p}
    BY <1>7, <2>2 DEF IInv, AnalysisWhole
  <2>. QED
    BY <1>4, <2>1, <2>2
<1>. QED
  BY <1>5, <1>6, <1>9 DEF AnalysisWhole

-----------------------------------------------------------------------------
(* Every step                                                              *)

LEMMA NextIInv == ASSUME IInv, [Next]_vars PROVE IInv'
<1>1. CASE UNCHANGED vars
  <2>1. LinkInv' /\ RequestInv' /\ RowInv' /\ AnalysisWhole'
    BY <1>1 DEF vars, IInv, LinkInv, RequestInv, RowInv, AnalysisWhole, IsLink, IsRow, Ids
  <2>2. LinksPerCooldown' /\ SignInProved'
    BY <1>1 DEF vars, IInv, LinksPerCooldown, SignInProved, Young, Storers, Spent
  <2>. QED
    BY <1>1, <2>1, <2>2 DEF vars, IInv
<1>2. ASSUME now' \in Nat, DOMAIN page' = Browsers, SignInKept, RowInv', AnalysisWhole' PROVE IInv'
  BY <1>2 DEF IInv, SignInKept
<1>3. ASSUME now' = now, DOMAIN page' = Browsers, SignInKept, UNCHANGED payslipTables PROVE IInv'
  BY <1>2, <1>3, KeepsRows DEF IInv
<1>4. ASSUME UNCHANGED <<links, mails>>, now' \in Nat, now <= now', sessions' \subseteq sessions, page' = page, Few',
             \A r \in requests' : r \in requests \/ Sound(r),
             \A p \in payslips' : (\E q \in payslips : q.owner = p.owner) \/ p.owner = NoUser \/ Spent(p.owner) # {},
             RowInv', AnalysisWhole'
      PROVE  IInv'
  BY <1>2, <1>4, LinksStay DEF IInv
<1>5. ASSUME UNCHANGED <<now, links, mails, page, payslipTables>>, sessions' \subseteq sessions, Few',
             \A r \in requests' : r \in requests \/ Sound(r)
      PROVE  IInv'
  BY <1>4, <1>5, KeepsRows DEF IInv, payslipTables
<1>6. CASE SignIn
  <2>1. ASSUME NEW e \in Emails, AskLink(e) PROVE IInv'
    BY <1>3, <2>1, Asks DEF AskLink, browserState, IInv
  <2>2. ASSUME NEW b \in Browsers, NEW id \in mails, OpenLink(b, id) PROVE IInv'
    <3>1. PICK n : requests' = requests \cup {Copy(Verifying("use", b, id), n)}
      BY <2>2, Starting DEF OpenLink
    <3>2. Sound(Copy(Verifying("use", b, id), n))
      BY DEF Sound, Copy, Verifying
    <3>3. Few'
      BY <2>2, Starting DEF OpenLink
    <3>. QED
      BY <1>5, <2>2, <3>1, <3>2, <3>3 DEF OpenLink, authTables, browserState
  <2>3. ASSUME NEW r \in requests, StoreLink(r) PROVE IInv'
    BY <1>3, <2>3, StoresLink DEF StoreLink, browserState, IInv
  <2>4. ASSUME NEW r \in requests, SendMail(r) PROVE IInv'
    BY <1>3, <2>4, SendsMail DEF SendMail, browserState, IInv
  <2>5. ASSUME NEW r \in requests, UseLink(r) PROVE IInv'
    BY <1>3, <2>5, UsesLink DEF UseLink, browserState, IInv
  <2>6. ASSUME NEW r \in requests, UpsertUser(r) PROVE IInv'
    <3>1. PICK going : going = [slot |-> r.slot, op |-> "verify", step |-> "session", browser |-> r.browser, link |-> r.link]
      OBVIOUS
    <3>2. requests' = (requests \ {r}) \cup {going} /\ Few'
      BY <2>6, <3>1, GoingOn DEF UpsertUser, Verifying, Copy
    <3>3. Sound(going)
      BY <2>6, <3>1 DEF Sound, IInv, RequestInv, UpsertUser
    <3>. QED
      BY <1>5, <2>6, <3>2, <3>3 DEF UpsertUser, browserState
  <2>7. ASSUME NEW r \in requests, CreateSession(r) PROVE IInv'
    BY <1>3, <2>7, CreatesSession DEF CreateSession, IInv
  <2>. QED
    BY <1>6, <2>1, <2>2, <2>3, <2>4, <2>5, <2>6, <2>7 DEF SignIn
<1>7. CASE Page
  <2>1. ASSUME NEW b \in Browsers, Me(b) PROVE IInv'
    <3>1. PICK user : /\ page' = [page EXCEPT ![b] = user]
                      /\ user = NoUser \/ user \in UserOf(b)
      BY <2>1 DEF Me
    <3>2. user = NoUser \/ Spent(user) # {}
      BY <3>1, UserProved
    <3>3. \A c \in Browsers : page'[c] \in {page[c], NoUser} \/ Spent(page'[c]) # {}
      BY <3>1, <3>2 DEF IInv
    <3>4. UNCHANGED <<now, links, mails, sessions, payslips, requests>> /\ UNCHANGED payslipTables
      BY <2>1 DEF Me, authTables, payslipTables
    <3>5. Few'
      BY <3>4 DEF Few, IInv, RequestInv
    <3>6. SignInKept
      BY <3>3, <3>4, <3>5, LinksStay DEF IInv
    <3>. QED
      BY <1>3, <3>1, <3>4, <3>6 DEF IInv
  <2>2. ASSUME NEW b \in Browsers, NEW deleted \in BOOLEAN, logout(b, deleted) PROVE IInv'
    <3>1. page' = [page EXCEPT ![b] = NoUser] /\ sessions' \subseteq sessions
      BY <2>2 DEF logout
    <3>2. \A c \in Browsers : page'[c] \in {page[c], NoUser}
      BY <3>1 DEF IInv
    <3>3. UNCHANGED <<now, links, mails, payslips, requests>> /\ UNCHANGED payslipTables
      BY <2>2 DEF logout, payslipTables
    <3>4. Few'
      BY <3>3 DEF Few, IInv, RequestInv
    <3>5. SignInKept
      BY <3>1, <3>2, <3>3, <3>4, LinksStay DEF IInv
    <3>. QED
      BY <1>3, <3>1, <3>3, <3>5 DEF IInv
  <2>3. ASSUME NEW b \in Browsers, deleteMyData(b) PROVE IInv'
    <3>1. PICK owner \in UserOf(b) : Start([slot |-> 0, op |-> "delete", step |-> "rows", owner |-> owner])
      BY <2>3 DEF deleteMyData
    <3>2. PICK n : requests' = requests \cup {Copy([slot |-> 0, op |-> "delete", step |-> "rows", owner |-> owner], n)}
      BY <3>1, Starting
    <3>3. Sound(Copy([slot |-> 0, op |-> "delete", step |-> "rows", owner |-> owner], n))
      BY <3>1, UserProved DEF Sound, Copy
    <3>4. Few'
      BY <3>1, Starting
    <3>. QED
      BY <1>5, <2>3, <3>2, <3>3, <3>4 DEF deleteMyData, authTables, browserState
  <2>4. ASSUME NEW b \in Browsers, Upload(b) PROVE IInv'
    <3>1. PICK owner : /\ owner = NoUser \/ owner \in UserOf(b)
                       /\ Start([slot |-> 0, op |-> "upload", step |-> "row", owner |-> owner])
      BY <2>4 DEF Upload
    <3>2. PICK n : requests' = requests \cup {Copy([slot |-> 0, op |-> "upload", step |-> "row", owner |-> owner], n)}
      BY <3>1, Starting
    <3>3. Sound(Copy([slot |-> 0, op |-> "upload", step |-> "row", owner |-> owner], n))
      BY <3>1, UserProved DEF Sound, Copy
    <3>4. Few'
      BY <3>1, Starting
    <3>. QED
      BY <1>5, <2>4, <3>2, <3>3, <3>4 DEF Upload, authTables, browserState
  <2>. QED
    BY <1>7, <2>1, <2>2, <2>3, <2>4 DEF Page
<1>8. CASE Rows
  <2>1. ASSUME NEW r \in requests, DeleteRows(r) PROVE IInv'
    <3>1. RowInv' /\ AnalysisWhole'
      BY <2>1, DropsWhole DEF DeleteRows
    <3>2. requests' \subseteq requests /\ Few' /\ payslips' \subseteq payslips
      BY <2>1, Ending DEF DeleteRows, DropPayslips
    <3>. QED
      BY <1>4, <2>1, <3>1, <3>2 DEF DeleteRows, authTables, browserState, IInv
  <2>2. ASSUME NEW r \in requests, StoreRow(r) PROVE IInv'
    <3>1. RowInv' /\ AnalysisWhole'
      BY <2>2, StoresRow
    <3>2. requests' \subseteq requests /\ Few'
      BY <2>2, Ending DEF StoreRow
    <3>3. PICK id : payslips' = payslips \cup {PayslipRow(id, r.owner, Retention(r.owner))}
      BY <2>2 DEF StoreRow
    <3>4. PayslipRow(id, r.owner, Retention(r.owner)).owner = r.owner
      BY DEF PayslipRow
    <3>5. r.owner = NoUser \/ Spent(r.owner) # {}
      BY <2>2 DEF StoreRow, IInv, SignInProved
    <3>. QED
      BY <1>4, <2>2, <3>1, <3>2, <3>3, <3>4, <3>5 DEF StoreRow, authTables, browserState, IInv
  <2>3. ASSUME NEW p \in payslips, NEW status \in {"consistent", "attention"}, analyze(p, status) PROVE IInv'
    <3>1. RowInv' /\ AnalysisWhole'
      BY <2>3, Analyzes
    <3>2. PICK new : new = [p EXCEPT !.status = status]
      OBVIOUS
    <3>3. new.owner = p.owner
      BY <3>2 DEF IInv, RowInv, IsRow
    <3>4. payslips' = (payslips \ {p}) \cup {new}
      BY <2>3, <3>2 DEF analyze
    <3>5. Few' /\ requests' = requests
      BY <2>3 DEF analyze, Few, IInv, RequestInv
    <3>. QED
      BY <1>4, <2>3, <3>1, <3>3, <3>4, <3>5 DEF analyze, authTables, browserState, IInv
  <2>. QED
    BY <1>8, <2>1, <2>2, <2>3 DEF Rows
<1>9. CASE CleanupExpired
  <2>1. RowInv' /\ AnalysisWhole' /\ payslips' \subseteq payslips
    BY <1>9, DropsWhole DEF CleanupExpired, Expired, DropPayslips
  <2>2. Few' /\ requests' = requests
    BY <1>9 DEF CleanupExpired, Few, IInv, RequestInv
  <2>. QED
    BY <1>4, <1>9, <2>1, <2>2 DEF CleanupExpired, authTables, browserState, IInv
<1>10. CASE Tick
  <2>1. now' \in Nat /\ now <= now'
    BY <1>10 DEF Tick, IInv
  <2>2. Few' /\ requests' = requests
    BY <1>10 DEF Tick, Few, IInv, RequestInv
  <2>3. RowInv' /\ AnalysisWhole'
    BY <1>10, KeepsRows DEF Tick
  <2>. QED
    BY <1>4, <1>10, <2>1, <2>2, <2>3 DEF Tick, authTables, payslipTables, browserState
<1>11. CASE \E r \in requests : Fails(r)
  <2>1. requests' \subseteq requests /\ Few'
    BY <1>11, Ending DEF Fails
  <2>. QED
    BY <1>5, <1>11, <2>1 DEF Fails, authTables, browserState
<1>. QED
  BY <1>1, <1>6, <1>7, <1>8, <1>9, <1>10, <1>11 DEF Next

LEMMA Invariance == Spec => []IInv
BY InitIInv, NextIInv, PTL DEF Spec

-----------------------------------------------------------------------------
(* The theorems                                                            *)

\* Requests may pass the cooldown together, but the unused links an address got within
\* one, with those POST /session is about to store, are no more than the requests at once.
THEOREM CooldownBounds == Spec => []LinksPerCooldown
<1>1. IInv => LinksPerCooldown
  BY DEF IInv
<1>. QED
  BY Invariance, <1>1, PTL

\* Every session, every user a page shows and every owner of a stored payslip comes from
\* a link mailed to that address which GET /verify has spent.
THEOREM Proved == Spec => []SignInProved
<1>1. IInv => SignInProved
  BY DEF IInv
<1>. QED
  BY Invariance, <1>1, PTL

\* Every analysis has its row, and a row waits for its review or tells of one of its
\* analyses, whichever of upload, analysis, deletion and clean-up came between.
THEOREM Whole == Spec => []AnalysisWhole
<1>1. IInv => AnalysisWhole
  BY DEF IInv
<1>. QED
  BY Invariance, <1>1, PTL

\* Before its retention, counted from the upload, has passed, only its owner's deletion takes a stored payslip.
THEOREM Kept == Spec => KeptForRetention
<1>1. ASSUME IInv, [Next]_vars, NEW p \in payslips, p.id \notin Ids(payslips')
      PROVE  \/ now > p.created + (IF p.owner = NoUser THEN ShortRetention ELSE LongRetention)
             \/ \E r \in requests \ requests' : r.op = "delete" /\ r.owner = p.owner
  <2>1. p \notin payslips'
    BY <1>1 DEF Ids
  <2>2. IsRow(p) /\ now \in Nat
    BY <1>1 DEF IInv, RowInv
  <2>3. CASE CleanupExpired
    <3>1. p.until < now
      BY <1>1, <2>1, <2>3 DEF CleanupExpired, Expired, DropPayslips
    <3>2. p.until = p.created + (IF p.owner = NoUser THEN ShortRetention ELSE LongRetention)
      BY <2>2 DEF IsRow, Retention
    <3>. QED
      BY <2>2, <3>1, <3>2, TimesAssumption DEF IsRow
  <2>4. ASSUME NEW r \in requests, DeleteRows(r) PROVE r \in requests \ requests' /\ r.op = "delete" /\ r.owner = p.owner
    BY <1>1, <2>1, <2>4 DEF DeleteRows, DropPayslips, Ends
  <2>5. ASSUME NEW r, StoreRow(r) PROVE FALSE
    BY <1>1, <2>1, <2>5 DEF StoreRow
  <2>6. ASSUME NEW q \in payslips, NEW status, analyze(q, status) PROVE FALSE
    <3>1. p = q /\ [q EXCEPT !.status = status] \in payslips'
      BY <1>1, <2>1, <2>6 DEF analyze
    <3>2. [q EXCEPT !.status = status].id = p.id
      BY <2>2, <3>1 DEF IsRow
    <3>. QED
      BY <1>1, <3>1, <3>2 DEF Ids
  <2>7. CASE UNCHANGED payslips
    BY <1>1, <2>1, <2>7
  <2>8. CASE UNCHANGED vars
    BY <2>7, <2>8 DEF vars
  <2>9. CASE SignIn \/ Page \/ Tick \/ \E r \in requests : Fails(r)
    BY <2>7, <2>9 DEF SignIn, Page, Tick, Fails, AskLink, OpenLink, StoreLink, SendMail, UseLink, UpsertUser, CreateSession,
                      Me, logout, deleteMyData, Upload, payslipTables
  <2>. QED
    BY <1>1, <2>3, <2>4, <2>5, <2>6, <2>8, <2>9 DEF Next, Rows
<1>2. IInv /\ [Next]_vars => [\A p \in payslips : p.id \notin Ids(payslips') =>
         \/ now > p.created + (IF p.owner = NoUser THEN ShortRetention ELSE LongRetention)
         \/ \E r \in requests \ requests' : r.op = "delete" /\ r.owner = p.owner]_vars
  BY <1>1
<1>. QED
  BY Invariance, <1>2, PTL DEF Spec, KeptForRetention

=============================================================================
