------------------------- MODULE AdvisorChat_proofs -------------------------
(***************************************************************************)
(* Proofs about AdvisorChat, for any number of messages, files, resets and *)
(* records.                                                                *)
(***************************************************************************)
EXTENDS AdvisorChat, SequenceTheorems, TLAPS

-----------------------------------------------------------------------------
(* Sequences *)

LEMMA ReverseElements ==
  ASSUME NEW s \in Seq(Nat), NEW r, r = Reverse(s)
  PROVE  r \in Seq(Nat) /\ Len(r) = Len(s) /\ \A i \in 1 .. Len(s) : r[i] = s[Len(s) - i + 1]
<1>1. Len(s) \in Nat /\ \A i \in 1 .. Len(s) : s[i] \in Nat /\ (Len(s) - i) + 1 \in 1 .. Len(s)
  BY LenProperties, ElementOfSeq
<1>2. r \in [1 .. Len(s) -> Nat]
  BY <1>1 DEF Reverse
<1>3. r \in Seq(Nat)
  BY <1>1, <1>2, SeqDef
<1>4. Len(r) = Len(s)
  BY <1>1, <1>2, <1>3, LenProperties
<1>. QED
  BY <1>3, <1>4 DEF Reverse

LEMMA PrefixElements ==
  ASSUME NEW r \in Seq(Nat), NEW q \in Seq(Nat)
  PROVE  IsPrefix(r, q) <=> Len(r) <= Len(q) /\ \A i \in 1 .. Len(r) : r[i] = q[i]
<1>1. Len(r) \in Nat /\ Len(q) \in Nat
  BY LenProperties
<1>2. SubSeq(r, 1, Len(r)) = r
  BY SubSeqFull
<1>3. ASSUME Len(r) <= Len(q)
      PROVE  SubSeq(q, 1, Len(r)) \in Seq(Nat) /\ Len(SubSeq(q, 1, Len(r))) = Len(r)
             /\ \A i \in 1 .. Len(r) : SubSeq(q, 1, Len(r))[i] = q[i]
  <2>1. \A i \in 1 .. Len(r) : q[i] \in Nat
    BY <1>1, <1>3, ElementOfSeq
  <2>. QED
    BY <1>1, <2>1, SubSeqProperties
<1>4. ASSUME Len(r) <= Len(q), \A i \in 1 .. Len(r) : r[i] = q[i]
      PROVE  r = SubSeq(q, 1, Len(r))
  BY <1>1, <1>3, <1>4, SeqEqual
<1>. QED
  BY <1>2, <1>3, <1>4 DEF IsPrefix

LEMMA Mirror ==
  ASSUME NEW n \in Nat, NEW m \in Nat, n <= m, NEW i \in 1 .. n
  PROVE  /\ n - i + 1 \in 1 .. n /\ n - i + 1 \in 1 .. m /\ n - (n - i + 1) + 1 = i
         /\ m - (n - i + 1) + 1 = m - n + i /\ m - n + (n - i + 1) = m - i + 1
         /\ i \in 1 .. m /\ m - n + i \in 1 .. m /\ (m + 1) - (n + 1) + i = m - n + i
OBVIOUS

LEMMA SuffixElements ==
  ASSUME NEW s \in Seq(Nat), NEW t \in Seq(Nat)
  PROVE  IsSuffix(s, t) <=> Len(s) <= Len(t) /\ \A i \in 1 .. Len(s) : s[i] = t[Len(t) - Len(s) + i]
<1>1. PICK r : r = Reverse(s)
  OBVIOUS
<1>2. PICK q : q = Reverse(t)
  OBVIOUS
<1>3. /\ r \in Seq(Nat) /\ Len(r) = Len(s) /\ \A i \in 1 .. Len(s) : r[i] = s[Len(s) - i + 1]
      /\ q \in Seq(Nat) /\ Len(q) = Len(t) /\ \A i \in 1 .. Len(t) : q[i] = t[Len(t) - i + 1]
  BY <1>1, <1>2, ReverseElements
<1>4. IsSuffix(s, t) <=> Len(s) <= Len(t) /\ \A i \in 1 .. Len(s) : r[i] = q[i]
  <2>1. IsSuffix(s, t) <=> IsPrefix(r, q)
    BY <1>1, <1>2 DEF IsSuffix
  <2>. QED
    BY <1>3, <2>1, PrefixElements
<1>. Len(s) \in Nat /\ Len(t) \in Nat
  BY LenProperties
<1>5. ASSUME Len(s) <= Len(t), \A i \in 1 .. Len(s) : r[i] = q[i], NEW i \in 1 .. Len(s)
      PROVE  s[i] = t[Len(t) - Len(s) + i]
  <2>1. PICK k : k = Len(s) - i + 1
    OBVIOUS
  <2>2. k \in 1 .. Len(s) /\ k \in 1 .. Len(t) /\ Len(s) - k + 1 = i /\ Len(t) - k + 1 = Len(t) - Len(s) + i
    BY <1>5, <2>1, Mirror
  <2>3. r[k] = s[i] /\ q[k] = t[Len(t) - Len(s) + i]
    BY <1>3, <2>2
  <2>. QED
    BY <1>5, <2>2, <2>3
<1>6. ASSUME Len(s) <= Len(t), \A i \in 1 .. Len(s) : s[i] = t[Len(t) - Len(s) + i], NEW i \in 1 .. Len(s)
      PROVE  r[i] = q[i]
  <2>1. PICK k : k = Len(s) - i + 1
    OBVIOUS
  <2>2. k \in 1 .. Len(s) /\ Len(t) - Len(s) + k = Len(t) - i + 1 /\ i \in 1 .. Len(t)
    BY <1>6, <2>1, Mirror
  <2>3. r[i] = s[k] /\ q[i] = t[Len(t) - Len(s) + k]
    BY <1>3, <2>1, <2>2
  <2>. QED
    BY <1>6, <2>2, <2>3
<1>. QED
  BY <1>4, <1>5, <1>6

\* What is said last is last in both.
LEMMA SuffixAppend ==
  ASSUME NEW s \in Seq(Nat), NEW t \in Seq(Nat), NEW m \in Nat, IsSuffix(s, t)
  PROVE  IsSuffix(Append(s, m), Append(t, m))
<1>1. Len(s) <= Len(t) /\ \A i \in 1 .. Len(s) : s[i] = t[Len(t) - Len(s) + i]
  BY SuffixElements
<1>2. PICK a : a = Append(s, m)
  OBVIOUS
<1>3. PICK b : b = Append(t, m)
  OBVIOUS
<1>4. /\ a \in Seq(Nat) /\ Len(a) = Len(s) + 1 /\ a[Len(s) + 1] = m /\ \A i \in 1 .. Len(s) : a[i] = s[i]
      /\ b \in Seq(Nat) /\ Len(b) = Len(t) + 1 /\ b[Len(t) + 1] = m /\ \A i \in 1 .. Len(t) : b[i] = t[i]
  BY <1>2, <1>3, AppendProperties
<1>. Len(s) \in Nat /\ Len(t) \in Nat
  BY LenProperties
<1>5. ASSUME NEW i \in 1 .. Len(a)
      PROVE  a[i] = b[Len(b) - Len(a) + i]
  <2>1. CASE i = Len(s) + 1
    <3>1. Len(b) - Len(a) + i = Len(t) + 1
      BY <1>4, <2>1
    <3>. QED
      BY <1>4, <2>1, <3>1
  <2>2. CASE i \in 1 .. Len(s)
    <3>1. Len(b) - Len(a) + i = Len(t) - Len(s) + i /\ Len(t) - Len(s) + i \in 1 .. Len(t)
      BY <1>1, <1>4, <2>2, Mirror
    <3>2. a[i] = s[i] /\ s[i] = t[Len(t) - Len(s) + i]
      BY <1>1, <1>4, <2>2
    <3>. QED
      BY <1>4, <3>1, <3>2
  <2>. QED
    BY <1>4, <2>1, <2>2
<1>6. IsSuffix(a, b)
  <2>1. Len(a) <= Len(b)
    BY <1>1, <1>4
  <2>. QED
    BY <1>4, <1>5, <2>1, SuffixElements
<1>. QED
  BY <1>2, <1>3, <1>6

LEMMA SuffixEmpty == ASSUME NEW t \in Seq(Nat) PROVE IsSuffix(<<>>, t)
<1>1. <<>> \in Seq(Nat) /\ Len(<<>>) = 0
  BY EmptySeq
<1>2. \A i \in 1 .. Len(<<>>) : FALSE
  BY <1>1
<1>3. Len(<<>>) <= Len(t)
  BY <1>1, LenProperties
<1>. QED
  BY <1>1, <1>2, <1>3, SuffixElements

LEMMA ElementsAppend ==
  ASSUME NEW s \in Seq(Nat), NEW m \in Nat
  PROVE  Append(s, m) \in Seq(Nat) /\ ToSet(Append(s, m)) = ToSet(s) \cup {m}
<1>1. PICK a : a = Append(s, m)
  OBVIOUS
<1>2. a \in Seq(Nat) /\ Len(a) = Len(s) + 1 /\ a[Len(s) + 1] = m /\ \A i \in 1 .. Len(s) : a[i] = s[i]
  BY <1>1, AppendProperties
<1>3. DOMAIN a = DOMAIN s \cup {Len(s) + 1} /\ DOMAIN s = 1 .. Len(s)
  BY <1>2, LenProperties
<1>4. ToSet(a) = ToSet(s) \cup {m}
  BY <1>2, <1>3 DEF ToSet
<1>. QED
  BY <1>1, <1>2, <1>4

-----------------------------------------------------------------------------
(* The records only grow *)

LEMMA NoElements == ToSet(<<>>) = {}
<1>1. DOMAIN <<>> = {}
  OBVIOUS
<1>. QED
  BY <1>1 DEF ToSet

LEMMA Stored == ASSUME NEW fs \in SUBSET Nat, NEW r, r = Context(fs) \/ \E f \in Nat : fs = {f} /\ r = Batch(f)
                PROVE  r \in Record /\ r.files = fs /\ r.messages = <<>>
<1>1. PICK ms : ms = <<>>
  OBVIOUS
<1>2. ms \in Seq(Nat)
  BY <1>1, EmptySeq
<1>3. \E kind \in {"batch", "context"} : r = [kind |-> kind, files |-> fs, messages |-> ms, docRef |-> 0, gone |-> FALSE]
  BY <1>1 DEF Context, Batch, None
<1>. QED
  BY <1>1, <1>2, <1>3 DEF Record

LEMMA StoredConversation ==
  ASSUME NEW ms \in Seq(Nat), NEW d \in Nat, NEW r, r = Conversation(ms, d)
  PROVE  r \in Record /\ r.files = {} /\ r.messages = ms /\ r.docRef = d
BY DEF Conversation, Record

\* What is stored keeps its content; a record may be lost, and one may be new.
Grown ==
  /\ Len(records) <= Len(records')
  /\ \A ref \in 1 .. Len(records) :
       /\ records'[ref].files = records[ref].files
       /\ records'[ref].messages = records[ref].messages
       /\ records'[ref].docRef = records[ref].docRef

LEMMA Same == ASSUME records \in Seq(Record), records' = records PROVE records' \in Seq(Record) /\ Grown
BY DEF Grown

LEMMA Puts == ASSUME records \in Seq(Record), NEW r \in Record, Put(r)
              PROVE  /\ records' \in Seq(Record) /\ Grown
                     /\ NewRef \in 1 .. Len(records') /\ NewRef # None /\ records'[NewRef] = r
<1>1. records' = Append(records, r)
  BY DEF Put
<1>. QED
  BY <1>1 DEF Grown, NewRef, None

LEMMA Expires == ASSUME records \in Seq(Record), NEW ref \in DOMAIN records, Expire(ref)
                 PROVE  records' \in Seq(Record) /\ Grown
<1>1. records' = [records EXCEPT ![ref] = [records[ref] EXCEPT !.gone = TRUE]]
  BY DEF Expire
<1>2. PICK r : r = [records[ref] EXCEPT !.gone = TRUE]
  OBVIOUS
<1>3. records[ref] \in Record
  OBVIOUS
<1>4. /\ r \in Record /\ r.files = records[ref].files /\ r.messages = records[ref].messages
      /\ r.docRef = records[ref].docRef
  BY <1>2, <1>3 DEF Record
<1>5. records' = [records EXCEPT ![ref] = r]
  BY <1>1, <1>2
<1>6. records' \in Seq(Record) /\ Len(records') = Len(records)
  BY <1>4, <1>5
<1>7. \A k \in 1 .. Len(records) : records'[k] = IF k = ref THEN r ELSE records[k]
  BY <1>5
<1>. QED
  BY <1>4, <1>6, <1>7 DEF Grown

\* Whatever grows, a reference keeps its meaning.
LEMMA StaysFresh == ASSUME records \in Seq(Record), Grown, since' = since, NEW ref, Fresh(ref) PROVE Fresh(ref)'
BY DEF Fresh, Grown

LEMMA StaysHeld == ASSUME records \in Seq(Record), Grown, NEW d, HoldsFile(d) PROVE HoldsFile(d)'
BY DEF HoldsFile, Grown

-----------------------------------------------------------------------------
(* What a step leaves alone stays right *)

LEMMA KeepsRefs == ASSUME records \in Seq(Record), RefInv, Grown, UNCHANGED <<since, answered, refs>> PROVE RefInv'
<1>1. conversationRef' = conversationRef /\ documentContextRef' = documentContextRef /\ since' = since /\ answered' = answered
  BY DEF refs
<1>2. Fresh(documentContextRef)' /\ Fresh(conversationRef)'
  BY <1>1, StaysFresh DEF RefInv, FreshConversation, Fresh, Grown
<1>3. ASSUME conversationRef # None
      PROVE  /\ records'[conversationRef].docRef = records[conversationRef].docRef
             /\ records'[conversationRef].messages = records[conversationRef].messages
  BY <1>3 DEF RefInv, FreshConversation, Fresh, Grown
<1>4. ASSUME conversationRef # None
      PROVE  Fresh(records[conversationRef].docRef)'
  <2>1. PICK ref : ref = records[conversationRef].docRef
    OBVIOUS
  <2>2. Fresh(ref)
    BY <1>4, <2>1 DEF RefInv, FreshConversation
  <2>3. Fresh(ref)'
    BY <1>1, <2>2, StaysFresh
  <2>4. records'[conversationRef'].docRef = ref
    BY <1>1, <1>3, <1>4, <2>1
  <2>. QED
    BY <2>3, <2>4 DEF Fresh
<1>5. FreshConversation(conversationRef)'
  BY <1>1, <1>2, <1>4 DEF FreshConversation
<1>. QED
  BY <1>1, <1>2, <1>3, <1>5 DEF RefInv

LEMMA KeepsDocs == ASSUME records \in Seq(Record), DocInv, Grown, docs' \subseteq docs, since' = since PROVE DocInv'
<1>1. ASSUME NEW d \in docs
      PROVE  Listed(d)'
  <2>1. HoldsFile(d)'
    BY StaysHeld DEF DocInv, Listed
  <2>. QED
    BY <2>1 DEF DocInv, Listed, Document
<1>. QED
  BY <1>1 DEF DocInv

LEMMA KeepsReader == ASSUME records \in Seq(Record), ReaderInv, Grown, UNCHANGED <<since, reader, reading>>,
                            \A d \in docs' : d.status = "read" => d \in docs
                     PROVE  ReaderInv'
<1>1. ASSUME reader.pc = "resolving", NEW r \in reader.request
      PROVE  HoldsFile(r)' /\ r.file \in Nat /\ r.file > since.files
  BY <1>1, StaysHeld DEF ReaderInv
<1>. QED
  BY <1>1 DEF ReaderInv

LEMMA KeepsTurns == ASSUME records \in Seq(Record), CountInv, TurnInv, Grown,
                           UNCHANGED <<since, answered, turns, busy, conversationRef>>, sends' \in Nat, sends <= sends'
                    PROVE  TurnInv'
<1>1. ASSUME NEW t \in turns
      PROVE  turns = {t} /\ Turn(t)'
  <2>1. turns = {t} /\ Turn(t)
    BY DEF TurnInv
  <2>2. Fresh(t.context)'
    BY <2>1, StaysFresh DEF Turn
  <2>3. Asked(t.message)'
    BY <2>1 DEF Turn, Asked, CountInv
  <2>. QED
    BY <2>1, <2>2, <2>3 DEF Turn
<1>. QED
  BY <1>1 DEF TurnInv

LEMMA KeepsThread == ASSUME CountInv, ThreadInv, UNCHANGED <<since, answered, lastFailed>>, sends' \in Nat, sends <= sends'
                     PROVE  ThreadInv'
<1>1. \A i \in DOMAIN answered : answered[i] \in Nat
  BY LenProperties, ElementOfSeq DEF ThreadInv
<1>2. \A i \in DOMAIN answered : since.sends < answered[i] /\ answered[i] <= sends'
  BY <1>1 DEF ThreadInv, CountInv
<1>3. lastFailed # None => Asked(lastFailed)'
  BY DEF ThreadInv, Asked, CountInv
<1>. QED
  BY <1>2, <1>3 DEF ThreadInv

LEMMA KeepsCover == ASSUME RefInv, Grown, ContextCoversRead, documentContextRef' = documentContextRef, reading' = reading,
                           \A d \in docs' : d.status = "read" => d \in docs
                    PROVE  ContextCoversRead'
BY DEF RefInv, Fresh, Grown, ContextCoversRead

LEMMA NoContext == ASSUME documentContextRef' = None PROVE ContextCoversRead'
BY DEF ContextCoversRead

-----------------------------------------------------------------------------
(* The user and the document list *)

LEMMA InitIInv == Init => IInv
<1>. SUFFICES ASSUME Init PROVE IInv
  OBVIOUS
<1>1. CountInv /\ ThreadInv /\ TurnInv /\ DocInv /\ ReaderInv /\ ContextCoversRead
  <2>1. answered = <<>> /\ answered \in Seq(Nat) /\ DOMAIN answered = {}
    BY EmptySeq, LenProperties DEF Init
  <2>2. CountInv
    BY DEF Init, CountInv, None
  <2>3. ThreadInv
    BY <2>1 DEF Init, ThreadInv
  <2>4. TurnInv /\ DocInv
    BY DEF Init, TurnInv, DocInv
  <2>5. ReaderInv /\ ContextCoversRead
    BY DEF Init, ReaderInv, ContextCoversRead, NoReader
  <2>. QED
    BY <2>2, <2>3, <2>4, <2>5
<1>2. CASE records = <<>> /\ documentContextRef = None
  <2>1. records \in Seq(Record)
    BY <1>2, EmptySeq
  <2>. QED
    BY <1>1, <1>2, <2>1 DEF Init, IInv, RefInv, FreshConversation, Fresh
<1>3. CASE records = <<Context({1})>> /\ documentContextRef = 1
  <2>1. PICK r : r = Context({1})
    OBVIOUS
  <2>2. r \in Record /\ r.messages = <<>> /\ r.files = {1}
    <3>1. {1} \in SUBSET Nat
      OBVIOUS
    <3>. QED
      BY <2>1, <3>1, Stored
  <2>3. records \in Seq(Record) /\ Len(records) = 1 /\ records[1] = r
    BY <1>3, <2>1, <2>2
  <2>4. Fresh(documentContextRef)
    BY <1>3, <2>2, <2>3, NoElements DEF Fresh, Init
  <2>. QED
    BY <1>1, <2>3, <2>4 DEF Init, IInv, RefInv, FreshConversation, Fresh
<1>. QED
  BY <1>2, <1>3 DEF Init

LEMMA AddsFile == ASSUME IInv, AddFile PROVE IInv'
<1>1. records' \in Seq(Record) /\ Grown
  BY Same DEF IInv, AddFile
<1>2. PICK d : d = Document(nextDocId, files', "selected", None)
  OBVIOUS
<1>3. docs' = docs \cup {d} /\ files' = files + 1
  BY <1>2 DEF AddFile
<1>4. CountInv'
  BY <1>3 DEF IInv, CountInv, AddFile
<1>5. Listed(d)' /\ d.status = "selected"
  BY <1>2, <1>3 DEF IInv, CountInv, AddFile, Listed, Document, HoldsFile, nextDocId
<1>6. DocInv'
  <2>1. \A e \in docs : Listed(e)'
    BY <1>1, StaysHeld DEF IInv, DocInv, Listed, AddFile, Document
  <2>. QED
    BY <1>3, <1>5, <2>1 DEF DocInv
<1>7. \A e \in docs' : e.status = "read" => e \in docs
  BY <1>3, <1>5
<1>. QED
  BY <1>1, <1>4, <1>6, <1>7, KeepsRefs, KeepsReader, KeepsTurns, KeepsThread, KeepsCover DEF IInv, CountInv, AddFile, refs

LEMMA RemovesDocument == ASSUME IInv, NEW d \in docs, RemoveDocument(d) PROVE IInv'
<1>1. records' \in Seq(Record) /\ Grown
  BY Same DEF IInv, RemoveDocument
<1>2. docs' \subseteq docs /\ CountInv'
  BY DEF IInv, CountInv, RemoveDocument, counts
<1>3. DocInv' /\ ReaderInv' /\ TurnInv' /\ ThreadInv'
  BY <1>1, <1>2, KeepsDocs, KeepsReader, KeepsTurns, KeepsThread DEF IInv, CountInv, RemoveDocument, counts
<1>4. CASE documentContextRef' = documentContextRef
  BY <1>1, <1>2, <1>3, <1>4, KeepsRefs, KeepsCover DEF IInv, RemoveDocument, counts, refs
<1>5. CASE documentContextRef' = None
  <2>1. RefInv'
    BY <1>5 DEF IInv, RefInv, RemoveDocument, counts, FreshConversation, Fresh
  <2>. QED
    BY <1>1, <1>2, <1>3, <1>5, <2>1, NoContext DEF IInv
<1>. QED
  BY <1>4, <1>5 DEF RemoveDocument

LEMMA StartsReading == ASSUME IInv, Read PROVE IInv'
<1>1. records' \in Seq(Record) /\ Grown
  BY Same DEF IInv, Read
<1>2. CountInv' /\ TurnInv' /\ ThreadInv' /\ RefInv'
  BY <1>1, KeepsRefs, KeepsTurns, KeepsThread DEF IInv, CountInv, Read, counts, refs
<1>3. ASSUME NEW d \in docs
      PROVE  Listed(Marked(d))' /\ d.id \in Nat \ {0}
  <2>1. Listed(d)
    BY DEF IInv, DocInv
  <2>2. HoldsFile(d)'
    BY <1>1, <2>1, StaysHeld DEF IInv, Listed
  <2>3. CASE Marked(d) = d
    BY <2>1, <2>2, <2>3 DEF Listed, Document, Read, counts
  <2>4. CASE Marked(d) = Document(d.id, d.file, "reading", d.batch)
    BY <2>1, <2>2, <2>4 DEF Listed, Document, HoldsFile, Read, counts
  <2>. QED
    BY <2>1, <2>3, <2>4 DEF Marked, Listed
<1>4. DocInv'
  <2>1. \A e \in docs' : \E d \in docs : e = Marked(d)
    BY DEF Read
  <2>. QED
    BY <1>3, <2>1 DEF DocInv
<1>5. ReaderInv'
  BY <1>3 DEF Read, ReaderInv, toRead
<1>6. ContextCoversRead'
  BY DEF Read, ContextCoversRead
<1>. QED
  BY <1>1, <1>2, <1>4, <1>5, <1>6 DEF IInv

-----------------------------------------------------------------------------
(* The reading *)

LEMMA ReadsDone == ASSUME IInv, ReadDone PROVE IInv'
<1>1. PICK id \in reader.pending :
        /\ \/ Put(Batch(since.files + id)) /\ docs' = WithDoc(id, "read", NewRef)
           \/ records' = records /\ docs' = WithDoc(id, "read", None)
           \/ records' = records /\ docs' = WithDoc(id, "failed", None)
        /\ reader' = IF reader.pending # {id} THEN [pc |-> "reading", pending |-> reader.pending \ {id}, request |-> {}]
                     ELSE [pc |-> "resolving", pending |-> {}, request |-> profileDocuments(docs')]
  BY DEF ReadDone
<1>2. id \in Nat \ {0} /\ reader.pending \subseteq Nat \ {0} /\ reading = TRUE /\ since.files + id \in Nat
  BY DEF ReadDone, IInv, ReaderInv, CountInv
<1>3. PICK status, batch :
        /\ docs' = WithDoc(id, status, batch)
        /\ records' \in Seq(Record) /\ Grown
        /\ batch # None => batch \in 1 .. Len(records') /\ records'[batch].files = {since.files + id}
  <2>1. CASE Put(Batch(since.files + id)) /\ docs' = WithDoc(id, "read", NewRef)
    <3>1. PICK r : r = Batch(since.files + id)
      OBVIOUS
    <3>2. PICK fs : fs = {since.files + id}
      OBVIOUS
    <3>3. fs \in SUBSET Nat
      BY <1>2, <3>2
    <3>4. r \in Record /\ r.files = fs
      BY <1>2, <3>1, <3>2, <3>3, Stored
    <3>5. records' \in Seq(Record) /\ Grown /\ NewRef \in 1 .. Len(records') /\ records'[NewRef] = r
      BY <2>1, <3>1, <3>4, Puts DEF IInv
    <3>. QED
      BY <2>1, <3>2, <3>4, <3>5
  <2>2. CASE records' = records /\ (docs' = WithDoc(id, "read", None) \/ docs' = WithDoc(id, "failed", None))
    BY <2>2, Same DEF IInv
  <2>. QED
    BY <1>1, <2>1, <2>2
<1>4. UNCHANGED <<refs, busy, reading, lastFailed, turns, sends, files, since, answered>>
  BY DEF ReadDone, counts
<1>5. CountInv' /\ TurnInv' /\ ThreadInv' /\ RefInv'
  BY <1>3, <1>4, KeepsRefs, KeepsTurns, KeepsThread DEF IInv, CountInv, refs
<1>6. ASSUME NEW d \in docs
      PROVE  Listed(IF d.id = id THEN Document(d.id, d.file, status, batch) ELSE d)'
  <2>1. Listed(d) /\ HoldsFile(d)'
    BY <1>3, StaysHeld DEF IInv, DocInv, Listed
  <2>2. CASE d.id = id
    <3>1. PICK e : e = Document(d.id, d.file, status, batch)
      OBVIOUS
    <3>2. e.id = id /\ e.file = since.files + id /\ e.batch = batch /\ e.status = status
      BY <2>1, <2>2, <3>1 DEF Document, Listed
    <3>3. HoldsFile(e)'
      BY <1>3, <3>2 DEF HoldsFile
    <3>4. Listed(e)'
      BY <1>2, <1>4, <2>1, <3>1, <3>2, <3>3 DEF Listed, Document
    <3>. QED
      BY <2>2, <3>1, <3>4
  <2>3. CASE d.id # id
    BY <1>4, <2>1, <2>3 DEF Listed, Document
  <2>. QED
    BY <2>2, <2>3
<1>7. DocInv'
  <2>1. ASSUME NEW e \in docs'
        PROVE  Listed(e)'
    <3>1. PICK d \in docs : e = IF d.id = id THEN Document(d.id, d.file, status, batch) ELSE d
      BY <1>3 DEF WithDoc
    <3>. QED
      BY <1>6, <3>1
  <2>. QED
    BY <2>1 DEF DocInv
<1>8. ReaderInv'
  <2>1. CASE reader.pending # {id}
    BY <1>1, <1>2, <1>4, <2>1 DEF ReaderInv, IInv
  <2>2. CASE reader.pending = {id}
    <3>1. reader'.pc = "resolving" /\ reader'.request = {d \in docs' : d.status = "read"}
      BY <1>1, <2>2 DEF profileDocuments, Sendable
    <3>2. ASSUME NEW r \in docs'
          PROVE  HoldsFile(r)' /\ r.file \in Nat /\ r.file > since'.files
      BY <1>4, <1>5, <1>7 DEF DocInv, Listed, CountInv
    <3>. QED
      BY <1>2, <1>4, <3>1, <3>2 DEF ReaderInv
  <2>. QED
    BY <2>1, <2>2
<1>9. ContextCoversRead'
  BY <1>2, <1>4 DEF ContextCoversRead
<1>. QED
  BY <1>3, <1>5, <1>7, <1>8, <1>9 DEF IInv

\* A profile by reference is of the files of all its documents.
LEMMA Covers == ASSUME IInv, reader.pc = "resolving", ByReference(reader.request)
                PROVE  FilesOf(reader.request) = {r.file : r \in reader.request}
<1>1. ASSUME NEW r \in reader.request
      PROVE  records[r.batch].files = {r.file}
  BY DEF ByReference, Held, IInv, ReaderInv, HoldsFile
<1>. QED
  BY <1>1 DEF FilesOf

LEMMA Resolves == ASSUME IInv, Resolved PROVE IInv'
<1>1. UNCHANGED <<docs, conversationRef, busy, lastFailed, turns, counts, answered>> /\ reading' = FALSE /\ reader' = NoReader
  BY DEF Resolved
<1>2. PICK fs : fs = FilesOf(reader.request)
  OBVIOUS
<1>3. CASE ByReference(reader.request) /\ Put(Context(fs)) /\ documentContextRef' = NewRef
  <2>1. fs = {r.file : r \in reader.request} /\ reader.pc = "resolving"
    BY <1>2, <1>3, Covers DEF Resolved
  <2>2. (\A f \in fs : f \in Nat /\ f > since.files) /\ \A d \in docs : d.status = "read" => d.file \in fs
    BY <2>1 DEF IInv, ReaderInv
  <2>3. PICK r : r = Context(fs)
    OBVIOUS
  <2>4. fs \in SUBSET Nat
    BY <2>2
  <2>5. r \in Record /\ r.files = fs /\ r.messages = <<>>
    BY <2>3, <2>4, Stored
  <2>6. records' \in Seq(Record) /\ Grown /\ NewRef \in 1 .. Len(records') /\ records'[NewRef] = r
    BY <1>3, <2>3, <2>5, Puts DEF IInv
  <2>7. Fresh(documentContextRef)' /\ ContextCoversRead'
    BY <1>1, <1>3, <2>2, <2>5, <2>6, NoElements DEF Fresh, ContextCoversRead, counts
  <2>8. FreshConversation(conversationRef)' /\ (conversationRef' # None => IsSuffix(records'[conversationRef'].messages, answered'))
    <3>1. ASSUME NEW c, c = conversationRef
          PROVE  FreshConversation(c)'
      <4>1. Fresh(c) /\ (c # None => Fresh(records[c].docRef))
        BY <3>1 DEF IInv, RefInv, FreshConversation
      <4>2. Fresh(c)'
        BY <1>1, <2>6, <4>1, StaysFresh DEF IInv, counts
      <4>3. PICK ref : ref = records[c].docRef
        OBVIOUS
      <4>4. c # None => Fresh(ref)' /\ records'[c].docRef = ref
        BY <1>1, <2>6, <4>1, <4>3, StaysFresh DEF IInv, counts, Grown, Fresh
      <4>. QED
        BY <4>2, <4>4 DEF FreshConversation, Fresh
    <3>2. conversationRef # None => records'[conversationRef].messages = records[conversationRef].messages
      BY <2>6 DEF IInv, RefInv, FreshConversation, Fresh, Grown
    <3>. QED
      BY <1>1, <3>1, <3>2 DEF IInv, RefInv, FreshConversation, Fresh
  <2>9. CountInv' /\ TurnInv' /\ ThreadInv' /\ DocInv'
    BY <1>1, <2>6, KeepsTurns, KeepsThread, KeepsDocs DEF IInv, CountInv, counts
  <2>10. ReaderInv'
    BY <1>1 DEF ReaderInv, NoReader
  <2>. QED
    BY <2>6, <2>7, <2>8, <2>9, <2>10 DEF IInv, RefInv
<1>4. CASE records' = records /\ documentContextRef' = None
  <2>1. records' \in Seq(Record) /\ Grown
    BY <1>4, Same DEF IInv
  <2>2. CountInv' /\ TurnInv' /\ ThreadInv' /\ DocInv'
    BY <1>1, <2>1, KeepsTurns, KeepsThread, KeepsDocs DEF IInv, CountInv, counts
  <2>3. RefInv'
    BY <1>1, <1>4 DEF IInv, RefInv, FreshConversation, Fresh, counts
  <2>4. ReaderInv'
    BY <1>1 DEF ReaderInv, NoReader
  <2>. QED
    BY <1>4, <2>1, <2>2, <2>3, <2>4, NoContext DEF IInv
<1>. QED
  BY <1>2, <1>3, <1>4 DEF Resolved

-----------------------------------------------------------------------------
(* The exchange *)

LEMMA AnsweredBound == ASSUME IInv, NEW m \in ToSet(answered) PROVE m \in Nat /\ since.sends < m /\ m <= sends
<1>1. \A i \in DOMAIN answered : answered[i] \in Nat
  BY LenProperties, ElementOfSeq DEF IInv, ThreadInv
<1>. QED
  BY <1>1 DEF IInv, ThreadInv, ToSet

\* A turn that is posted is the only one.
LEMMA Posts == ASSUME NEW others, others = {}, NEW m \in Nat, NEW retried,
                      turns' = others \cup {Posted(m, retried)}, busy' = TRUE, Asked(m)', Fresh(documentContextRef)'
               PROVE  TurnInv'
<1>1. PICK t : t = Posted(m, retried)
  OBVIOUS
<1>2. t.message = m /\ t.conversation = conversationRef' /\ t.context = documentContextRef' /\ turns' = {t}
  BY <1>1 DEF Posted
<1>3. Turn(t)'
  BY <1>2 DEF Turn, Fresh
<1>. QED
  BY <1>2, <1>3 DEF TurnInv

LEMMA Sends == ASSUME IInv, Send PROVE IInv'
<1>1. records' \in Seq(Record) /\ Grown
  BY Same DEF IInv, Send
<1>2. CountInv' /\ sends' = sends + 1 /\ UNCHANGED <<since, answered, lastFailed, reading, reader, docs>>
  BY DEF IInv, CountInv, Send
<1>3. RefInv' /\ ThreadInv' /\ DocInv' /\ ReaderInv' /\ ContextCoversRead'
  BY <1>1, <1>2, KeepsRefs, KeepsThread, KeepsDocs, KeepsReader, KeepsCover DEF IInv, CountInv, Send, refs
<1>4. PICK m \in Nat : m = sends + 1
  BY DEF IInv, CountInv
<1>5. TurnInv'
  <2>1. turns = {}
    BY DEF IInv, TurnInv, Send, Editable
  <2>2. turns' = turns \cup {Posted(m, FALSE)} /\ busy' = TRUE
    <3>1. m = sends'
      BY <1>2, <1>4
    <3>. QED
      BY <3>1 DEF Send
  <2>3. Asked(m)'
    <3>1. m \notin ToSet(answered) /\ since.sends < m /\ sends' = m
      BY <1>2, <1>4, AnsweredBound DEF IInv, CountInv
    <3>2. answered' = answered /\ since' = since
      BY <1>2
    <3>. QED
      BY <1>4, <3>1, <3>2 DEF Asked
  <2>. QED
    BY <1>3, <2>1, <2>2, <2>3, Posts DEF RefInv
<1>. QED
  BY <1>1, <1>2, <1>3, <1>5 DEF IInv

LEMMA Retries == ASSUME IInv, Retry PROVE IInv'
<1>1. records' \in Seq(Record) /\ Grown
  BY Same DEF IInv, Retry
<1>2. CountInv' /\ UNCHANGED <<since, answered, lastFailed, reading, reader, docs, sends>>
  BY DEF IInv, CountInv, Retry, counts
<1>3. RefInv' /\ ThreadInv' /\ DocInv' /\ ReaderInv' /\ ContextCoversRead'
  BY <1>1, <1>2, KeepsRefs, KeepsThread, KeepsDocs, KeepsReader, KeepsCover DEF IInv, CountInv, Retry, refs
<1>4. TurnInv'
  <2>1. turns = {}
    BY DEF IInv, TurnInv, Retry
  <2>2. PICK m \in Nat : m = lastFailed
    BY DEF IInv, CountInv
  <2>3. turns' = turns \cup {Posted(m, FALSE)} /\ busy' = TRUE
    BY <2>2 DEF Retry
  <2>4. Asked(m)'
    BY <1>2, <2>2 DEF IInv, ThreadInv, Asked, Retry
  <2>. QED
    BY <1>3, <2>1, <2>3, <2>4, Posts DEF RefInv
<1>. QED
  BY <1>1, <1>2, <1>3, <1>4 DEF IInv

LEMMA Notices == ASSUME IInv, NEW t \in turns, NEW item, Fails(t, item), UNCHANGED <<since, sends, files, answered>>
                 PROVE  CountInv' /\ TurnInv' /\ ThreadInv'
<1>1. turns = {t} /\ Turn(t)
  BY DEF IInv, TurnInv
<1>2. turns' = {} /\ busy' = FALSE /\ lastFailed' = t.message
  BY <1>1 DEF Fails
<1>3. CountInv' /\ TurnInv'
  BY <1>1, <1>2 DEF CountInv, TurnInv, Turn, IInv
<1>4. ThreadInv'
  BY <1>1, <1>2 DEF IInv, ThreadInv, Turn, Asked
<1>. QED
  BY <1>3, <1>4

\* The conversation that is remembered is one the thread shows, and of after the last reset.
LEMMA Continues == ASSUME IInv, NEW t \in turns, NEW s, s = Remembered(t).messages, NEW d, d = contextRef(t)
                   PROVE  /\ s \in Seq(Nat) /\ IsSuffix(s, answered) /\ (\A m \in ToSet(s) : m > since.sends)
                          /\ d \in Nat /\ Fresh(d)
<1>1. Turn(t)
  BY DEF IInv, TurnInv
<1>2. CASE t.conversation = None
  <2>1. s = <<>> /\ Remembered(t).docRef = None
    BY <1>2 DEF Remembered
  <2>2. d = t.context
    BY <2>1 DEF contextRef
  <2>3. d \in Nat /\ Fresh(d)
    BY <1>1, <2>2 DEF Turn, Fresh, None, IInv
  <2>4. answered \in Seq(Nat)
    BY DEF IInv, ThreadInv
  <2>. QED
    BY <2>1, <2>3, <2>4, SuffixEmpty, EmptySeq, NoElements
<1>3. CASE t.conversation # None
  <2>1. PICK c : c = conversationRef
    OBVIOUS
  <2>2. s = records[c].messages /\ Remembered(t).docRef = records[c].docRef /\ c # None
    BY <1>1, <1>3, <2>1 DEF Remembered, Turn
  <2>3. c \in 1 .. Len(records) /\ Fresh(c) /\ Fresh(records[c].docRef) /\ IsSuffix(s, answered)
    BY <2>1, <2>2 DEF IInv, RefInv, FreshConversation, Fresh
  <2>4. records[c] \in Record
    BY <2>3 DEF IInv
  <2>5. s \in Seq(Nat) /\ records[c].docRef \in Nat
    BY <2>2, <2>4 DEF Record
  <2>6. \A m \in ToSet(s) : m > since.sends
    BY <2>2, <2>3 DEF Fresh
  <2>7. d \in Nat /\ Fresh(d)
    <3>1. CASE t.context # None
      BY <1>1, <3>1 DEF contextRef, Turn, Fresh, IInv
    <3>2. CASE t.context = None
      BY <2>2, <2>3, <2>5, <3>2 DEF contextRef
    <3>. QED
      BY <3>1, <3>2
  <2>. QED
    BY <2>3, <2>5, <2>6, <2>7
<1>. QED
  BY <1>2, <1>3

LEMMA RemembersWell == ASSUME IInv, NEW t \in turns, Remember(t)
                       PROVE  /\ records' \in Seq(Record) /\ Grown /\ NewRef \in 1 .. Len(records') /\ NewRef # None
                              /\ records'[NewRef].messages = Append(Remembered(t).messages, t.message)
                              /\ records'[NewRef].docRef = contextRef(t) /\ records'[NewRef].files = {}
<1>1. PICK s : s = Remembered(t).messages
  OBVIOUS
<1>2. PICK d : d = contextRef(t)
  OBVIOUS
<1>3. s \in Seq(Nat) /\ d \in Nat /\ t.message \in Nat
  BY <1>1, <1>2, Continues DEF IInv, TurnInv, Turn
<1>4. PICK ms : ms = Append(s, t.message)
  OBVIOUS
<1>5. ms \in Seq(Nat)
  BY <1>3, <1>4, ElementsAppend
<1>6. PICK r : r = Conversation(ms, d)
  OBVIOUS
<1>7. r \in Record /\ r.files = {} /\ r.messages = ms /\ r.docRef = d
  BY <1>3, <1>5, <1>6, StoredConversation
<1>8. Put(r)
  BY <1>1, <1>2, <1>4, <1>6 DEF Remember
<1>. QED
  BY <1>1, <1>2, <1>4, <1>7, <1>8, Puts DEF IInv

\* The answer is the last of the thread and of the conversation that is kept.
LEMMA Answers == ASSUME IInv, NEW t \in turns, TurnAnswered(t) PROVE IInv'
<1>1. turns = {t} /\ Turn(t) /\ t.message \in Nat /\ answered \in Seq(Nat)
  BY DEF IInv, TurnInv, Turn, ThreadInv
<1>2. PICK m : m = t.message
  OBVIOUS
<1>3. PICK ans : ans = Append(answered, m)
  OBVIOUS
<1>4. /\ UNCHANGED <<docs, documentContextRef, reading, reader, sends, files, since>>
      /\ busy' = FALSE /\ lastFailed' = None /\ turns' = {} /\ answered' = ans
  BY <1>1, <1>2, <1>3 DEF TurnAnswered, counts
<1>5. ans \in Seq(Nat) /\ Len(ans) = Len(answered) + 1 /\ ans[Len(answered) + 1] = m
      /\ \A i \in 1 .. Len(answered) : ans[i] = answered[i]
  BY <1>1, <1>2, <1>3, AppendProperties
<1>6. CountInv' /\ TurnInv'
  BY <1>4 DEF IInv, CountInv, TurnInv, None
<1>7. ThreadInv'
  <2>1. DOMAIN ans = 1 .. Len(answered) \cup {Len(answered) + 1} /\ DOMAIN answered = 1 .. Len(answered) /\ Len(answered) \in Nat
    BY <1>1, <1>5, LenProperties
  <2>2. since.sends < m /\ m <= sends /\ \A i \in 1 .. Len(answered) : answered[i] # m
    BY <1>1, <1>2, <2>1 DEF Turn, Asked, ToSet
  <2>3. \A i \in DOMAIN ans : since.sends < ans[i] /\ ans[i] <= sends
    BY <1>5, <2>1, <2>2 DEF IInv, ThreadInv
  <2>4. \A i, j \in DOMAIN ans : ans[i] = ans[j] => i = j
    BY <1>5, <2>1, <2>2 DEF IInv, ThreadInv
  <2>. QED
    BY <1>4, <1>5, <2>3, <2>4 DEF ThreadInv
<1>8. CASE Remember(t) /\ conversationRef' = NewRef
  <2>1. PICK n : n = NewRef
    OBVIOUS
  <2>2. PICK s : s = Remembered(t).messages
    OBVIOUS
  <2>3. PICK d : d = contextRef(t)
    OBVIOUS
  <2>4. PICK ms : ms = Append(s, m)
    OBVIOUS
  <2>5. /\ s \in Seq(Nat) /\ IsSuffix(s, answered) /\ (\A k \in ToSet(s) : k > since.sends)
        /\ d \in Nat /\ Fresh(d)
    BY <2>2, <2>3, Continues
  <2>6. /\ records' \in Seq(Record) /\ Grown /\ n \in 1 .. Len(records') /\ n # None
        /\ records'[n].messages = ms /\ records'[n].docRef = d /\ records'[n].files = {}
    BY <1>2, <1>8, <2>1, <2>2, <2>3, <2>4, RemembersWell
  <2>7. IsSuffix(ms, ans)
    BY <1>1, <1>2, <1>3, <2>4, <2>5, SuffixAppend
  <2>8. Fresh(n)'
    <3>1. ToSet(ms) = ToSet(s) \cup {m}
      BY <1>1, <1>2, <2>4, <2>5, ElementsAppend
    <3>2. \A k \in ToSet(ms) : k > since.sends
      BY <1>1, <1>2, <2>5, <3>1 DEF Turn, Asked, IInv, CountInv
    <3>. QED
      BY <1>4, <2>6, <3>2 DEF Fresh
  <2>9. Fresh(d)' /\ Fresh(documentContextRef)'
    <3>1. PICK c : c = documentContextRef
      OBVIOUS
    <3>2. Fresh(c)' /\ Fresh(d)'
      BY <1>4, <2>5, <2>6, <3>1, StaysFresh DEF IInv, RefInv
    <3>. QED
      BY <1>4, <3>1, <3>2 DEF Fresh
  <2>10. conversationRef' = n
    BY <1>8, <2>1
  <2>11. RefInv'
    <3>1. Fresh(conversationRef)' /\ Fresh(records[conversationRef].docRef)'
      BY <2>6, <2>8, <2>9, <2>10 DEF Fresh
    <3>2. IsSuffix(records[conversationRef].messages, answered)'
      BY <1>4, <2>6, <2>7, <2>10
    <3>. QED
      BY <2>9, <3>1, <3>2 DEF RefInv, FreshConversation
  <2>12. DocInv' /\ ReaderInv' /\ ContextCoversRead'
    BY <1>4, <2>6, KeepsDocs, KeepsReader, KeepsCover DEF IInv
  <2>. QED
    BY <1>6, <1>7, <2>6, <2>11, <2>12 DEF IInv
<1>9. CASE records' = records /\ conversationRef' = None
  <2>1. records' \in Seq(Record) /\ Grown
    BY <1>9, Same DEF IInv
  <2>2. RefInv'
    BY <1>4, <1>9 DEF IInv, RefInv, FreshConversation, Fresh
  <2>3. DocInv' /\ ReaderInv' /\ ContextCoversRead'
    BY <1>4, <2>1, KeepsDocs, KeepsReader, KeepsCover DEF IInv
  <2>. QED
    BY <1>6, <1>7, <2>1, <2>2, <2>3 DEF IInv
<1>. QED
  BY <1>8, <1>9 DEF TurnAnswered

\* The exchange ends in a notice: the references stay, the records may have grown.
LEMMA Ends == ASSUME IInv, NEW t \in turns, NEW item, Fails(t, item),
                     UNCHANGED <<since, sends, files, answered, refs, docs, reading, reader>>,
                     records' \in Seq(Record), Grown
              PROVE  IInv'
<1>1. CountInv' /\ TurnInv' /\ ThreadInv'
  BY Notices
<1>. QED
  BY <1>1, KeepsRefs, KeepsDocs, KeepsReader, KeepsCover DEF IInv, refs

LEMMA Failures == ASSUME IInv, NEW t \in turns, TurnFails(t) \/ NotConfigured(t) PROVE IInv'
<1>1. records' \in Seq(Record) /\ Grown
  BY Same, RemembersWell DEF IInv, TurnFails, NotConfigured
<1>2. UNCHANGED <<since, sends, files, answered, refs, docs, reading, reader>> /\ \E item : Fails(t, item)
  BY DEF TurnFails, NotConfigured, counts
<1>. QED
  BY <1>1, <1>2, Ends
\* Asked again in a fresh conversation, the thread of which starts here.
LEMMA Restarts == ASSUME IInv, NEW t \in turns, ConversationInvalid(t) PROVE IInv'
<1>1. records' \in Seq(Record) /\ Grown /\ UNCHANGED <<since, sends, files, docs, reading, reader>>
  BY Same DEF IInv, ConversationInvalid, counts
<1>2. CASE t.retried
  BY <1>1, <1>2, Ends DEF ConversationInvalid, refs
<1>3. CASE ~t.retried
  <2>1. turns = {t} /\ Turn(t)
    BY DEF IInv, TurnInv
  <2>2. PICK m \in Nat : m = t.message
    BY <2>1 DEF Turn
  <2>3. /\ conversationRef' = None /\ documentContextRef' = documentContextRef /\ answered' = <<>>
        /\ UNCHANGED <<busy, lastFailed>>
        /\ turns' = (turns \ {t}) \cup {Posted(m, TRUE)}
    BY <1>3, <2>2 DEF ConversationInvalid
  <2>4. <<>> \in Seq(Nat) /\ DOMAIN <<>> = {} /\ ToSet(<<>>) = {}
    BY EmptySeq, NoElements
  <2>5. Asked(m)'
    BY <1>1, <2>1, <2>2, <2>3, <2>4 DEF Turn, Asked
  <2>6. RefInv'
    <3>1. PICK c : c = documentContextRef
      OBVIOUS
    <3>2. Fresh(c)'
      BY <1>1, <3>1, StaysFresh DEF IInv, RefInv
    <3>. QED
      BY <2>3, <3>1, <3>2 DEF RefInv, FreshConversation, Fresh
  <2>7. TurnInv'
    <3>1. PICK others : others = turns \ {t}
      OBVIOUS
    <3>2. others = {} /\ turns' = others \cup {Posted(m, TRUE)}
      BY <2>1, <2>3, <3>1
    <3>3. busy' = TRUE
      BY <2>1, <2>3 DEF IInv, TurnInv
    <3>. QED
      BY <2>5, <2>6, <3>2, <3>3, Posts DEF RefInv
  <2>8. ThreadInv'
    BY <1>1, <2>3, <2>4 DEF IInv, ThreadInv, Asked
  <2>9. CountInv' /\ DocInv' /\ ReaderInv' /\ ContextCoversRead'
    BY <1>1, <2>3, KeepsDocs, KeepsReader, KeepsCover DEF IInv, CountInv
  <2>. QED
    BY <1>1, <2>6, <2>7, <2>8, <2>9 DEF IInv
<1>. QED
  BY <1>2, <1>3

\* Asked again without the documents, which are to be read again.
LEMMA LosesDocuments == ASSUME IInv, NEW t \in turns, ContextInvalid(t) PROVE IInv'
<1>1. records' \in Seq(Record) /\ Grown /\ UNCHANGED <<since, sends, files, answered, reading, reader>>
  BY Same DEF IInv, ContextInvalid, counts
<1>2. CASE t.retried
  BY <1>1, <1>2, Ends DEF ContextInvalid, refs
<1>3. CASE ~t.retried
  <2>1. turns = {t} /\ Turn(t)
    BY DEF IInv, TurnInv
  <2>2. PICK m \in Nat : m = t.message
    BY <2>1 DEF Turn
  <2>3. /\ documentContextRef' = None /\ conversationRef' = conversationRef
        /\ docs' = {Unread(d) : d \in docs}
        /\ UNCHANGED <<busy, lastFailed>>
        /\ turns' = (turns \ {t}) \cup {Posted(m, TRUE)}
    BY <1>3, <2>2 DEF ContextInvalid
  <2>4. Asked(m)'
    BY <1>1, <2>1, <2>2 DEF Turn, Asked
  <2>5. Fresh(documentContextRef)'
    BY <2>3 DEF Fresh
  <2>6. TurnInv'
    <3>1. PICK others : others = turns \ {t}
      OBVIOUS
    <3>2. others = {} /\ turns' = others \cup {Posted(m, TRUE)}
      BY <2>1, <2>3, <3>1
    <3>3. busy' = TRUE
      BY <2>1, <2>3 DEF IInv, TurnInv
    <3>. QED
      BY <2>4, <2>5, <3>2, <3>3, Posts
  <2>7. RefInv'
    BY <1>1, <2>3, <2>5 DEF IInv, RefInv, ContextInvalid, FreshConversation, Fresh
  <2>8. ASSUME NEW d \in docs
        PROVE  Listed(Unread(d))' /\ Unread(d).status # "read"
    <3>1. Listed(d) /\ HoldsFile(d)'
      BY <1>1, StaysHeld DEF IInv, DocInv, Listed
    <3>2. CASE d.status = "read"
      <4>1. PICK e : e = Document(d.id, d.file, "selected", None)
        OBVIOUS
      <4>2. Listed(e)' /\ e.status = "selected"
        BY <1>1, <3>1, <4>1 DEF Listed, Document, HoldsFile
      <4>. QED
        BY <3>2, <4>1, <4>2 DEF Unread
    <3>3. CASE d.status # "read"
      BY <1>1, <3>1, <3>3 DEF Listed, Document, Unread
    <3>. QED
      BY <3>2, <3>3
  <2>9. DocInv' /\ \A d \in docs' : d.status # "read"
    <3>1. \A e \in docs' : \E d \in docs : e = Unread(d)
      BY <2>3
    <3>. QED
      BY <2>8, <3>1 DEF DocInv
  <2>10. CountInv' /\ ThreadInv' /\ ReaderInv' /\ ContextCoversRead'
    BY <1>1, <2>3, <2>9, KeepsThread, KeepsReader, NoContext DEF IInv, CountInv
  <2>. QED
    BY <1>1, <2>6, <2>7, <2>9, <2>10 DEF IInv
<1>. QED
  BY <1>2, <1>3

-----------------------------------------------------------------------------
(* Resets and losses *)

LEMMA Resets == ASSUME IInv, Reset PROVE IInv'
<1>1. /\ UNCHANGED <<records, turns, reader, sends, files>>
      /\ docs' = {} /\ conversationRef' = None /\ documentContextRef' = None
      /\ busy' = FALSE /\ reading' = FALSE /\ lastFailed' = None /\ answered' = <<>>
      /\ since' = [sends |-> sends, files |-> files] /\ ~busy /\ ~reading
  BY DEF Reset, ResetEnabled
<1>2. CountInv' /\ RefInv' /\ DocInv' /\ ContextCoversRead'
  BY <1>1 DEF IInv, CountInv, RefInv, FreshConversation, Fresh, DocInv, ContextCoversRead, None
<1>3. TurnInv' /\ ReaderInv'
  BY <1>1 DEF IInv, TurnInv, ReaderInv
<1>4. ThreadInv'
  <2>1. <<>> \in Seq(Nat) /\ DOMAIN <<>> = {}
    BY EmptySeq
  <2>. QED
    BY <1>1, <2>1 DEF ThreadInv
<1>. QED
  BY <1>1, <1>2, <1>3, <1>4 DEF IInv

LEMMA Loses == ASSUME IInv, NEW ref \in DOMAIN records, Expire(ref) PROVE IInv'
<1>1. records' \in Seq(Record) /\ Grown
  BY Expires DEF IInv
<1>. QED
  BY <1>1, KeepsRefs, KeepsDocs, KeepsReader, KeepsTurns, KeepsThread, KeepsCover DEF IInv, CountInv, Expire, refs, counts

LEMMA Stutters == ASSUME IInv, UNCHANGED vars PROVE IInv'
<1>1. records' \in Seq(Record) /\ Grown
  BY Same DEF IInv, vars
<1>. QED
  BY <1>1, KeepsRefs, KeepsDocs, KeepsReader, KeepsTurns, KeepsThread, KeepsCover DEF IInv, CountInv, vars, refs, counts

LEMMA NextIInv == IInv /\ [Next]_vars => IInv'
<1>. SUFFICES ASSUME IInv, [Next]_vars PROVE IInv'
  OBVIOUS
<1>1. CASE AddFile \/ \E d \in docs : RemoveDocument(d)
  BY <1>1, AddsFile, RemovesDocument
<1>2. CASE Read \/ ReadDone \/ Resolved
  BY <1>2, StartsReading, ReadsDone, Resolves
<1>3. CASE Send \/ Retry
  BY <1>3, Sends, Retries
<1>4. CASE Exchange
  BY <1>4, Answers, Restarts, LosesDocuments, Failures DEF Exchange
<1>5. CASE Reset \/ \E ref \in DOMAIN records : Expire(ref)
  BY <1>5, Resets, Loses
<1>6. CASE UNCHANGED vars
  BY <1>6, Stutters
<1>. QED
  BY <1>1, <1>2, <1>3, <1>4, <1>5, <1>6 DEF Next

-----------------------------------------------------------------------------
(* What holds in every reachable state *)

LEMMA Invariance == Spec => []IInv
<1>. QED
  BY InitIInv, NextIInv, PTL DEF Spec

\* While the client names a document context, it holds every document the list shows as read
\* (advisor-store.ts, AdvisorPro.tsx), for any number of files, resets and losses.
THEOREM Covered == Spec => []ContextCoversRead
<1>1. IInv => ContextCoversRead
  BY DEF IInv
<1>. QED
  BY <1>1, Invariance, PTL

\* The conversation the client goes on with is made of the exchanges the thread shows since it began, no message
\* is answered twice, and no turn reaches what was there before the last reset (advisor-store.ts, exchange and
\* reset), for any number of messages, retries, files, resets and losses.
THEOREM Agrees == Spec => []ThreadIsConversation
<1>1. IInv => ThreadIsConversation
  <2>. SUFFICES ASSUME IInv PROVE ThreadIsConversation
    OBVIOUS
  <2>1. \A ref \in Reachable : Fresh(ref) /\ ref # None
    BY DEF Reachable, WithContext, IInv, RefInv, FreshConversation
  <2>2. \A ref \in Reachable : /\ \A m \in ToSet(records[ref].messages) : m > since.sends
                              /\ \A f \in records[ref].files : f > since.files
    BY <2>1 DEF Fresh
  <2>. QED
    BY <2>2 DEF ThreadIsConversation, IInv, RefInv, ThreadInv
<1>. QED
  BY <1>1, Invariance, PTL

=============================================================================
