---------------------------- MODULE AdvisorChat ----------------------------
(***************************************************************************)
(* The advisor screen (advisor/advisor-store.ts, AdvisorPro.tsx) together  *)
(* with the server it talks to: the thread, the two opaque references, the *)
(* documents the user added, and the conversations, contexts and batches   *)
(* the server holds (advisor.controller.ts, profile.controller.ts,         *)
(* DocumentContexts).  The exchange of a message and the reading of        *)
(* documents are asynchronous: every step between two awaits interleaves   *)
(* with the other, with the user's clicks, and with records expiring.      *)
(*                                                                         *)
(* Messages and files are numbered in the order the user sends and adds    *)
(* them; a record is reduced to the messages it remembers and the files    *)
(* its facts come from.  A request takes effect on the server in the same  *)
(* step in which its reply arrives: records are never changed, only        *)
(* appended and lost, so nothing could tell an earlier moment apart.       *)
(***************************************************************************)
EXTENDS Integers, FiniteSets, SequencesExt

CONSTANTS
  MaxSends, MaxFiles, MaxResets,   \* bounds: what the user does
  MaxRecords                       \* bound: records the server ever stores

ASSUME BoundsAssumption ==
  /\ MaxSends \in Nat /\ MaxFiles \in Nat /\ MaxResets \in Nat /\ MaxRecords \in Nat

VARIABLES
  records,             \* what the server stored for this browser session; a reference is an index
  docs,                \* the document list, in the order of its ids
  conversationRef, documentContextRef,
  busy, reading,
  lastFailed,          \* lastFailedMessage
  lastItem,            \* the last item of the thread
  advisorAvailable,
  turns,               \* exchanges in flight
  reader,              \* the read() in flight
  sends, files,        \* messages sent and files added so far
  resets,
  since,               \* messages and files of before the last reset (history)
  answered             \* messages answered in the thread since it last restarted (history)

refs   == <<conversationRef, documentContextRef>>
counts == <<sends, files, resets, since>>
vars   == <<records, docs, refs, busy, reading, lastFailed, lastItem, advisorAvailable,
            turns, reader, counts, answered>>

None == 0

NoReader == [pc |-> "none", pending |-> {}, request |-> {}]

Batch(file)    == [kind |-> "batch", files |-> {file}, messages |-> <<>>, docRef |-> None, gone |-> FALSE]
Context(fs)    == [kind |-> "context", files |-> fs, messages |-> <<>>, docRef |-> None, gone |-> FALSE]
Conversation(messages, docRef) ==
  [kind |-> "advisor", files |-> {}, messages |-> messages, docRef |-> docRef, gone |-> FALSE]

\* The screen opens, on its own or from Payslip Analysis with the context of the file read there.
Init ==
  /\ \/ /\ records = <<>> /\ files = 0
        /\ documentContextRef = None /\ lastItem = "none"
     \/ /\ records = <<Context({1})>> /\ files = 1
        /\ documentContextRef = 1 /\ lastItem = "info"
  /\ docs = {} /\ conversationRef = None
  /\ busy = FALSE /\ reading = FALSE /\ lastFailed = None /\ advisorAvailable = TRUE
  /\ turns = {} /\ reader = NoReader
  /\ sends = 0 /\ resets = 0 /\ since = [sends |-> 0, files |-> 0]
  /\ answered = <<>>

-----------------------------------------------------------------------------
(* The server's records (document-context/store.ts). *)

\* getRecord answers with a record of this kind.
Held(ref, kind) == ref # None /\ records[ref].kind = kind /\ ~records[ref].gone

\* The reference of the record stored next.
NewRef == Len(records) + 1

Put(record) == Len(records) < MaxRecords /\ records' = Append(records, record)

\* A conversation, and the document context it remembers.
WithContext(conversation) == {conversation} \cup (IF conversation = None THEN {} ELSE {records[conversation].docRef})

\* What a request in flight, or the next one, can still name: a record no one names changes nothing.
Named ==
  WithContext(conversationRef) \cup {documentContextRef}
    \cup {d.batch : d \in docs \cup reader.request}
    \cup UNION {WithContext(t.conversation) \cup {t.context} : t \in turns}

\* A record is lost: two hours, or its session cookie, are over.
Expire(ref) ==
  /\ ref \in Named /\ ~records[ref].gone
  /\ records' = [records EXCEPT ![ref].gone = TRUE]
  /\ UNCHANGED <<docs, refs, busy, reading, lastFailed, lastItem, advisorAvailable, turns, reader,
                 counts, answered>>

-----------------------------------------------------------------------------
(* The document list *)

Editable == ~busy /\ ~reading

Document(id, file, status, batch) == [id |-> id, file |-> file, status |-> status, batch |-> batch]

nextDocId == files - since.files + 1

AddFile ==
  /\ Editable /\ files < MaxFiles
  /\ files' = files + 1
  /\ docs' = docs \cup {Document(nextDocId, files', "selected", None)}
  /\ UNCHANGED <<records, refs, busy, reading, lastFailed, lastItem, advisorAvailable, turns, reader,
                 sends, resets, since, answered>>

AnyRead(list) == \E d \in list : d.status = "read"

RemoveDocument(d) ==
  /\ Editable
  /\ docs' = docs \ {d}
  /\ documentContextRef' = IF AnyRead(docs') THEN documentContextRef ELSE None
  /\ UNCHANGED <<records, conversationRef, busy, reading, lastFailed, lastItem, advisorAvailable,
                 turns, reader, counts, answered>>

-----------------------------------------------------------------------------
(* read() *)

Pending(d) == d.status \in {"selected", "failed"}
toRead(list) == {d \in list : Pending(d)}

\* Mutant of Sendable: only documents the server holds are sent.
SendableByRef(d) == d.status = "read" /\ d.batch # None

\* profileDocuments: the read ones.
Sendable(d) == d.status = "read"
profileDocuments(list) == {d \in list : Sendable(d)}

\* docs.map over the document with this id.
WithDoc(id, status, batch) ==
  {IF d.id = id THEN Document(d.id, d.file, status, batch) ELSE d : d \in docs}

Marked(d) == IF Pending(d) THEN Document(d.id, d.file, "reading", d.batch) ELSE d

Read ==
  /\ Editable /\ toRead(docs) # {}
  /\ reading' = TRUE
  /\ docs' = {Marked(d) : d \in docs}
  /\ reader' = [pc |-> "reading", pending |-> {d.id : d \in toRead(docs)}, request |-> {}]
  /\ UNCHANGED <<records, refs, busy, lastFailed, lastItem, advisorAvailable, turns, counts, answered>>

\* One document is read (its batch is held by the server, or the store was down), or could not be.
\* After the last one the profile is asked for, from the list as it is then.
ReadDone ==
  /\ reader.pc = "reading"
  /\ \E id \in reader.pending :
       /\ \A other \in reader.pending : id <= other
       /\ \/ Put(Batch(since.files + id)) /\ docs' = WithDoc(id, "read", NewRef)
          \/ records' = records /\ docs' = WithDoc(id, "read", None)
          \/ records' = records /\ docs' = WithDoc(id, "failed", None)
       /\ reader' = IF reader.pending # {id} THEN [pc |-> "reading", pending |-> reader.pending \ {id}, request |-> {}]
                    ELSE [pc |-> "resolving", pending |-> {}, request |-> profileDocuments(docs')]
  /\ UNCHANGED <<refs, busy, reading, lastFailed, lastItem, advisorAvailable, turns, counts, answered>>

\* POST /api/profile/resolve builds a context only if every document came by a reference still held.
ByReference(request) == request # {} /\ \A d \in request : Held(d.batch, "batch")

FilesOf(request) == UNION {records[d.batch].files : d \in request}

\* The profile comes back with a context, or without one (refused, lost, the store was down).
Resolved ==
  /\ reader.pc = "resolving"
  /\ \/ /\ ByReference(reader.request)
        /\ Put(Context(FilesOf(reader.request)))
        /\ documentContextRef' = NewRef
     \/ records' = records /\ documentContextRef' = None
  /\ reading' = FALSE /\ reader' = NoReader
  /\ lastItem' = "info"
  /\ UNCHANGED <<docs, conversationRef, busy, lastFailed, advisorAvailable, turns, counts, answered>>

-----------------------------------------------------------------------------
(* exchange(): postAdvisorTurn and what its answer does *)

\* The turn posted for a message, with the references the state has now.
Posted(message, retried) ==
  [message |-> message, retried |-> retried, conversation |-> conversationRef', context |-> documentContextRef']

Send ==
  /\ Editable /\ advisorAvailable /\ sends < MaxSends
  /\ sends' = sends + 1
  /\ busy' = TRUE /\ lastItem' = "message"
  /\ UNCHANGED refs
  /\ turns' = turns \cup {Posted(sends', FALSE)}
  /\ UNCHANGED <<records, docs, reading, lastFailed, advisorAvailable, reader, files, resets, since, answered>>

\* The retry button of an error notice, shown while it is the last item (also while documents are read).
Retry ==
  /\ lastFailed # None /\ lastItem = "error" /\ ~busy
  /\ busy' = TRUE
  /\ UNCHANGED refs
  /\ turns' = turns \cup {Posted(lastFailed, FALSE)}
  /\ UNCHANGED <<records, docs, reading, lastFailed, lastItem, advisorAvailable, reader, counts, answered>>

\* What the server remembers of the conversation a turn names.
Remembered(t) ==
  IF t.conversation = None THEN [messages |-> <<>>, docRef |-> None] ELSE records[t.conversation]

ConversationHeld(t) == t.conversation = None \/ Held(t.conversation, "advisor")
ContextHeld(t) == t.context = None \/ Held(t.context, "context")

\* The document context of a turn: the one named, or the one the conversation remembers.
contextRef(t) == IF t.context # None THEN t.context ELSE Remembered(t).docRef

\* Mutant of Remember: a turn continues the newest conversation of the session, whichever it names.
RememberInNewest(t) ==
  LET stored == SelectSeq(records, LAMBDA rec : rec.kind = "advisor")
      newest == IF stored = <<>> THEN <<>> ELSE Last(stored).messages
  IN Put(Conversation(Append(newest, t.message), contextRef(t)))

\* The conversation with this turn in it, as a new record.
Remember(t) == Put(Conversation(Append(Remembered(t).messages, t.message), contextRef(t)))

\* The advisor answers; the reply names the conversation it was kept in, or none if it was not.
TurnAnswered(t) ==
  /\ ConversationHeld(t) /\ ContextHeld(t)
  /\ \/ Remember(t) /\ conversationRef' = NewRef
     \/ records' = records /\ conversationRef' = None
  /\ busy' = FALSE /\ lastFailed' = None /\ lastItem' = "answer"
  /\ answered' = Append(answered, t.message)
  /\ turns' = turns \ {t}
  /\ UNCHANGED <<docs, documentContextRef, reading, advisorAvailable, reader, counts>>

\* Mutant of Fails: the spinner is left on.
FailsBusy(t, item) ==
  /\ busy' = busy /\ lastFailed' = t.message /\ lastItem' = item
  /\ turns' = turns \ {t}

\* The exchange ends in an error notice; item is "final" where the notice has no retry.
Fails(t, item) ==
  /\ busy' = FALSE /\ lastFailed' = t.message /\ lastItem' = item
  /\ turns' = turns \ {t}

\* 409 conversation_invalid: said once, and asked again in a fresh conversation.
ConversationInvalid(t) ==
  /\ ~ConversationHeld(t)
  /\ IF t.retried
       THEN Fails(t, "error") /\ UNCHANGED <<conversationRef, documentContextRef, answered>>
       ELSE /\ conversationRef' = None /\ documentContextRef' = documentContextRef
            /\ lastItem' = "info" /\ answered' = <<>>
            /\ turns' = (turns \ {t}) \cup {Posted(t.message, TRUE)}
            /\ UNCHANGED <<busy, lastFailed>>
  /\ UNCHANGED <<records, docs, reading, advisorAvailable, reader, counts>>

Unread(d) == IF d.status = "read" THEN Document(d.id, d.file, "selected", None) ELSE d

\* 409 document_context_invalid: the read documents can be read again; asked again without them.
ContextInvalid(t) ==
  /\ ConversationHeld(t) /\ ~ContextHeld(t)
  /\ IF t.retried
       THEN Fails(t, "error") /\ UNCHANGED <<docs, conversationRef, documentContextRef>>
       ELSE /\ documentContextRef' = None /\ conversationRef' = conversationRef
            /\ docs' = {Unread(d) : d \in docs}
            /\ lastItem' = "info"
            /\ turns' = (turns \ {t}) \cup {Posted(t.message, TRUE)}
            /\ UNCHANGED <<busy, lastFailed>>
  /\ UNCHANGED <<records, reading, advisorAvailable, reader, counts, answered>>

\* No answer (unavailable, withheld, rate limited, network) - or one that came too late for the client,
\* which the server has kept.
TurnFails(t) ==
  /\ \/ records' = records
     \/ ConversationHeld(t) /\ ContextHeld(t) /\ Remember(t)
  /\ Fails(t, "error")
  /\ UNCHANGED <<docs, refs, reading, advisorAvailable, reader, counts, answered>>

NotConfigured(t) ==
  /\ advisorAvailable' = FALSE
  /\ Fails(t, "final")
  /\ UNCHANGED <<records, docs, refs, reading, reader, counts, answered>>

-----------------------------------------------------------------------------

\* The reset button, enabled while nothing is in flight.
ResetEnabled == ~busy /\ ~reading

Reset ==
  /\ ResetEnabled /\ resets < MaxResets
  /\ resets' = resets + 1 /\ since' = [sends |-> sends, files |-> files]
  /\ docs' = {} /\ conversationRef' = None /\ documentContextRef' = None
  /\ busy' = FALSE /\ reading' = FALSE /\ lastFailed' = None /\ lastItem' = "none"
  /\ answered' = <<>>
  /\ UNCHANGED <<records, advisorAvailable, turns, reader, sends, files>>

Exchange == \E t \in turns :
  \/ TurnAnswered(t) \/ ConversationInvalid(t) \/ ContextInvalid(t) \/ TurnFails(t) \/ NotConfigured(t)

Next ==
  \/ AddFile \/ \E d \in docs : RemoveDocument(d)
  \/ Read \/ ReadDone \/ Resolved
  \/ Send \/ Retry \/ Exchange
  \/ Reset
  \/ \E ref \in DOMAIN records : Expire(ref)

\* Every fetch of the client ends, with an answer or an error (postAdvisorTurn aborts after 120 s; the
\* reader and the profile route have their own deadlines).
Fairness == WF_vars(Exchange) /\ WF_vars(ReadDone \/ Resolved)

Spec == Init /\ [][Next]_vars /\ Fairness

-----------------------------------------------------------------------------
(* Properties *)

\* While the client names a document context, it holds every document the list shows as read - also when a
\* retried message finds the old context gone in the middle of a reading.
ContextCoversRead ==
  ~reading /\ documentContextRef # None =>
    \A d \in docs : d.status = "read" => d.file \in records[documentContextRef].files

\* The records a next turn would rest on.
Reachable == (WithContext(conversationRef) \cup {documentContextRef}) \ {None}

\* The conversation the client goes on with is made of exchanges the thread shows, in its order: an answer
\* that was lost and asked for again is in it once, one that was never shown is not in it, and no message is
\* answered twice.  After a reset - "everything is dropped - the documents included" - no turn can reach a
\* message or a document of before it, neither through the client's references nor through the conversation's.
ThreadIsConversation ==
  /\ conversationRef # None => IsSuffix(records[conversationRef].messages, answered)
  /\ \A i, j \in DOMAIN answered : answered[i] = answered[j] => i = j
  /\ \A ref \in Reachable : /\ \A m \in ToSet(records[ref].messages) : m > since.sends
                            /\ \A f \in records[ref].files : f > since.files

\* The screen always comes back: no lost answer, expired record or retry blocks it for good.
Responsive == []<>(~busy /\ ~reading)

-----------------------------------------------------------------------------
(* The inductive invariant of the proofs *)

CountInv ==
  /\ sends \in Nat /\ files \in Nat /\ lastFailed \in Nat
  /\ since \in [sends : Nat, files : Nat] /\ since.sends <= sends /\ since.files <= files

Record == [kind : {"batch", "context", "advisor"}, files : SUBSET Nat, messages : Seq(Nat), docRef : Nat, gone : BOOLEAN]

\* A reference the client or the server may still use names nothing of before the last reset.
Fresh(ref) ==
  ref # None =>
    /\ ref \in 1 .. Len(records)
    /\ \A m \in ToSet(records[ref].messages) : m > since.sends
    /\ \A f \in records[ref].files : f > since.files
FreshConversation(ref) == Fresh(ref) /\ (ref # None => Fresh(records[ref].docRef))

RefInv ==
  /\ FreshConversation(conversationRef) /\ Fresh(documentContextRef)
  /\ conversationRef # None => IsSuffix(records[conversationRef].messages, answered)

\* A message still to be answered is of after the last reset, and not in the thread's answers.
Asked(m) == since.sends < m /\ m <= sends /\ m \notin ToSet(answered)

ThreadInv ==
  /\ answered \in Seq(Nat)
  /\ \A i \in DOMAIN answered : since.sends < answered[i] /\ answered[i] <= sends
  /\ \A i, j \in DOMAIN answered : answered[i] = answered[j] => i = j
  /\ lastFailed # None => Asked(lastFailed)

\* One exchange runs while the screen is busy; it continues the conversation the client names.
Turn(t) == t.conversation = conversationRef /\ Fresh(t.context) /\ t.message \in Nat /\ Asked(t.message)
TurnInv ==
  /\ busy \in BOOLEAN /\ (busy <=> turns # {})
  /\ \A t \in turns : turns = {t} /\ Turn(t)

\* A batch is of the file it was read from.
HoldsFile(d) == d.batch # None => d.batch \in 1 .. Len(records) /\ records[d.batch].files = {d.file}
Listed(d) ==
  /\ d = Document(d.id, d.file, d.status, d.batch)
  /\ d.id \in Nat \ {0} /\ d.file = since.files + d.id /\ HoldsFile(d)
DocInv == \A d \in docs : Listed(d)

\* A profile that is asked for covers what the list then shows as read.
ReaderInv ==
  /\ reading \in BOOLEAN /\ (reading <=> reader.pc # "none")
  /\ reader.pc = "reading" => reader.pending \subseteq Nat \ {0}
  /\ reader.pc = "resolving" =>
       /\ \A r \in reader.request : HoldsFile(r) /\ r.file \in Nat /\ r.file > since.files
       /\ \A d \in docs : d.status = "read" => \E r \in reader.request : r.file = d.file

IInv ==
  /\ CountInv /\ records \in Seq(Record) /\ RefInv /\ ThreadInv /\ TurnInv /\ DocInv /\ ReaderInv
  /\ ContextCoversRead

=============================================================================
