---------------------------- MODULE CanvasJournal ----------------------------
(***************************************************************************)
(* The v3 journal of one canvas document and the windows that edit it.     *)
(*                                                                         *)
(* The journal is a snapshot and the operations appended since.  A window  *)
(* opens it, keeps the document that it replays to, and changes that only  *)
(* when the answer to an append arrives.  It rebuilds its undo and redo    *)
(* stacks from the operations.  Requests may be lost, answered after their *)
(* window has given up on them or has gone, or sent again.                 *)
(***************************************************************************)
EXTENDS Integers, Sequences, FiniteSets, SequencesExt

CONSTANTS
    Windows,   \* the open pages of an app, or of several
    None,      \* nothing, nobody
    MaxLog,    \* MAX_OPERATIONS of the store
    MaxQueued, \* bound: checkpoints that wait behind a call
    MaxSent,   \* bound: requests on their way when one is sent
    MaxOps     \* bound: operations prepared

ASSUME JournalAssumption ==
    /\ None \notin Windows
    /\ MaxLog \in Nat /\ MaxQueued \in Nat /\ MaxSent \in Nat
    /\ MaxOps \in Nat

VARIABLES
    snapshot, \* the row of the snapshot
    log,      \* the rows of the operations
    window,   \* what each window holds
    requests, \* what has been sent to the sidecar and not been served
    nextId,   \* of operations
    docs      \* history: the documents the journal has stood for

journalVars == <<snapshot, log, window, requests, nextId, docs>>

\* A document: its revision, the operation that made it, and the edits in it.
\* Its hash covers all three, so that equal hashes are equal documents.
Seed == [revision |-> 0, cursor |-> 0, content |-> <<>>]

\* There is no row of a snapshot.
Absent == [Seed EXCEPT !.revision = -1]

\* An action puts an edit on top of the document or takes it off again.
InverseAction(action) ==
    [action EXCEPT !.type = IF @ = "put" THEN "drop" ELSE "put"]

\* nextSemanticDocument
After(doc, id, action) ==
    [revision |-> doc.revision + 1,
     cursor |-> id,
     content |-> IF action.type = "put" THEN Append(doc.content, action.edit)
                                        ELSE Front(doc.content)]

\* prepareFromAction
Operation(doc, id, action, undoOf) ==
    [id |-> id, action |-> action, undoOf |-> undoOf,
     before |-> doc, result |-> After(doc, id, action)]

\* applyCanvasOperationV3 accepts an operation for the very document it was
\* prepared on.
Applies(doc, op) == op.before = doc

DocumentAfter(doc, ops) == IF ops = <<>> THEN doc ELSE Last(ops).result

\* #load fails on rows that do not replay.
Replays(doc, ops) ==
    \A i \in DOMAIN ops :
        Applies(DocumentAfter(doc, SubSeq(ops, 1, i - 1)), ops[i])

Current == DocumentAfter(snapshot, log)

-----------------------------------------------------------------------------
(* Undo and redo.                                                          *)

NoHistory == [undo |-> <<>>, redo |-> <<>>]

\* Mutant: what was undone before an edit can still be redone.
KeepRedo(history, op) == [history EXCEPT !.undo = Append(@, op)]

AfterEdit(history, op) == [undo |-> Append(history.undo, op), redo |-> <<>>]

\* restoredHistory, one operation
Restore(history, op) ==
    CASE op.undoOf = 0 -> AfterEdit(history, op)
      [] history.undo # <<>> /\ Last(history.undo).id = op.undoOf ->
            [undo |-> Front(history.undo),
             redo |-> Append(history.redo,
                             [original |-> Last(history.undo), undone |-> op])]
      [] history.redo # <<>> /\ Last(history.redo).undone.id = op.undoOf ->
            [undo |-> Append(history.undo, op), redo |-> Front(history.redo)]
      [] OTHER -> history

Restored(ops) ==
    LET upTo[i \in 0..Len(ops)] ==
          IF i = 0 THEN NoHistory ELSE Restore(upTo[i - 1], ops[i])
    IN  upTo[Len(ops)]

-----------------------------------------------------------------------------
NoCall == [kind |-> "none", what |-> None, entry |-> None]

Closed == [open |-> FALSE, doc |-> Seed, tail |-> <<>>, undo |-> <<>>,
           redo |-> <<>>, call |-> NoCall, queued |-> 0]

JournalInit ==
    /\ snapshot = Absent
    /\ log = <<>>
    /\ window = [w \in Windows |-> Closed]
    /\ requests = {}
    /\ nextId = 1
    /\ docs = <<>>

DocOK(doc) ==
    /\ DOMAIN doc = DOMAIN Seed
    /\ doc.revision \in Nat /\ doc.cursor \in 0..MaxOps
    /\ \A i \in DOMAIN doc.content : doc.content[i] \in 1..MaxOps

OpOK(op) ==
    /\ op.id \in 1..MaxOps /\ op.undoOf \in 0..MaxOps
    /\ DocOK(op.before) /\ DocOK(op.result)

JournalTypeOK ==
    /\ snapshot = Absent \/ DocOK(snapshot)
    /\ Len(log) <= MaxLog
    /\ \A i \in DOMAIN log : OpOK(log[i])
    /\ DOMAIN window = Windows
    /\ \A w \in Windows :
          /\ DOMAIN window[w] = DOMAIN Closed
          /\ DocOK(window[w].doc)
          /\ window[w].queued \in 0..MaxQueued
          /\ window[w].queued > 0 => window[w].call # NoCall
    /\ \A r \in requests :
          /\ r.from \in Windows \union {None}
          /\ r.from # None => window[r.from].call.what = r.what
    /\ nextId \in 1..(MaxOps + 1)

-----------------------------------------------------------------------------
(* The window: CanonicalWorkbenchAuthorityV3 over its journal's queue.     *)

Request(from, kind, what) == [from |-> from, kind |-> kind, what |-> what]

CanSend == Cardinality(requests) < MaxSent

\* Mutant: an answer that comes too late is taken for that of a later call.
StillAwaited(w) == requests

\* The requests of a window that no longer waits for their answers.
Orphaned(w) == {IF r.from = w THEN [r EXCEPT !.from = None] ELSE r : r \in requests}

\* committing
Committing(w) == window[w].call # NoCall

\* Load finds a journal: the window shows what it replays to.
Open(w) ==
    /\ ~window[w].open /\ ~Committing(w)
    /\ snapshot # Absent /\ Replays(snapshot, log)
    /\ window' = [window EXCEPT ![w] =
          [Closed EXCEPT !.open = TRUE, !.doc = Current, !.tail = log,
                         !.undo = Restored(log).undo,
                         !.redo = Restored(log).redo]]
    /\ UNCHANGED <<snapshot, log, requests, nextId, docs>>

\* Load finds none: the window stores its seed.
OpenSeed(w) ==
    /\ ~window[w].open /\ ~Committing(w)
    /\ snapshot = Absent /\ CanSend
    /\ window' = [window EXCEPT ![w].call =
          [NoCall EXCEPT !.kind = "initialize", !.what = Seed]]
    /\ requests' = requests \union {Request(w, "initialize", Seed)}
    /\ UNCHANGED <<snapshot, log, nextId, docs>>

\* Prepares an operation, changes the stacks, and sends it.
Send(w, kind, action, undoOf, entry) ==
    LET v == window[w]
        op == Operation(v.doc, nextId, action, undoOf)
    IN  /\ v.open /\ ~Committing(w)
        /\ nextId <= MaxOps /\ CanSend
        /\ nextId' = nextId + 1
        /\ requests' = requests \union {Request(w, "append", op)}
        /\ window' = [window EXCEPT ![w] =
              [v EXCEPT
                 !.call = [kind |-> kind, what |-> op, entry |-> entry],
                 !.undo = IF kind = "undo" THEN Front(v.undo)
                                           ELSE Append(v.undo, op),
                 !.redo = CASE kind = "commit" -> <<>>
                            [] kind = "undo" ->
                                  Append(v.redo,
                                         [original |-> entry, undone |-> op])
                            [] kind = "redo" -> Front(v.redo)]]
        /\ UNCHANGED <<snapshot, log, docs>>

Commit(w) ==
    Send(w, "commit", [type |-> "put", edit |-> nextId], 0, None)

\* invertCanvasOperationV3 takes the operation that made the document.
Invertible(doc, op) == op.id = doc.cursor /\ op.result = doc

Undo(w) ==
    /\ window[w].undo # <<>>
    /\ LET original == Last(window[w].undo)
       IN  /\ Invertible(window[w].doc, original)
           /\ Send(w, "undo", InverseAction(original.action), original.id, original)

Redo(w) ==
    /\ window[w].redo # <<>>
    /\ LET entry == Last(window[w].redo)
       IN  /\ Invertible(window[w].doc, entry.undone)
           /\ Send(w, "redo", InverseAction(entry.undone.action), entry.undone.id, entry)

\* Nothing keeps a checkpoint from being asked for while a call is pending:
\* it waits for its turn.
Checkpoint(w) ==
    /\ window[w].open
    /\ IF Committing(w)
       THEN /\ window[w].queued < MaxQueued
            /\ window' = [window EXCEPT ![w].queued = @ + 1]
            /\ UNCHANGED requests
       ELSE /\ CanSend
            /\ window' = [window EXCEPT ![w].call =
                  [NoCall EXCEPT !.kind = "checkpoint", !.what = window[w].doc]]
            /\ requests' = requests
                  \union {Request(w, "checkpoint", window[w].doc)}
    /\ UNCHANGED <<snapshot, log, nextId, docs>>

\* The call of a window is over; a checkpoint that waited for it begins.
Proceed(w, new, sent) ==
    IF new.queued = 0
    THEN /\ window' = [window EXCEPT ![w] = [new EXCEPT !.call = NoCall]]
         /\ requests' = sent
    ELSE /\ window' = [window EXCEPT ![w] =
               [new EXCEPT !.queued = @ - 1,
                           !.call = [NoCall EXCEPT !.kind = "checkpoint",
                                                   !.what = new.doc]]]
         /\ requests' = sent \union {Request(w, "checkpoint", new.doc)}

\* What a window holds once its call was accepted.
Accepted(w) ==
    LET c == window[w].call
    IN  CASE c.kind = "initialize" ->
                [window[w] EXCEPT !.open = TRUE, !.doc = Seed]
          [] c.kind = "checkpoint" ->
                [window[w] EXCEPT !.tail = <<>>, !.undo = <<>>, !.redo = <<>>]
          [] OTHER ->
                [window[w] EXCEPT !.doc = c.what.result,
                                  !.tail = Append(@, c.what)]

\* What it holds once the call failed.  The redo stack that a commit emptied
\* is not put back.
Failed(w) ==
    LET c == window[w].call
    IN  CASE c.kind = "commit" -> [window[w] EXCEPT !.undo = Front(@)]
          [] c.kind = "undo" ->
                [window[w] EXCEPT !.redo = Front(@), !.undo = Append(@, c.entry)]
          [] c.kind = "redo" ->
                [window[w] EXCEPT !.undo = Front(@), !.redo = Append(@, c.entry)]
          [] OTHER -> window[w]

\* The request or its answer is lost, or comes too late.
GiveUp(w) ==
    /\ Committing(w)
    /\ Proceed(w, Failed(w), Orphaned(w))
    /\ UNCHANGED <<snapshot, log, nextId, docs>>

\* The page is closed or reloaded, or dies.
Close(w) ==
    /\ window[w].open
    /\ window' = [window EXCEPT ![w] = Closed]
    /\ requests' = Orphaned(w)
    /\ UNCHANGED <<snapshot, log, nextId, docs>>

-----------------------------------------------------------------------------
(* The sidecar: one transaction per step.                                  *)

\* The answer to a request, if a window waits for it.  Nothing else looks at
\* what that window holds, so that the time the answer takes is left out.
Answer(r, accepted, sent) ==
    IF r.from = None
    THEN window' = window /\ requests' = sent
    ELSE Proceed(r.from, IF accepted THEN Accepted(r.from) ELSE Failed(r.from), sent)

Stored(op) == \E i \in DOMAIN log : log[i].id = op.id

ServeInitialize(r) ==
    /\ r.kind = "initialize"
    /\ \/ /\ snapshot = Absent
          /\ snapshot' = r.what /\ docs' = <<r.what>>
          /\ Answer(r, TRUE, requests \ {r})
       \/ /\ snapshot # Absent
          /\ Answer(r, log = <<>> /\ snapshot = r.what, requests \ {r})
          /\ UNCHANGED <<snapshot, docs>>
    /\ UNCHANGED <<log, nextId>>

CanAppend(op) ==
    /\ snapshot # Absent /\ Replays(snapshot, log)
    /\ Len(log) < MaxLog
    /\ Applies(Current, op)

AppendOnce(r, sent) ==
    \/ /\ Stored(r.what)
       /\ Answer(r, r.what \in Range(log), sent)
       /\ UNCHANGED <<log, docs>>
    \/ /\ ~Stored(r.what) /\ CanAppend(r.what)
       /\ log' = Append(log, r.what)
       /\ docs' = Append(docs, r.what.result)
       /\ Answer(r, TRUE, sent)
    \/ /\ ~Stored(r.what) /\ ~CanAppend(r.what)
       /\ Answer(r, FALSE, sent)
       /\ UNCHANGED <<log, docs>>

\* The sender of an append may send the same one again.
ServeAppend(r) ==
    /\ r.kind = "append"
    /\ \/ AppendOnce(r, requests \ {r})
       \/ AppendOnce(r, (requests \ {r}) \union {[r EXCEPT !.from = None]})
    /\ UNCHANGED <<snapshot, nextId>>

\* Mutant: a checkpoint is not compared with what the journal replays to.
CompactsAny(doc) == snapshot # Absent

CanCompact(doc) ==
    snapshot # Absent /\ Replays(snapshot, log) /\ Current = doc

ServeCheckpoint(r) ==
    /\ r.kind = "checkpoint"
    /\ \/ /\ CanCompact(r.what)
          /\ snapshot' = r.what /\ log' = <<>>
          /\ requests' = (requests \ {r}) \union {[r EXCEPT !.kind = "compacted"]}
          /\ UNCHANGED window
       \/ /\ ~CanCompact(r.what)
          /\ Answer(r, FALSE, requests \ {r})
          /\ UNCHANGED <<snapshot, log>>
    /\ UNCHANGED <<nextId, docs>>

\* The sidecar reads the journal again before it answers a checkpoint.
ServeCompacted(r) ==
    /\ r.kind = "compacted"
    /\ Answer(r, log = <<>> /\ snapshot = r.what, requests \ {r})
    /\ UNCHANGED <<snapshot, log, nextId, docs>>

\* A request that nobody waits for any more is lost on its way, or with the
\* sidecar.  A lost request that is waited for is one its window gives up.
Lose(r) ==
    /\ r.from = None
    /\ requests' = requests \ {r}
    /\ UNCHANGED <<snapshot, log, window, nextId, docs>>

JournalNext ==
    \/ \E w \in Windows :
          \/ Open(w) \/ OpenSeed(w) \/ Commit(w) \/ Undo(w) \/ Redo(w)
          \/ Checkpoint(w) \/ GiveUp(w) \/ Close(w)
    \/ \E r \in requests :
          \/ ServeInitialize(r) \/ ServeAppend(r) \/ ServeCheckpoint(r)
          \/ ServeCompacted(r) \/ Lose(r)

JournalSpec == JournalInit /\ [][JournalNext]_journalVars

-----------------------------------------------------------------------------
(* What the journal promises.                                              *)

\* The journal is one chain.  Whatever was appended or compacted by whom, the
\* snapshot and the operations replay to the last document that was
\* acknowledged, each operation was made on the document of the one before,
\* and a window shows a document of that chain, and never one of its own.
OneChain ==
    /\ snapshot = Absent <=> docs = <<>>
    /\ snapshot # Absent =>
          /\ Replays(snapshot, log)
          /\ Current = Last(docs)
          /\ \A i \in DOMAIN docs : docs[i].revision = i - 1
    /\ \A w \in Windows : window[w].open => window[w].doc \in Range(docs)

\* The edits of operations, in the order of a stack.
Edits(ops) == [i \in DOMAIN ops |-> ops[i].action.edit]

\* What a window can undo is what it would restore from the operations it has
\* seen, and these are the last edits of its document, in order; what it can
\* redo is what it would restore, unless a failed commit has emptied it, and
\* the redo that it offers can be prepared.
HistoryMatchesLog ==
    \A w \in Windows :
        LET v == window[w]
        IN  v.open /\ ~Committing(w) =>
                /\ v.undo = Restored(v.tail).undo
                /\ v.redo \in {Restored(v.tail).redo, <<>>}
                /\ IsSuffix(Edits(v.undo), v.doc.content)
                /\ v.redo # <<>> => Invertible(v.doc, Last(v.redo).undone)

\* Not so: what a window offers to undo can be undone.
UndoIsPossible ==
    \A w \in Windows :
        window[w].open /\ ~Committing(w) /\ window[w].undo # <<>> =>
            Invertible(window[w].doc, Last(window[w].undo))
=============================================================================
