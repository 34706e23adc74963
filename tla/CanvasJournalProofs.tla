------------------------ MODULE CanvasJournalProofs ------------------------
(***************************************************************************)
(* Proofs about CanvasJournal, for any windows and bounds: the journal is  *)
(* one chain and no window shows a document of its own; rows, pages and    *)
(* requests have their types; and what a window can undo and redo is what  *)
(* it would restore from the operations that it has seen.                  *)
(*                                                                         *)
(* The chain: an operation is appended only to the document it was made    *)
(* on, which is the last of the chain; and a window changes its document   *)
(* only with the answer to the one request it waits for, which is about    *)
(* what the window asked for.  What an undo or an edit consists of plays   *)
(* no part in this, and neither do the stacks of the windows.              *)
(*                                                                         *)
(* The stacks: whatever operations a page or the journal holds restore a   *)
(* history in which what can be undone are the last edits of the document, *)
(* and at most one operation can be redone, the one whose undoing made the *)
(* document.  One more operation leaves such a history again, since it was *)
(* made on that document and undoes nothing but what made it.  A page that *)
(* waits for an answer has moved one entry between its stacks already; an  *)
(* answer makes that true, a failure takes it back.                        *)
(***************************************************************************)
EXTENDS CanvasJournal, SequenceTheorems, WellFoundedInduction, TLAPS

IsSeq(s) == \E S : s \in Seq(S)

\* The journal, link by link.
Chain ==
    /\ IsSeq(log) /\ IsSeq(docs)
    /\ snapshot = Absent <=> docs = <<>>
    /\ snapshot = Absent => log = <<>>
    /\ \A i \in 1..Len(log) :
          /\ log[i].before = IF i = 1 THEN snapshot ELSE log[i - 1].result
          /\ log[i].result \in Range(docs)
    /\ docs # <<>> => Current = docs[Len(docs)]
    /\ \A i \in 1..Len(docs) : docs[i].revision = i - 1

\* What a request is about, whoever waits for it.
Sound(r) ==
    /\ r = Request(r.from, r.kind, r.what)
    /\ r.kind \in {"initialize", "append", "checkpoint", "compacted"}
    /\ r.kind = "initialize" => r.what = Seed
    /\ r.kind = "append" =>
          r.what.result.revision = r.what.before.revision + 1

\* A window waits for a request when its call is about the same.
Fits(r) ==
    /\ r.from \in Windows
    /\ window[r.from].call.what = r.what
    /\ window[r.from].call.kind \in
          CASE r.kind = "initialize" -> {"initialize"}
            [] r.kind = "append" -> {"commit", "undo", "redo"}
            [] OTHER -> {"checkpoint"}

RequestsFit ==
    /\ \A r \in requests : Sound(r) /\ (r.from # None => Fits(r))
    /\ \A r, q \in requests : r.from = q.from /\ r.from # None => r = q

Fields == {"open", "doc", "tail", "undo", "redo", "call", "queued"}

WindowsFit ==
    /\ DOMAIN window = Windows
    /\ \A w \in Windows : /\ Fields \subseteq DOMAIN window[w]
                          /\ window[w].open => window[w].doc \in Range(docs)

JournalInv == Chain /\ RequestsFit /\ WindowsFit

-----------------------------------------------------------------------------
(* Sequences.                                                              *)

\* The length and the range of any sequence.
LEMMA SeqFacts ==
    ASSUME NEW s, IsSeq(s)
    PROVE  /\ Len(s) \in Nat /\ DOMAIN s = 1..Len(s)
           /\ s = <<>> <=> Len(s) = 0
           /\ s # <<>> => Len(s) >= 1 /\ Len(s) \in 1..Len(s)
           /\ \A x : x \in Range(s) <=> \E i \in 1..Len(s) : x = s[i]
<1>1. PICK S : s \in Seq(S)
  BY DEF IsSeq
<1>2. Len(s) \in Nat /\ DOMAIN s = 1..Len(s)
  BY <1>1, LenProperties
<1>3. s = <<>> <=> Len(s) = 0
  BY <1>1, EmptySeq
<1>4. \A x : x \in Range(s) <=> \E i \in 1..Len(s) : x = s[i]
  BY <1>2 DEF Range
<1> QED
  BY <1>2, <1>3, <1>4

\* One more element.
LEMMA AppendFacts ==
    ASSUME NEW s, NEW e, IsSeq(s)
    PROVE  /\ IsSeq(Append(s, e)) /\ Append(s, e) # <<>>
           /\ Len(Append(s, e)) = Len(s) + 1
           /\ \A i \in 1..Len(s) : Append(s, e)[i] = s[i]
           /\ Append(s, e)[Len(s) + 1] = e
           /\ \A x : x \in Range(Append(s, e)) <=> x \in Range(s) \/ x = e
<1>1. PICK S : s \in Seq(S)
  BY DEF IsSeq
<1> DEFINE T == S \union {e}
           new == Append(s, e)
<1>2. s \in Seq(T)
  BY <1>1, SeqMonotonic
<1>3. /\ new \in Seq(T) /\ new # <<>> /\ Len(new) = Len(s) + 1
      /\ \A i \in 1..Len(s) : new[i] = s[i]
      /\ new[Len(s) + 1] = e
  BY <1>2, AppendProperties
<1>4. IsSeq(new)
  BY <1>3 DEF IsSeq
<1>5. Len(s) \in Nat
  BY SeqFacts
<1>6. \A i \in 1..Len(new) : i \in 1..Len(s) \/ i = Len(s) + 1
  BY <1>3, <1>5
<1>7. \A i \in 1..Len(s) : i \in 1..Len(new)
  BY <1>3, <1>5
<1>8. Len(s) + 1 \in 1..Len(new)
  BY <1>3, <1>5
<1>9. \A x : x \in Range(new) <=> \E i \in 1..Len(new) : x = new[i]
  BY <1>4, SeqFacts
<1>10. \A x : x \in Range(s) <=> \E i \in 1..Len(s) : x = s[i]
  BY SeqFacts
<1> HIDE DEF new
<1>11. \A x : x \in Range(new) <=> x \in Range(s) \/ x = e
  BY <1>3, <1>6, <1>7, <1>8, <1>9, <1>10
<1> QED
  BY <1>3, <1>4, <1>11 DEF new

\* The links make the operations replay.
LEMMA LinksReplay == Chain => Replays(snapshot, log)
<1> SUFFICES ASSUME Chain, NEW i \in DOMAIN log
             PROVE  Applies(DocumentAfter(snapshot, SubSeq(log, 1, i - 1)),
                            log[i])
  BY DEF Replays
<1> DEFINE past == SubSeq(log, 1, i - 1)
<1>1. PICK S : log \in Seq(S)
  BY DEF Chain, IsSeq
<1>2. Len(log) \in Nat /\ DOMAIN log = 1..Len(log)
  BY <1>1, LenProperties
<1>3. i \in 1..Len(log) /\ i - 1 \in Int
  BY <1>2
<1>4. CASE i = 1
  <2>1. past = <<>>
    BY <1>4, SubSeqEmpty
  <2> QED
    BY <1>3, <1>4, <2>1 DEF Chain, Applies, DocumentAfter
<1>5. CASE i # 1
  <2>1. i - 1 \in 1..Len(log) /\ i - 1 >= 1
    BY <1>2, <1>3, <1>5
  <2>2. \A k \in 1..(i - 1) : log[k] \in S
    BY <1>1, <1>2, <1>3, ElementOfSeq
  <2>3. /\ past \in Seq(S) /\ Len(past) = i - 1
        /\ \A k \in 1..(i - 1) : past[k] = log[k]
    <3>1. /\ past \in Seq(S)
          /\ Len(past) = IF 1 <= i - 1 THEN (i - 1) - 1 + 1 ELSE 0
          /\ \A k \in 1..((i - 1) - 1 + 1) : past[k] = log[1 + k - 1]
      BY <1>3, <2>2, SubSeqProperties
    <3> HIDE DEF past
    <3> QED
      BY <1>3, <2>1, <3>1
  <2>4. past # <<>> /\ Last(past) = log[i - 1]
    BY <2>1, <2>3, EmptySeq DEF Last
  <2> QED
    BY <1>3, <1>5, <2>4 DEF Chain, Applies, DocumentAfter
<1> QED
  BY <1>4, <1>5

\* The last document of the chain is the one of its last link.
LEMMA CurrentFacts ==
    ASSUME IsSeq(log)
    PROVE  Current = IF Len(log) = 0 THEN snapshot ELSE log[Len(log)].result
  BY SeqFacts DEF Current, DocumentAfter, Last

\* An invariant that holds says what the property says.
LEMMA InvGivesChain == JournalInv => OneChain
<1> SUFFICES ASSUME JournalInv PROVE OneChain
  OBVIOUS
<1>1. Replays(snapshot, log)
  BY LinksReplay DEF JournalInv
<1>2. DOMAIN docs = 1..Len(docs) /\ Last(docs) = docs[Len(docs)]
  BY SeqFacts DEF JournalInv, Chain, Last
<1> QED
  BY <1>1, <1>2 DEF JournalInv, Chain, WindowsFit, OneChain

-----------------------------------------------------------------------------
(* The windows.                                                            *)

\* What is still on its way when the call of a window is over: nothing that
\* this window waits for.
Leftover(sent, w) ==
    /\ \A r \in sent : Sound(r) /\ (r.from # None => Fits(r) /\ r.from # w)
    /\ \A r, q \in sent : r.from = q.from /\ r.from # None => r = q

\* The documents of the chain stay.
DocsStay == \A d \in Range(docs) : d \in Range(docs)'

\* A call ends, and a checkpoint that waited for it may begin.
LEMMA ProceedStep ==
    ASSUME WindowsFit, DocsStay, NEW w \in Windows, NEW new, NEW sent,
           Proceed(w, new, sent), Fields \subseteq DOMAIN new,
           new.open => new.doc \in Range(docs)', Leftover(sent, w)
    PROVE  RequestsFit' /\ WindowsFit'
<1> USE DEF Proceed, NoCall, Fields
<1>1. /\ DOMAIN window' = Windows
      /\ \A v \in Windows \ {w} : window'[v] = window[v]
      /\ Fields \subseteq DOMAIN window'[w]
      /\ window'[w].open = new.open /\ window'[w].doc = new.doc
  BY DEF WindowsFit
<1>2. WindowsFit'
  BY <1>1 DEF WindowsFit, DocsStay
<1>3. \A r \in sent : Sound(r)' /\ (r.from # None => Fits(r)' /\ r.from # w)
  BY <1>1 DEF Leftover, Sound, Fits
<1>4. RequestsFit'
  <2>1. CASE new.queued = 0
    BY <1>3, <2>1 DEF RequestsFit, Leftover
  <2>2. CASE new.queued # 0
    <3> DEFINE r == Request(w, "checkpoint", new.doc)
    <3>1. requests' = sent \union {r}
      BY <2>2
    <3>2. window'[w].call = [kind |-> "checkpoint", what |-> new.doc,
                             entry |-> None]
      BY <1>1, <2>2 DEF WindowsFit
    <3>3. /\ r.from = w /\ r.kind = "checkpoint" /\ r.what = new.doc
      BY DEF Request
    <3>4. Sound(r)' /\ Fits(r)'
      BY <3>2, <3>3 DEF Sound, Fits
    <3> HIDE DEF r
    <3> QED
      BY <1>3, <3>1, <3>3, <3>4 DEF RequestsFit, Leftover
  <2> QED
    BY <2>1, <2>2
<1> QED
  BY <1>2, <1>4

\* Nobody waits any more for what a window has given up.
LEMMA OrphanedLeftover ==
    ASSUME RequestsFit, NEW w \in Windows
    PROVE  Leftover(Orphaned(w), w)
<1>1. \A r \in requests : Sound(r) /\ (r.from # None => Fits(r))
  BY DEF RequestsFit
<1>2. w # None
  BY JournalAssumption
<1>3. ASSUME NEW r \in requests
      PROVE  LET q == [r EXCEPT !.from = None] IN q.from = None /\ Sound(q)
  <2>1. r = [from |-> r.from, kind |-> r.kind, what |-> r.what]
    BY <1>1 DEF Sound, Request
  <2> QED
    BY <1>1, <2>1 DEF Sound, Request
<1>4. ASSUME NEW q \in Orphaned(w)
      PROVE  Sound(q) /\ (q.from # None => q \in requests /\ q.from # w)
  BY <1>1, <1>2, <1>3, <1>4 DEF Orphaned
<1> QED
  BY <1>1, <1>4 DEF Leftover, RequestsFit

\* What is left when a request is served.
LEMMA ServedLeftover ==
    ASSUME RequestsFit, NEW r \in requests, r.from # None
    PROVE  /\ Leftover(requests \ {r}, r.from)
           /\ Leftover((requests \ {r}) \union {[r EXCEPT !.from = None]},
                       r.from)
<1>1. Leftover(requests \ {r}, r.from)
  BY DEF RequestsFit, Leftover
<1>2. Sound([r EXCEPT !.from = None]) /\ [r EXCEPT !.from = None].from = None
  <2>1. r = [from |-> r.from, kind |-> r.kind, what |-> r.what] /\ Sound(r)
    BY DEF RequestsFit, Sound, Request
  <2> QED
    BY <2>1 DEF Sound, Request
<1> QED
  BY <1>1, <1>2 DEF Leftover

\* The answer to a request: an accepted one is about a document of the chain.
LEMMA AnswerStep ==
    ASSUME RequestsFit, WindowsFit, DocsStay, NEW r \in requests,
           NEW accepted \in BOOLEAN, NEW sent, Answer(r, accepted, sent),
           \/ sent = requests \ {r}
           \/ sent = (requests \ {r}) \union {[r EXCEPT !.from = None]},
           r.kind = "initialize" /\ accepted => Seed \in Range(docs)',
           r.kind = "append" /\ accepted => r.what.result \in Range(docs)'
    PROVE  RequestsFit' /\ WindowsFit'
<1>1. CASE r.from = None
  <2>1. window' = window /\ requests' = sent
    BY <1>1 DEF Answer
  <2>2. Sound([r EXCEPT !.from = None]) /\ [r EXCEPT !.from = None].from = None
    <3>1. r = [from |-> r.from, kind |-> r.kind, what |-> r.what] /\ Sound(r)
      BY DEF RequestsFit, Sound, Request
    <3> QED
      BY <3>1 DEF Sound, Request
  <2>3. /\ \A q \in sent : Sound(q) /\ (q.from # None => Fits(q))
        /\ \A p, q \in sent : p.from = q.from /\ p.from # None => p = q
    BY <2>2 DEF RequestsFit
  <2>4. RequestsFit'
    BY <2>1, <2>3 DEF RequestsFit, Sound, Fits
  <2> QED
    BY <2>1, <2>4 DEF WindowsFit, DocsStay
<1>2. CASE r.from # None
  <2> DEFINE w == r.from
             new == IF accepted THEN Accepted(w) ELSE Failed(w)
  <2>1. Sound(r) /\ Fits(r) /\ w \in Windows
    BY <1>2 DEF RequestsFit, Fits
  <2>2. Proceed(w, new, sent)
    BY <1>2 DEF Answer
  <2>3. Leftover(sent, w)
    BY <1>2, ServedLeftover
  <2>4. Fields \subseteq DOMAIN window[w]
        /\ (window[w].open => window[w].doc \in Range(docs)')
    BY <2>1 DEF WindowsFit, DocsStay
  <2>5. Fields \subseteq DOMAIN new
    BY <2>4 DEF Accepted, Failed
  <2>6. new.open => new.doc \in Range(docs)'
    <3>1. CASE ~ accepted
      BY <2>4, <3>1 DEF Failed, Fields
    <3>2. CASE accepted /\ r.kind = "initialize"
      BY <2>1, <2>4, <3>2 DEF Accepted, Fits, Fields
    <3>3. CASE accepted /\ r.kind = "append"
      BY <2>1, <2>4, <3>3 DEF Accepted, Fits, Fields
    <3>4. CASE accepted /\ r.kind \in {"checkpoint", "compacted"}
      BY <2>1, <2>4, <3>4 DEF Accepted, Fits, Fields
    <3> QED
      BY <2>1, <3>1, <3>2, <3>3, <3>4 DEF Sound
  <2> HIDE DEF new, w
  <2> QED
    BY <2>1, <2>2, <2>3, <2>5, <2>6, ProceedStep
<1> QED
  BY <1>1, <1>2

-----------------------------------------------------------------------------
(* The steps.                                                              *)

\* A window that asks for something waited for nothing.
LEMMA AskStep ==
    ASSUME JournalInv, NEW w \in Windows, ~ Committing(w), NEW r,
           UNCHANGED <<snapshot, log, docs>>,
           requests' = requests \union {r}, Sound(r), r.from = w,
           DOMAIN window' = Windows,
           \A v \in Windows \ {w} : window'[v] = window[v],
           Fields \subseteq DOMAIN window'[w],
           window'[w].open => window'[w].doc \in Range(docs),
           Fits(r)'
    PROVE  JournalInv'
<1> USE DEF JournalInv
<1>1. Chain' /\ WindowsFit'
  BY DEF Chain, WindowsFit, Current
<1>2. \A q \in requests : q.from # w
  <2>1. window[w].call.kind = "none"
    BY DEF Committing, NoCall
  <2>2. w # None
    BY JournalAssumption
  <2> QED
    BY <2>1, <2>2 DEF RequestsFit, Fits, Sound
<1>3. \A q \in requests : Sound(q)' /\ (q.from # None => Fits(q)')
  BY <1>2 DEF RequestsFit, Sound, Fits
<1>4. RequestsFit'
  BY <1>2, <1>3 DEF RequestsFit, Sound
<1> QED
  BY <1>1, <1>4

\* What a window does of its own.
LEMMA WindowStep ==
    ASSUME JournalInv, NEW w \in Windows,
           \/ Open(w) \/ OpenSeed(w) \/ Commit(w) \/ Undo(w) \/ Redo(w)
           \/ Checkpoint(w) \/ GiveUp(w) \/ Close(w)
    PROVE  JournalInv'
<1> USE DEF JournalInv, WindowsFit, Fields
<1>1. ASSUME UNCHANGED <<snapshot, log, docs>> PROVE Chain' /\ DocsStay
  BY <1>1 DEF Chain, Current, DocsStay
<1>2. CASE Open(w)
  <2>1. Current \in Range(docs)
    <3>1. docs # <<>> /\ Current = docs[Len(docs)]
      BY <1>2 DEF Open, Chain
    <3> QED
      BY <3>1, SeqFacts DEF Chain
  <2>2. window' = [window EXCEPT ![w] =
           [Closed EXCEPT !.open = TRUE, !.doc = Current, !.tail = log,
                          !.undo = Restored(log).undo,
                          !.redo = Restored(log).redo]]
        /\ ~ Committing(w) /\ UNCHANGED <<snapshot, log, requests, docs>>
    BY <1>2 DEF Open
  <2>3. WindowsFit'
    BY <2>1, <2>2 DEF Closed
  <2>4. \A r \in requests : r.from # None => window'[r.from] = window[r.from]
    <3>1. window[w].call.kind = "none"
      BY <2>2 DEF Committing, NoCall
    <3> QED
      BY <2>2, <3>1 DEF RequestsFit, Fits, Sound
  <2>5. \A r \in requests : Sound(r)' /\ (r.from # None => Fits(r)')
    BY <2>4 DEF RequestsFit, Sound, Fits
  <2>6. RequestsFit'
    BY <2>2, <2>5 DEF RequestsFit
  <2> QED
    BY <1>1, <2>2, <2>3, <2>6
<1>3. CASE OpenSeed(w)
  <2> DEFINE begun == [NoCall EXCEPT !.kind = "initialize", !.what = Seed]
             r == Request(w, "initialize", Seed)
  <2>3. begun.kind = "initialize" /\ begun.what = Seed
    BY DEF NoCall
  <2>1. /\ ~ Committing(w) /\ ~ window[w].open
        /\ requests' = requests \union {r}
        /\ window' = [window EXCEPT ![w].call = begun]
        /\ UNCHANGED <<snapshot, log, docs>>
    BY <1>3 DEF OpenSeed
  <2> HIDE DEF begun
  <2>2. r.from = w /\ Sound(r) /\ Fits(r)'
    BY <2>1, <2>3 DEF Request, Sound, Fits
  <2> HIDE DEF r
  <2> QED
    BY <2>1, <2>2, AskStep
<1>4. ASSUME NEW kind \in {"commit", "undo", "redo"}, NEW action, NEW undoOf,
             NEW entry, Send(w, kind, action, undoOf, entry)
      PROVE  JournalInv'
  <2>6. PICK op : op = Operation(window[w].doc, nextId, action, undoOf)
    OBVIOUS
  <2>7. PICK r : r = [from |-> w, kind |-> "append", what |-> op]
    OBVIOUS
  <2>1. /\ ~ Committing(w) /\ window[w].open
        /\ requests' = requests \union {r}
        /\ UNCHANGED <<snapshot, log, docs>>
    BY <1>4, <2>6, <2>7 DEF Send, Request
  <2>2. /\ DOMAIN window' = Windows
        /\ \A v \in Windows \ {w} : window'[v] = window[v]
        /\ Fields \subseteq DOMAIN window'[w]
        /\ window'[w].open = window[w].open /\ window'[w].doc = window[w].doc
        /\ window'[w].call = [kind |-> kind, what |-> op, entry |-> entry]
    BY <1>4, <2>6 DEF Send
  <2>3. op.result.revision = op.before.revision + 1
    BY <2>6 DEF Operation, After
  <2>5. r.from = w /\ Sound(r) /\ Fits(r)'
    BY <2>2, <2>3, <2>7 DEF Request, Sound, Fits
  <2> QED
    BY <2>1, <2>2, <2>5, AskStep
<1>5. CASE Commit(w) \/ Undo(w) \/ Redo(w)
  BY <1>4, <1>5 DEF Commit, Undo, Redo
<1>6. CASE Checkpoint(w) /\ ~ Committing(w)
  <2>3. PICK doc : doc = window[w].doc
    OBVIOUS
  <2> DEFINE begun == [NoCall EXCEPT !.kind = "checkpoint", !.what = doc]
             r == Request(w, "checkpoint", doc)
  <2>4. begun.kind = "checkpoint" /\ begun.what = doc
    BY DEF NoCall
  <2>1. /\ requests' = requests \union {r}
        /\ window' = [window EXCEPT ![w].call = begun]
        /\ UNCHANGED <<snapshot, log, docs>>
    BY <1>6, <2>3 DEF Checkpoint
  <2> HIDE DEF begun
  <2>2. r.from = w /\ Sound(r) /\ Fits(r)'
    BY <2>1, <2>4 DEF Request, Sound, Fits
  <2> HIDE DEF r
  <2> QED
    BY <1>6, <2>1, <2>2, AskStep
<1>7. CASE Checkpoint(w) /\ Committing(w)
  <2>1. /\ window' = [window EXCEPT ![w].queued = @ + 1]
        /\ UNCHANGED <<snapshot, log, requests, docs>>
    BY <1>7 DEF Checkpoint
  <2>2. WindowsFit' /\ \A v \in Windows : window'[v].call = window[v].call
    BY <2>1
  <2>3. RequestsFit'
    BY <2>1, <2>2 DEF RequestsFit, Sound, Fits
  <2> QED
    BY <1>1, <2>1, <2>2, <2>3
<1>8. CASE GiveUp(w)
  <2> DEFINE new == Failed(w)
  <2>1. Proceed(w, new, Orphaned(w)) /\ UNCHANGED <<snapshot, log, docs>>
    BY <1>8 DEF GiveUp
  <2>2. /\ Fields \subseteq DOMAIN new
        /\ new.open => new.doc \in Range(docs)'
    BY <2>1 DEF Failed
  <2> HIDE DEF new
  <2> QED
    BY <1>1, <2>1, <2>2, OrphanedLeftover, ProceedStep
<1>9. CASE Close(w)
  <2>1. /\ window' = [window EXCEPT ![w] = Closed]
        /\ requests' = Orphaned(w)
        /\ UNCHANGED <<snapshot, log, docs>>
    BY <1>9 DEF Close
  <2>2. WindowsFit'
    BY <2>1 DEF Closed
  <2>3. RequestsFit'
    BY <2>1, OrphanedLeftover DEF RequestsFit, Leftover, Sound, Fits
  <2> QED
    BY <1>1, <2>1, <2>2, <2>3
<1> QED
  BY <1>2, <1>3, <1>5, <1>6, <1>7, <1>8, <1>9

\* A document of the chain is one: its row is not absent.
LEMMA NotAbsent == \A d : d.revision \in Nat => d # Absent
  BY DEF Absent, Seed

\* One more document of the chain.
LEMMA DocsGrow ==
    ASSUME Chain, NEW d, docs' = Append(docs, d), d.revision = Len(docs)
    PROVE  /\ IsSeq(docs') /\ docs' # <<>> /\ docs'[Len(docs')] = d
           /\ \A i \in 1..Len(docs') : docs'[i].revision = i - 1
           /\ d \in Range(docs)' /\ DocsStay
<1>1. /\ IsSeq(docs') /\ docs' # <<>> /\ Len(docs') = Len(docs) + 1
      /\ \A i \in 1..Len(docs) : docs'[i] = docs[i]
      /\ docs'[Len(docs) + 1] = d
      /\ \A x : x \in Range(docs') <=> x \in Range(docs) \/ x = d
  BY AppendFacts DEF Chain
<1>2. Len(docs) \in Nat
  BY SeqFacts DEF Chain
<1>3. \A i \in 1..Len(docs') : i \in 1..Len(docs) \/ i = Len(docs) + 1
  BY <1>1, <1>2
<1>4. \A i \in 1..Len(docs') : docs'[i].revision = i - 1
  BY <1>1, <1>2, <1>3 DEF Chain
<1> QED
  BY <1>1, <1>4 DEF DocsStay

\* The first window to do so stores its seed.
LEMMA InitializeStep ==
    ASSUME JournalInv, NEW r \in requests, ServeInitialize(r)
    PROVE  JournalInv'
<1> USE DEF JournalInv
<1>1. r.what = Seed /\ r.kind = "initialize" /\ log' = log
  BY DEF ServeInitialize, RequestsFit, Sound
<1>2. CASE /\ snapshot = Absent
           /\ snapshot' = r.what /\ docs' = <<r.what>>
           /\ Answer(r, TRUE, requests \ {r})
  <2>1. docs = <<>> /\ log = <<>>
    BY <1>2 DEF Chain
  <2>2. docs' = Append(docs, Seed) /\ Seed.revision = Len(docs)
    BY <1>1, <1>2, <2>1 DEF Seed
  <2>3. /\ IsSeq(docs') /\ docs' # <<>> /\ docs'[Len(docs')] = Seed
        /\ \A i \in 1..Len(docs') : docs'[i].revision = i - 1
        /\ Seed \in Range(docs)' /\ DocsStay
    BY <2>2, DocsGrow
  <2>4. snapshot' = Seed /\ Seed # Absent
    BY <1>1, <1>2 DEF Absent, Seed
  <2>5. Current' = Seed
    BY <1>1, <2>1, <2>4 DEF Current, DocumentAfter
  <2>6. Chain'
    BY <1>1, <2>1, <2>3, <2>4, <2>5 DEF Chain
  <2> QED
    BY <1>1, <1>2, <2>3, <2>6, AnswerStep
<1>3. CASE /\ snapshot # Absent
           /\ Answer(r, log = <<>> /\ snapshot = r.what, requests \ {r})
           /\ UNCHANGED <<snapshot, docs>>
  <2>1. Chain' /\ DocsStay
    BY <1>1, <1>3 DEF Chain, Current, DocsStay
  <2>2. log = <<>> /\ snapshot = r.what => Seed \in Range(docs)'
    <3>1. docs # <<>> /\ (log = <<>> => Current = snapshot)
      BY <1>3 DEF Chain, Current, DocumentAfter
    <3>2. docs # <<>> => docs[Len(docs)] \in Range(docs)
      BY SeqFacts DEF Chain
    <3> QED
      BY <1>1, <1>3, <3>1, <3>2 DEF Chain
  <2>3. PICK accepted \in BOOLEAN :
           accepted = (log = <<>> /\ snapshot = r.what)
    OBVIOUS
  <2> QED
    BY <1>1, <1>3, <2>1, <2>2, <2>3, AnswerStep
<1> QED
  BY <1>2, <1>3 DEF ServeInitialize

\* An operation that was made on the last document becomes the next link.
LEMMA LinkStep ==
    ASSUME Chain, NEW op, CanAppend(op), snapshot' = snapshot,
           log' = Append(log, op), docs' = Append(docs, op.result),
           op.result.revision = op.before.revision + 1
    PROVE  Chain' /\ DocsStay /\ op.result \in Range(docs)'
<1>1. /\ op.before = Current /\ docs # <<>> /\ Current = docs[Len(docs)]
  BY DEF CanAppend, Applies, Chain
<1>2. Len(docs) \in 1..Len(docs) /\ Len(docs) \in Nat /\ Len(log) \in Nat
  BY <1>1, SeqFacts DEF Chain
<1>3. op.result.revision = Len(docs)
  BY <1>1, <1>2 DEF Chain
<1>4. /\ IsSeq(docs') /\ docs' # <<>> /\ docs'[Len(docs')] = op.result
      /\ \A i \in 1..Len(docs') : docs'[i].revision = i - 1
      /\ op.result \in Range(docs)' /\ DocsStay
  BY <1>3, DocsGrow
<1>5. /\ IsSeq(log') /\ Len(log') = Len(log) + 1
      /\ \A i \in 1..Len(log) : log'[i] = log[i]
      /\ log'[Len(log) + 1] = op
  BY AppendFacts DEF Chain
<1>6. Current = IF Len(log) = 0 THEN snapshot ELSE log[Len(log)].result
  BY CurrentFacts DEF Chain
<1>7. Current' = op.result
  <2>1. Current' = IF Len(log') = 0 THEN snapshot' ELSE log'[Len(log')].result
    BY <1>5, SeqFacts DEF Current, DocumentAfter, Last
  <2> QED
    BY <1>2, <1>5, <2>1
<1>8. ASSUME NEW i \in 1..Len(log')
      PROVE  /\ log'[i].before = IF i = 1 THEN snapshot'
                                 ELSE log'[i - 1].result
             /\ log'[i].result \in Range(docs)'
  <2>1. CASE i = Len(log) + 1
    <3>1. log'[i] = op /\ (i = 1 <=> Len(log) = 0) /\ i - 1 = Len(log)
      BY <1>2, <1>5, <2>1
    <3>2. i # 1 => log'[i - 1] = log[i - 1]
      BY <1>2, <1>5, <2>1
    <3> QED
      BY <1>1, <1>4, <1>6, <3>1, <3>2
  <2>2. CASE i # Len(log) + 1
    <3>1. i \in 1..Len(log) /\ (i # 1 => i - 1 \in 1..Len(log))
      BY <1>2, <1>5, <2>2
    <3>2. log'[i] = log[i] /\ (i # 1 => log'[i - 1] = log[i - 1])
      BY <1>5, <3>1
    <3> QED
      BY <1>4, <3>1, <3>2 DEF Chain, DocsStay
  <2> QED
    BY <2>1, <2>2
<1>9. snapshot' # Absent
  BY <1>1 DEF Chain
<1> QED
  BY <1>4, <1>5, <1>7, <1>8, <1>9 DEF Chain

\* An append, or the same one again.
LEMMA AppendStep ==
    ASSUME JournalInv, NEW r \in requests, ServeAppend(r)
    PROVE  JournalInv'
<1> USE DEF JournalInv
<1>1. /\ r.kind = "append" /\ snapshot' = snapshot
      /\ r.what.result.revision = r.what.before.revision + 1
  BY DEF ServeAppend, RequestsFit, Sound
<1>2. PICK sent : /\ AppendOnce(r, sent)
                  /\ \/ sent = requests \ {r}
                     \/ sent = (requests \ {r})
                                  \union {[r EXCEPT !.from = None]}
  BY DEF ServeAppend
<1>3. CASE Answer(r, r.what \in Range(log), sent) /\ UNCHANGED <<log, docs>>
  <2>1. Chain' /\ DocsStay
    BY <1>1, <1>3 DEF Chain, Current, DocsStay
  <2>2. r.what \in Range(log) => r.what.result \in Range(docs)'
    BY <1>3, SeqFacts DEF Chain
  <2>3. PICK accepted \in BOOLEAN : accepted = (r.what \in Range(log))
    <3>1. (r.what \in Range(log)) \in BOOLEAN
      OBVIOUS
    <3> QED
      BY <3>1
  <2> QED
    BY <1>1, <1>2, <1>3, <2>1, <2>2, <2>3, AnswerStep
<1>4. CASE /\ CanAppend(r.what)
           /\ log' = Append(log, r.what)
           /\ docs' = Append(docs, r.what.result)
           /\ Answer(r, TRUE, sent)
  <2>1. Chain' /\ DocsStay /\ r.what.result \in Range(docs)'
    BY <1>1, <1>4, LinkStep
  <2> QED
    BY <1>1, <1>2, <1>4, <2>1, AnswerStep
<1>5. CASE Answer(r, FALSE, sent) /\ UNCHANGED <<log, docs>>
  <2>1. Chain' /\ DocsStay
    BY <1>1, <1>5 DEF Chain, Current, DocsStay
  <2> QED
    BY <1>1, <1>2, <1>5, <2>1, AnswerStep
<1> QED
  BY <1>2, <1>3, <1>4, <1>5 DEF AppendOnce

\* A checkpoint replaces the links by the document they lead to.
LEMMA CheckpointStep ==
    ASSUME JournalInv, NEW r \in requests,
           ServeCheckpoint(r) \/ ServeCompacted(r)
    PROVE  JournalInv'
<1> USE DEF JournalInv
<1>1. r.kind \in {"checkpoint", "compacted"} /\ docs' = docs /\ DocsStay
  BY DEF ServeCheckpoint, ServeCompacted, DocsStay
<1>2. CASE /\ CanCompact(r.what)
           /\ snapshot' = r.what /\ log' = <<>>
           /\ requests' = (requests \ {r})
                             \union {[r EXCEPT !.kind = "compacted"]}
           /\ UNCHANGED window
  <2> DEFINE q == [r EXCEPT !.kind = "compacted"]
  <2>1. docs # <<>> /\ Current = docs[Len(docs)] /\ snapshot' = Current
    BY <1>2 DEF CanCompact, Chain
  <2>2. snapshot' # Absent
    <3>1. Len(docs) \in 1..Len(docs) /\ Len(docs) \in Nat
      BY <2>1, SeqFacts DEF Chain
    <3>2. docs[Len(docs)].revision \in Nat
      BY <3>1 DEF Chain
    <3> QED
      BY <2>1, <3>2, NotAbsent
  <2>3. IsSeq(log') /\ Len(log') = 0
    BY <1>2, EmptySeq DEF IsSeq
  <2>4. Chain'
    <3>1. Current' = snapshot'
      BY <1>2 DEF Current, DocumentAfter
    <3>2. \A i \in 1..Len(log') : FALSE
      BY <2>3
    <3> QED
      BY <1>1, <2>1, <2>2, <2>3, <3>1, <3>2 DEF Chain
  <2>5. /\ q.from = r.from /\ Sound(q) /\ (q.from # None => Fits(q))
    <3>1. r = [from |-> r.from, kind |-> r.kind, what |-> r.what]
      BY DEF RequestsFit, Sound, Request
    <3>2. q = [from |-> r.from, kind |-> "compacted", what |-> r.what]
      BY <3>1
    <3>3. r.from # None => Fits(r)
      BY DEF RequestsFit
    <3> HIDE DEF q
    <3> QED
      BY <1>1, <3>2, <3>3 DEF Sound, Request, Fits
  <2> HIDE DEF q
  <2>6. /\ \A p \in requests' : Sound(p) /\ (p.from # None => Fits(p))
        /\ \A p, o \in requests' : p.from = o.from /\ p.from # None => p = o
    BY <1>2, <2>5 DEF RequestsFit, q
  <2>7. RequestsFit'
    BY <1>2, <2>6 DEF RequestsFit, Sound, Fits
  <2>8. WindowsFit'
    BY <1>1, <1>2 DEF WindowsFit
  <2> QED
    BY <2>4, <2>7, <2>8
<1>3. CASE /\ \E accepted \in BOOLEAN : Answer(r, accepted, requests \ {r})
           /\ UNCHANGED <<snapshot, log>>
  <2>1. Chain'
    BY <1>1, <1>3 DEF Chain, Current
  <2> QED
    BY <1>1, <1>3, <2>1, AnswerStep
<1>4. CASE ServeCheckpoint(r)
  BY <1>2, <1>3, <1>4 DEF ServeCheckpoint
<1>5. CASE ServeCompacted(r)
  <2>1. PICK accepted \in BOOLEAN :
           accepted = (log = <<>> /\ snapshot = r.what)
    OBVIOUS
  <2> QED
    BY <1>3, <1>5, <2>1 DEF ServeCompacted
<1> QED
  BY <1>4, <1>5

\* Every step preserves the invariant.
LEMMA JournalStep ==
    ASSUME JournalInv, [JournalNext]_journalVars
    PROVE  JournalInv'
<1>1. ASSUME NEW r \in requests, Lose(r) PROVE JournalInv'
  BY <1>1 DEF Lose, JournalInv, Chain, Current, RequestsFit, WindowsFit, Sound,
     Fits
<1>2. CASE UNCHANGED journalVars
  BY <1>2 DEF journalVars, JournalInv, Chain, Current, RequestsFit, WindowsFit,
     Sound, Fits
<1> QED
  BY <1>1, <1>2, WindowStep, InitializeStep, AppendStep, CheckpointStep
     DEF JournalNext

\* At first there is no journal, no request and no open window.
LEMMA JournalStart == JournalInit => JournalInv
<1> SUFFICES ASSUME JournalInit PROVE JournalInv
  OBVIOUS
<1>1. IsSeq(<<>>) /\ Len(<<>>) = 0
  BY EmptySeq DEF IsSeq
<1>2. Chain
  BY <1>1 DEF JournalInit, Chain
<1>3. RequestsFit /\ WindowsFit
  BY DEF JournalInit, RequestsFit, WindowsFit, Closed, Fields
<1> QED
  BY <1>2, <1>3 DEF JournalInv

\* The journal is one chain, however many windows edit, undo, redo and compact
\* it, and whatever becomes of their requests; and every window shows a
\* document of it.
THEOREM JournalIsOneChain == JournalSpec => []OneChain
<1>1. JournalInv /\ [JournalNext]_journalVars => JournalInv'
  BY JournalStep
<1> QED
  BY <1>1, JournalStart, InvGivesChain, PTL DEF JournalSpec

-----------------------------------------------------------------------------
(* Induction over the naturals, for sets of numbers.                       *)

\* A set of numbers that is not empty has a least one.
LEMMA LeastNat ==
    ASSUME NEW T, T \subseteq Nat, T # {}
    PROVE  \E m \in T : \A n \in T : m <= n
<1> DEFINE Less == OpToRel(<, Nat)
<1>1. IsWellFoundedOn(Less, Nat)
  BY NatLessThanWellFounded
<1>2. \A m, n \in Nat : n < m => <<n, m>> \in Less
  BY DEF OpToRel
<1> HIDE DEF Less
<1>3. PICK m \in T : \A n \in T : ~ (<<n, m>> \in Less)
  BY <1>1, WFMin
<1>4. \A n \in T : ~ (n < m)
  BY <1>2, <1>3, Zenon
<1> QED
  BY <1>4

\* What holds of 0 and of every next number holds of all.
LEMMA EveryNat ==
    ASSUME NEW T, 0 \in T, \A n \in Nat : n \in T => n + 1 \in T
    PROVE  \A n \in Nat : n \in T
<1> SUFFICES ASSUME NEW k \in Nat, k \notin T PROVE FALSE
  OBVIOUS
<1> DEFINE U == Nat \ T
<1>1. PICK m \in U : \A n \in U : m <= n
  BY LeastNat, U \subseteq Nat, U # {}
<1>2. m # 0 /\ m \in Nat
  OBVIOUS
<1>3. m - 1 \in Nat /\ m - 1 \in T
  BY <1>1, <1>2
<1> QED
  BY <1>3, <1>2

-----------------------------------------------------------------------------
(* What operations restore.                                                *)

\* The histories after each of the first operations.
Histories(f, ops, n) ==
    f = [i \in 0..n |-> IF i = 0 THEN NoHistory ELSE Restore(f[i - 1], ops[i])]

\* There are such histories.
LEMMA HistoriesExist ==
    ASSUME NEW ops
    PROVE  \A n \in Nat : \E f : Histories(f, ops, n)
<1> DEFINE T == {n \in Nat : \E f : Histories(f, ops, n)}
<1>1. 0 \in T
  <2>1. Histories([i \in 0..0 |-> NoHistory], ops, 0)
    BY DEF Histories
  <2> QED
    BY <2>1
<1>2. ASSUME NEW n \in Nat, n \in T PROVE n + 1 \in T
  <2>1. PICK f : Histories(f, ops, n)
    BY <1>2
  <2> DEFINE g == [i \in 0..(n + 1) |->
                     IF i = n + 1 THEN Restore(f[n], ops[n + 1]) ELSE f[i]]
  <2>2. \A i \in 0..(n + 1) :
          g[i] = IF i = 0 THEN NoHistory ELSE Restore(g[i - 1], ops[i])
    <3> TAKE i \in 0..(n + 1)
    <3>1. CASE i = n + 1
      BY <3>1
    <3>2. CASE i \in 0..n
      BY <3>2, <2>1 DEF Histories
    <3> QED
      BY <3>1, <3>2
  <2>3. Histories(g, ops, n + 1)
    BY <2>2 DEF Histories
  <2> QED
    BY <2>3
<1>3. \A n \in Nat : n \in T
  <2> HIDE DEF T
  <2> QED
    BY <1>1, <1>2, EveryNat
<1> QED
  BY <1>3

\* They are determined by the operations they are about.
LEMMA HistoriesAgree ==
    ASSUME NEW f, NEW g, NEW d, NEW e, NEW m \in Nat, NEW n \in Nat, m <= n,
           Histories(f, d, m), Histories(g, e, n),
           \A i \in 1..m : d[i] = e[i]
    PROVE  \A i \in 0..m : f[i] = g[i]
<1> DEFINE T == {i \in Nat : i <= m => f[i] = g[i]}
<1>1. 0 \in T
  BY DEF Histories
<1>2. ASSUME NEW i \in Nat, i \in T PROVE i + 1 \in T
  <2> SUFFICES ASSUME i + 1 <= m PROVE f[i + 1] = g[i + 1]
    OBVIOUS
  <2>1. f[i] = g[i] /\ d[i + 1] = e[i + 1]
    BY <1>2
  <2>2. f[i + 1] = Restore(f[i], d[i + 1])
    BY i + 1 \in 0..m, i + 1 # 0, i + 1 - 1 = i DEF Histories
  <2>3. g[i + 1] = Restore(g[i], e[i + 1])
    BY i + 1 \in 0..n, i + 1 # 0, i + 1 - 1 = i DEF Histories
  <2> QED
    BY <2>1, <2>2, <2>3
<1>3. \A i \in Nat : i \in T
  <2> HIDE DEF T
  <2> QED
    BY <1>1, <1>2, EveryNat
<1> QED
  BY <1>3

\* The last of them is what is restored.
LEMMA RestoredIsLast ==
    ASSUME NEW ops, IsSeq(ops)
    PROVE  \E f : Histories(f, ops, Len(ops)) /\ Restored(ops) = f[Len(ops)]
<1> DEFINE g == CHOOSE f : Histories(f, ops, Len(ops))
<1>1. Histories(g, ops, Len(ops))
  BY HistoriesExist, SeqFacts
<1>2. Restored(ops) = g[Len(ops)]
  BY DEF Restored, Histories
<1> QED
  BY <1>1, <1>2

\* Nothing restores nothing.
LEMMA RestoredOfNone == Restored(<<>>) = NoHistory
<1>1. IsSeq(<<>>) /\ Len(<<>>) = 0
  BY EmptySeq DEF IsSeq
<1> QED
  BY <1>1, RestoredIsLast DEF Histories

\* One more operation is one more step of the history.
LEMMA RestoredAppend ==
    ASSUME NEW ops, IsSeq(ops), NEW op
    PROVE  Restored(Append(ops, op)) = Restore(Restored(ops), op)
<1>1. SUFFICES ASSUME NEW n \in Nat, n = Len(ops),
                      NEW d, d = Append(ops, op)
               PROVE  Restored(d) = Restore(Restored(ops), op)
  BY SeqFacts
<1>2. /\ IsSeq(d) /\ Len(d) = n + 1 /\ d[n + 1] = op
      /\ \A i \in 1..n : ops[i] = d[i]
  BY <1>1, AppendFacts
<1>3. PICK f : Histories(f, ops, n) /\ Restored(ops) = f[n]
  BY <1>1, RestoredIsLast
<1>4. PICK g : Histories(g, d, n + 1) /\ Restored(d) = g[n + 1]
  BY <1>2, RestoredIsLast
<1>5. f[n] = g[n]
  BY <1>2, <1>3, <1>4, HistoriesAgree
<1>6. g[n + 1] = Restore(g[n], d[n + 1])
  BY <1>4, n + 1 \in 0..(n + 1), n + 1 # 0, n + 1 - 1 = n DEF Histories
<1> QED
  BY <1>1, <1>2, <1>3, <1>4, <1>5, <1>6

-----------------------------------------------------------------------------
(* Sequences again.                                                        *)

\* Sequences with the same elements.
LEMMA SameSeq ==
    ASSUME NEW s, NEW t, IsSeq(s), IsSeq(t), Len(s) = Len(t),
           \A i \in 1..Len(s) : s[i] = t[i]
    PROVE  s = t
<1>1. PICK S, T : s \in Seq(S) /\ t \in Seq(T)
  BY DEF IsSeq
<1>2. s \in Seq(S \union T) /\ t \in Seq(S \union T)
  BY <1>1, SeqMonotonic
<1> QED
  BY <1>2, SeqEqual

\* All but the last element.
LEMMA FrontFacts ==
    ASSUME NEW s, IsSeq(s), s # <<>>
    PROVE  /\ IsSeq(Front(s)) /\ Len(Front(s)) = Len(s) - 1
           /\ \A i \in 1..(Len(s) - 1) : Front(s)[i] = s[i]
           /\ Append(Front(s), Last(s)) = s
<1>1. PICK S : s \in Seq(S)
  BY DEF IsSeq
<1>2. PICK n \in Nat : n = Len(s) /\ n >= 1
  BY SeqFacts
<1>3. \A i \in 1..n : s[i] \in S
  BY <1>1, <1>2, ElementOfSeq
<1>4. PICK front : front = SubSeq(s, 1, n - 1)
  OBVIOUS
<1>5. /\ front \in Seq(S) /\ Len(front) = n - 1
      /\ \A i \in 1..(n - 1) : front[i] = s[i]
  <2>1. \A i \in 1..(n - 1) : s[i] \in S
    BY <1>3
  <2>2. /\ front \in Seq(S)
        /\ Len(front) = IF 1 <= n - 1 THEN (n - 1) - 1 + 1 ELSE 0
        /\ \A i \in 1..((n - 1) - 1 + 1) : front[i] = s[1 + i - 1]
    BY <1>2, <1>4, <2>1, SubSeqProperties
  <2> QED
    BY <1>2, <2>2
<1>6. Front(s) = front /\ Last(s) = s[n]
  BY <1>2, <1>4 DEF Front, Last
<1>7. Append(front, s[n]) = s
  <2>1. PICK t : t = Append(front, s[n])
    OBVIOUS
  <2>2. /\ IsSeq(t) /\ Len(t) = n /\ t[n] = s[n]
        /\ \A i \in 1..(n - 1) : t[i] = s[i]
    <3>1. IsSeq(front)
      BY <1>5 DEF IsSeq
    <3> QED
      BY <1>2, <1>5, <2>1, <3>1, AppendFacts
  <2>3. \A i \in 1..n : t[i] = s[i]
    BY <1>2, <2>2
  <2> QED
    BY <1>2, <2>1, <2>2, <2>3, SameSeq
<1> QED
  BY <1>2, <1>5, <1>6, <1>7 DEF IsSeq

\* What was put last, and what was there before.
LEMMA FrontOfAppend ==
    ASSUME NEW s, IsSeq(s), NEW e
    PROVE  Front(Append(s, e)) = s /\ Last(Append(s, e)) = e
<1>1. PICK t : t = Append(s, e)
  OBVIOUS
<1>2. /\ IsSeq(t) /\ t # <<>> /\ Len(t) = Len(s) + 1 /\ Len(s) \in Nat
      /\ \A i \in 1..Len(s) : t[i] = s[i]
      /\ t[Len(s) + 1] = e
  BY <1>1, AppendFacts, SeqFacts
<1>3. /\ IsSeq(Front(t)) /\ Len(Front(t)) = Len(s)
      /\ \A i \in 1..Len(s) : Front(t)[i] = s[i]
  <2>1. Len(t) - 1 = Len(s)
    BY <1>2
  <2> QED
    BY <1>2, <2>1, FrontFacts
<1>4. Front(t) = s
  BY <1>3, SameSeq
<1> QED
  BY <1>1, <1>2, <1>4 DEF Last

-----------------------------------------------------------------------------
(* What is undone and what can be undone.                                  *)

\* A document that has been made before the operation with a number.
DocIn(doc, n) ==
    /\ doc = [revision |-> doc.revision, cursor |-> doc.cursor,
              content |-> doc.content]
    /\ doc.revision \in Nat
    /\ doc.cursor \in 0..(n - 1)
    /\ doc.content \in Seq(1..MaxOps)

\* So has an operation.  It is newer than its document, and undoes, if
\* anything, what made that document.
Made(op, n) ==
    /\ op = Operation(op.before, op.id, op.action, op.undoOf)
    /\ DocIn(op.before, n)
    /\ op.id \in 1..(n - 1)
    /\ op.before.cursor < op.id
    /\ op.undoOf \in {0, op.before.cursor}
    /\ op.action = [type |-> op.action.type, edit |-> op.action.edit]
    /\ op.action.type \in {"put", "drop"}
    /\ op.action.edit \in 1..MaxOps
    /\ op.undoOf = 0 => op.action.type = "put"

\* Operations have numbers of their own, and what undoes one is its inverse.
Kin(ops, n) ==
    /\ \A op \in ops : Made(op, n)
    /\ \A p, q \in ops : p.id = q.id => p = q
    /\ \A p, q \in ops : q.undoOf = p.id => q.action.type # p.action.type

\* Operations among others whose edits are the last of a document.
LastEdits(ops, content, T) ==
    /\ IsSeq(ops)
    /\ Len(ops) <= Len(content)
    /\ \A i \in 1..Len(ops) :
          /\ ops[i] \in Range(T)
          /\ ops[i].action.edit = content[Len(content) - Len(ops) + i]

\* What can be undone are the last edits of the document; no more than one
\* operation can be redone, and it is the one whose undoing made the document.
HistoryOf(h, T, doc) ==
    /\ h = [undo |-> h.undo, redo |-> h.redo]
    /\ LastEdits(h.undo, doc.content, T)
    /\ \/ h.undo = <<>> /\ h.redo = <<>>
       \/ /\ h.undo # <<>> /\ h.redo = <<>>
          /\ h.undo[Len(h.undo)].id = doc.cursor
          /\ h.undo[Len(h.undo)].action.type = "put"
          /\ \A i \in 1..Len(h.undo) : h.undo[i].id <= doc.cursor
       \/ /\ \E e : /\ h.redo = <<e>> /\ e.undone \in Range(T)
                    /\ Invertible(doc, e.undone)
                    /\ e.undone.action.type = "drop"
          /\ \A i \in 1..Len(h.undo) : h.undo[i].id < doc.cursor

Appends == {"commit", "undo", "redo"}

\* What holds of a page whatever it waits for.
Basic(v, n) ==
    /\ DOMAIN v = Fields
    /\ v.open \in BOOLEAN
    /\ IsSeq(v.tail)
    /\ DocIn(v.doc, n)
    /\ v.queued \in 0..MaxQueued
    /\ ~ v.open => v.queued = 0 /\ v.tail = <<>> /\ v.doc = Seed
    /\ HistoryOf(Restored(v.tail), v.tail, v.doc)

\* A page between two calls shows what it would restore.
Settled(v, n) ==
    /\ Basic(v, n)
    /\ v.undo = Restored(v.tail).undo
    /\ v.redo = Restored(v.tail).redo \/ v.redo = <<>>

\* An entry moves from one stack to the other when an operation is sent.
Moves(kind, op, entry, h, undo, redo) ==
    \/ /\ kind = "commit" /\ op.undoOf = 0
       /\ undo = Append(h.undo, op) /\ redo = <<>>
    \/ /\ kind = "undo" /\ h.undo # <<>> /\ h.redo = <<>>
       /\ entry = Last(h.undo) /\ op.undoOf = entry.id
       /\ undo = Front(h.undo)
       /\ redo = <<[original |-> entry, undone |-> op]>>
    \/ /\ kind = "redo" /\ h.redo = <<entry>>
       /\ op.undoOf = entry.undone.id
       /\ undo = Append(h.undo, op) /\ redo = <<>>

\* So it has on a page that waits for the answer to an append.
Ahead(v) ==
    /\ v.call.what.before = v.doc
    /\ Moves(v.call.kind, v.call.what, v.call.entry, Restored(v.tail),
             v.undo, v.redo)

\* A page, whatever it waits for.
PageOf(v, n) ==
    \/ v.call = NoCall /\ v.queued = 0 /\ Settled(v, n)
    \/ v.call.kind = "initialize" /\ ~ v.open /\ Settled(v, n)
    \/ v.call.kind = "checkpoint" /\ v.open /\ Settled(v, n)
    \/ v.call.kind \in Appends /\ v.open /\ Basic(v, n) /\ Ahead(v)

\* The operations that a page knows of, and that requests are about.
KnownTo(v) ==
    Range(v.tail) \union (IF v.call.kind \in Appends THEN {v.call.what} ELSE {})

Asked(sent) == {r.what : r \in {q \in sent : q.kind = "append"}}

Known(ops) ==
    /\ Range(log) \subseteq ops
    /\ Asked(requests) \subseteq ops
    /\ \A w \in Windows : KnownTo(window[w]) \subseteq ops

LogFits ==
    /\ Len(log) <= MaxLog
    /\ snapshot # Absent =>
          DocIn(snapshot, nextId) /\ HistoryOf(Restored(log), log, Current)

HistoryWith(ops) ==
    /\ JournalInv
    /\ nextId \in 1..(MaxOps + 1)
    /\ Kin(ops, nextId) /\ Known(ops)
    /\ LogFits
    /\ \A w \in Windows : PageOf(window[w], nextId)

HistoryInv == \E ops : HistoryWith(ops)

-----------------------------------------------------------------------------
(* One more operation.                                                     *)

\* The history that an operation leaves, case by case: an edit, the undoing of
\* the last edit, that of an undoing, or that of something unknown.
LEMMA RestoreCases ==
    ASSUME NEW h, NEW op
    PROVE  /\ /\ op.undoOf = 0
              /\ h.undo # <<>> => Last(h.undo).id # 0
              /\ h.redo # <<>> => Last(h.redo).undone.id # 0
              => Restore(h, op) = [undo |-> Append(h.undo, op), redo |-> <<>>]
           /\ /\ op.undoOf # 0 /\ h.redo = <<>>
              /\ h.undo # <<>> /\ Last(h.undo).id = op.undoOf
              => Restore(h, op)
                    = [undo |-> Front(h.undo),
                       redo |-> Append(<<>>, [original |-> Last(h.undo),
                                              undone |-> op])]
           /\ /\ op.undoOf # 0
              /\ h.redo # <<>> /\ Last(h.redo).undone.id = op.undoOf
              /\ h.undo # <<>> => Last(h.undo).id # op.undoOf
              => Restore(h, op) = [undo |-> Append(h.undo, op),
                                   redo |-> Front(h.redo)]
           /\ op.undoOf # 0 /\ h.undo = <<>> /\ h.redo = <<>>
              => Restore(h, op) = h
  BY DEF Restore, AfterEdit

\* A stack of one.
LEMMA OneEntry ==
    ASSUME NEW e
    PROVE  /\ Append(<<>>, e) = <<e>> /\ <<e>> # <<>>
           /\ Last(<<e>>) = e /\ Front(<<e>>) = <<>>
<1>1. IsSeq(<<>>) /\ Len(<<>>) = 0
  BY EmptySeq DEF IsSeq
<1>2. Append(<<>>, e) = <<e>>
  OBVIOUS
<1> QED
  BY <1>1, <1>2, AppendFacts, FrontOfAppend

\* The document that an operation makes.
LEMMA MadeFacts ==
    ASSUME NEW op, NEW n \in Nat, Made(op, n)
    PROVE  /\ op.result.cursor = op.id /\ op.id \in Nat /\ op.id # 0
           /\ op.before.cursor \in Nat /\ op.before.cursor < op.id
           /\ op.undoOf \in {0, op.before.cursor}
           /\ op.action.type = "put" =>
                 op.result.content = Append(op.before.content, op.action.edit)
           /\ op.action.type = "drop" =>
                 op.result.content = Front(op.before.content)
           /\ op.action.type \in {"put", "drop"}
           /\ op.undoOf = 0 => op.action.type = "put"
           /\ op.before.content \in Seq(1..MaxOps)
           /\ op.action.edit \in 1..MaxOps
           /\ DocIn(op.result, n)
<1>1. /\ op.id \in 1..(n - 1) /\ op.action.type \in {"put", "drop"}
      /\ op.action.edit \in 1..MaxOps
      /\ op.before.cursor \in 0..(n - 1) /\ op.before.cursor < op.id
      /\ op.before.content \in Seq(1..MaxOps) /\ op.before.revision \in Nat
      /\ op.undoOf \in {0, op.before.cursor}
      /\ op.undoOf = 0 => op.action.type = "put"
  BY DEF Made, DocIn
<1>2. op.result = After(op.before, op.id, op.action)
  BY DEF Made, Operation
<1>3. PICK r, content : r = op.result
        /\ content = IF op.action.type = "put"
                     THEN Append(op.before.content, op.action.edit)
                     ELSE Front(op.before.content)
  OBVIOUS
<1>4. r = [revision |-> op.before.revision + 1, cursor |-> op.id,
           content |-> content]
  BY <1>2, <1>3 DEF After
<1>5. content \in Seq(1..MaxOps)
  <2>1. CASE op.action.type = "put"
    BY <1>1, <1>3, <2>1, AppendProperties
  <2>2. CASE op.action.type # "put"
    <3>1. PICK s : s = op.before.content
      OBVIOUS
    <3>4. PICK k \in Nat : k = Len(s)
      BY <1>1, <3>1, LenProperties
    <3>5. \A i \in 1..k : s[i] \in 1..MaxOps
      BY <1>1, <3>1, <3>4, ElementOfSeq
    <3>2. \A i \in 1..(k - 1) : s[i] \in 1..MaxOps
      BY <3>4, <3>5
    <3>3. SubSeq(s, 1, k - 1) \in Seq(1..MaxOps)
      BY <3>2, SubSeqProperties
    <3> QED
      BY <1>3, <2>2, <3>1, <3>3, <3>4 DEF Front
  <2> QED
    BY <2>1, <2>2
<1>6. DocIn(r, n)
  BY <1>1, <1>4, <1>5 DEF DocIn
<1> QED
  BY <1>1, <1>3, <1>4, <1>6

\* One edit more on the document, and one operation more to undo.
LEMMA OneMore ==
    ASSUME NEW undo, NEW content, NEW op, NEW T, IsSeq(T), IsSeq(content),
           LastEdits(undo, content, T)
    PROVE  LastEdits(Append(undo, op), Append(content, op.action.edit),
                     Append(T, op))
<1> USE DEF LastEdits
<1>10. PICK more : more = Append(undo, op)
  OBVIOUS
<1>11. PICK grown : grown = Append(content, op.action.edit)
  OBVIOUS
<1>1. PICK n \in Nat, m \in Nat : n = Len(undo) /\ m = Len(content)
  BY SeqFacts
<1>2. /\ IsSeq(more) /\ Len(more) = n + 1 /\ more[n + 1] = op
      /\ \A i \in 1..n : more[i] = undo[i]
  BY <1>1, <1>10, AppendFacts
<1>3. PICK e : e = op.action.edit
  OBVIOUS
<1>4. /\ Len(grown) = m + 1 /\ grown[m + 1] = e
      /\ \A i \in 1..m : grown[i] = content[i]
  BY <1>1, <1>3, <1>11, AppendFacts
<1>5. PICK known : known = Range(Append(T, op))
  OBVIOUS
<1>7. \A x : x \in known <=> x \in Range(T) \/ x = op
  BY <1>5, AppendFacts
<1>6. ASSUME NEW i \in 1..(n + 1)
      PROVE  /\ more[i] \in known
             /\ more[i].action.edit = grown[(m + 1) - (n + 1) + i]
  <2>1. CASE i = n + 1
    <3>1. (m + 1) - (n + 1) + i = m + 1
      BY <2>1, <1>1
    <3> QED
      BY <2>1, <3>1, <1>2, <1>3, <1>4, <1>7
  <2>2. CASE i \in 1..n
    <3>1. /\ (m + 1) - (n + 1) + i = m - n + i /\ m - n + i \in 1..m
      BY <2>2, <1>1
    <3>2. undo[i] \in Range(T) /\ undo[i].action.edit = content[m - n + i]
      BY <2>2, <1>1
    <3> QED
      BY <2>2, <3>1, <3>2, <1>2, <1>4, <1>7
  <2>3. i = n + 1 \/ i \in 1..n
    BY <1>1
  <2> QED
    BY <2>1, <2>2, <2>3
<1>8. PICK others : others = Append(T, op)
  OBVIOUS
<1>9. LastEdits(more, grown, others)
  <2>1. \A i \in 1..Len(more) :
           /\ more[i] \in Range(others)
           /\ more[i].action.edit = grown[Len(grown) - Len(more) + i]
    BY <1>2, <1>4, <1>5, <1>6, <1>8, Zenon
  <2>2. Len(more) <= Len(grown)
    BY <1>1, <1>2, <1>4
  <2> QED
    BY <1>2, <2>1, <2>2
<1> QED
  BY <1>8, <1>9, <1>10, <1>11, Zenon

\* One edit less, and one operation less to undo.
LEMMA OneLess ==
    ASSUME NEW undo, NEW content, NEW T, undo # <<>>, IsSeq(content),
           LastEdits(undo, content, T)
    PROVE  LastEdits(Front(undo), Front(content), T)
<1> USE DEF LastEdits
<1>10. PICK fewer, shrunk : fewer = Front(undo) /\ shrunk = Front(content)
  OBVIOUS
<1>1. PICK n \in Nat, m \in Nat : /\ n = Len(undo) /\ m = Len(content)
                                  /\ n >= 1 /\ m >= n
  BY SeqFacts
<1>2. content # <<>>
  BY <1>1, SeqFacts
<1>3. /\ IsSeq(fewer) /\ Len(fewer) = n - 1
      /\ \A i \in 1..(n - 1) : fewer[i] = undo[i]
  BY <1>1, <1>10, FrontFacts
<1>4. /\ Len(shrunk) = m - 1
      /\ \A i \in 1..(m - 1) : shrunk[i] = content[i]
  BY <1>1, <1>2, <1>10, FrontFacts
<1>5. ASSUME NEW i \in 1..(n - 1)
      PROVE  /\ fewer[i] \in Range(T)
             /\ fewer[i].action.edit = shrunk[(m - 1) - (n - 1) + i]
  <2>1. /\ i \in 1..n /\ (m - 1) - (n - 1) + i = m - n + i
        /\ m - n + i \in 1..(m - 1)
    BY <1>1
  <2>2. undo[i] \in Range(T) /\ undo[i].action.edit = content[m - n + i]
    BY <1>1, <2>1
  <2> QED
    BY <1>3, <1>4, <2>1, <2>2
<1>6. LastEdits(fewer, shrunk, T)
  <2>1. \A i \in 1..Len(fewer) :
           /\ fewer[i] \in Range(T)
           /\ fewer[i].action.edit = shrunk[Len(shrunk) - Len(fewer) + i]
    BY <1>3, <1>4, <1>5, Zenon
  <2>2. Len(fewer) <= Len(shrunk)
    BY <1>1, <1>3, <1>4
  <2> QED
    BY <1>3, <2>1, <2>2
<1> QED
  BY <1>6, <1>10

\* The history that operations leave is one of their document, and remains so
\* with one more of them.
LEMMA RestoreKeepsHistory ==
    ASSUME NEW h, NEW T, NEW doc, NEW op, NEW ops, NEW n \in Nat, IsSeq(T),
           HistoryOf(h, T, doc), DocIn(doc, n), Kin(ops, n), op \in ops,
           Range(T) \subseteq ops, op.before = doc
    PROVE  HistoryOf(Restore(h, op), Append(T, op), op.result)
<1>1. PICK undo, redo, content :
         undo = h.undo /\ redo = h.redo /\ content = doc.content
  OBVIOUS
<1>2. /\ h = [undo |-> undo, redo |-> redo]
      /\ LastEdits(undo, content, T)
      /\ \/ undo = <<>> /\ redo = <<>>
         \/ /\ undo # <<>> /\ redo = <<>>
            /\ undo[Len(undo)].id = doc.cursor
            /\ undo[Len(undo)].action.type = "put"
            /\ \A i \in 1..Len(undo) : undo[i].id <= doc.cursor
         \/ /\ \E e : /\ redo = <<e>> /\ e.undone \in Range(T)
                      /\ Invertible(doc, e.undone)
                      /\ e.undone.action.type = "drop"
            /\ \A i \in 1..Len(undo) : undo[i].id < doc.cursor
  BY <1>1, Zenon DEF HistoryOf
<1>3. /\ op.result.cursor = op.id /\ op.id \in Nat /\ op.id # 0
      /\ doc.cursor \in Nat /\ doc.cursor < op.id
      /\ op.undoOf \in {0, doc.cursor}
      /\ op.action.type = "put" =>
            op.result.content = Append(content, op.action.edit)
      /\ op.action.type = "drop" => op.result.content = Front(content)
      /\ op.action.type \in {"put", "drop"}
      /\ op.undoOf = 0 => op.action.type = "put"
      /\ content \in Seq(1..MaxOps)
  BY <1>1, MadeFacts DEF Kin
<1>4. IsSeq(content)
  BY <1>3 DEF IsSeq
<1>5. \A p \in Range(T) : /\ p \in ops /\ p.id \in Nat /\ p.id # 0
                          /\ op.undoOf = p.id => op.action.type # p.action.type
  BY MadeFacts DEF Kin
<1>15. IsSeq(undo) /\ \A i \in 1..Len(undo) : undo[i] \in Range(T)
  BY <1>2 DEF LastEdits
<1>6. undo # <<>> => Last(undo) \in Range(T) /\ Last(undo) = undo[Len(undo)]
  BY <1>15, SeqFacts DEF Last
<1>14. \A i \in 1..Len(undo) : undo[i].id \in Nat
  BY <1>5, <1>15
<1>7. PICK more : more = Append(undo, op)
  OBVIOUS
<1>8. PICK grown : grown = op.result.content
  OBVIOUS
<1>9. ASSUME op.action.type = "put",
             Restore(h, op) = [undo |-> more, redo |-> <<>>],
             \A i \in 1..Len(undo) : undo[i].id <= doc.cursor
      PROVE  HistoryOf(Restore(h, op), Append(T, op), op.result)
  <2>1. grown = Append(content, op.action.edit)
    BY <1>3, <1>8, <1>9
  <2>2. LastEdits(more, grown, Append(T, op))
    BY <1>2, <1>4, <1>7, <2>1, OneMore, Zenon
  <2>6. /\ IsSeq(more) /\ more # <<>> /\ Len(more) = Len(undo) + 1
        /\ more[Len(more)] = op
        /\ \A i \in 1..Len(undo) : more[i] = undo[i]
    BY <1>7, <1>15, AppendFacts
  <2>3. \A i \in 1..Len(more) : more[i].id <= op.id
    <3>1. Len(undo) \in Nat
      BY <1>15, SeqFacts
    <3>2. \A i \in 1..Len(more) : i \in 1..Len(undo) \/ i = Len(more)
      BY <2>6, <3>1
    <3>3. ASSUME NEW i \in 1..Len(undo) PROVE more[i].id <= op.id
      <4>1. more[i] = undo[i] /\ undo[i].id \in Nat
            /\ undo[i].id <= doc.cursor
        BY <1>9, <1>14, <2>6
      <4> QED
        BY <1>3, <4>1
    <3> QED
      BY <1>3, <2>6, <3>2, <3>3
  <2>4. PICK g : g = [undo |-> more, redo |-> <<>>]
    OBVIOUS
  <2>5. /\ g = [undo |-> g.undo, redo |-> g.redo]
        /\ g.undo = more /\ g.redo = <<>>
    BY <2>4
  <2>7. HistoryOf(g, Append(T, op), op.result)
    BY <1>3, <1>8, <1>9, <2>2, <2>3, <2>5, <2>6 DEF HistoryOf
  <2> QED
    BY <1>9, <2>4, <2>7
<1>10. CASE op.undoOf = 0
  <2>1. Restore(h, op) = [undo |-> more, redo |-> <<>>]
    <3>1. h.redo # <<>> => Last(h.redo).undone.id # 0
      BY <1>1, <1>2, <1>5, OneEntry
    <3>2. h.undo # <<>> => Last(h.undo).id # 0
      BY <1>1, <1>5, <1>6
    <3> QED
      BY <1>1, <1>7, <1>10, <3>1, <3>2, RestoreCases
  <2>2. \A i \in 1..Len(undo) : undo[i].id <= doc.cursor
    <3>1. undo = <<>> => \A i \in 1..Len(undo) : FALSE
      BY <1>15, SeqFacts
    <3>2. \/ undo = <<>>
          \/ \A i \in 1..Len(undo) : undo[i].id <= doc.cursor
          \/ \A i \in 1..Len(undo) : undo[i].id < doc.cursor
      BY <1>2, Zenon
    <3> QED
      BY <1>3, <1>14, <3>1, <3>2
  <2> QED
    BY <1>3, <1>9, <1>10, <2>1, <2>2
<1>11. CASE /\ op.undoOf # 0 /\ undo # <<>> /\ redo = <<>>
            /\ undo[Len(undo)].id = doc.cursor
            /\ undo[Len(undo)].action.type = "put"
            /\ \A i \in 1..Len(undo) : undo[i].id <= doc.cursor
  <2>1. PICK fewer, entry : /\ fewer = Front(undo)
                            /\ entry = [original |-> Last(undo), undone |-> op]
    OBVIOUS
  <2>2. /\ Last(undo).id = op.undoOf /\ op.action.type = "drop"
    BY <1>3, <1>5, <1>6, <1>11
  <2>3. Restore(h, op) = [undo |-> fewer, redo |-> <<entry>>]
    <3>1. Restore(h, op) = [undo |-> fewer, redo |-> Append(<<>>, entry)]
      BY <1>1, <1>11, <2>1, <2>2, RestoreCases
    <3> QED
      BY <3>1, OneEntry
  <2>4. grown = Front(content)
    BY <1>3, <1>8, <2>2
  <2>5. LastEdits(fewer, grown, T)
    BY <1>2, <1>4, <1>11, <2>1, <2>4, OneLess, Zenon
  <2>13. /\ Len(fewer) = Len(undo) - 1
         /\ \A i \in 1..(Len(undo) - 1) : fewer[i] = undo[i]
    BY <1>11, <1>15, <2>1, FrontFacts
  <2>6. \A x : x \in Range(Append(T, op)) <=> x \in Range(T) \/ x = op
    BY AppendFacts
  <2>7. ASSUME NEW i \in 1..Len(fewer) PROVE fewer[i].id < op.id
    <3>1. fewer[i] = undo[i] /\ undo[i].id \in Nat
          /\ undo[i].id <= doc.cursor
      <4>1. Len(undo) \in Nat
        BY <1>15, SeqFacts
      <4>2. i \in 1..(Len(undo) - 1) /\ i \in 1..Len(undo)
        BY <2>13, <4>1
      <4> QED
        BY <1>11, <1>14, <2>13, <4>2
    <3> QED
      BY <1>3, <3>1
  <2>8. PICK g : g = [undo |-> fewer, redo |-> <<entry>>]
    OBVIOUS
  <2>9. /\ g = [undo |-> g.undo, redo |-> g.redo]
        /\ g.undo = fewer /\ g.redo = <<entry>>
    BY <2>8
  <2>10. /\ entry.undone = op /\ Invertible(op.result, op)
    BY <1>3, <2>1 DEF Invertible
  <2>11. \A i \in 1..Len(g.undo) : g.undo[i].id < op.result.cursor
    BY <1>3, <2>7, <2>9
  <2>12. HistoryOf(g, Append(T, op), op.result)
    <3>1. LastEdits(fewer, grown, Append(T, op))
      BY <2>5, <2>6 DEF LastEdits
    <3> QED
      BY <1>8, <2>2, <2>6, <2>9, <2>10, <2>11, <3>1 DEF HistoryOf
  <2> QED
    BY <2>3, <2>8, <2>12
<1>12. CASE /\ op.undoOf # 0
            /\ \E e : /\ redo = <<e>> /\ e.undone \in Range(T)
                      /\ Invertible(doc, e.undone)
                      /\ e.undone.action.type = "drop"
            /\ \A i \in 1..Len(undo) : undo[i].id < doc.cursor
  <2>1. PICK e : /\ redo = <<e>> /\ e.undone \in Range(T)
                 /\ e.undone.id = doc.cursor
                 /\ e.undone.action.type = "drop"
    BY <1>12 DEF Invertible
  <2>2. op.undoOf = e.undone.id /\ op.action.type = "put"
    BY <1>3, <1>5, <1>12, <2>1
  <2>3. undo # <<>> => Last(undo).id # op.undoOf
    <3>1. undo # <<>> => Len(undo) \in 1..Len(undo)
      BY <1>15, SeqFacts
    <3> QED
      BY <1>3, <1>5, <1>6, <1>12, <2>1, <2>2, <3>1
  <2>4. Restore(h, op) = [undo |-> more, redo |-> <<>>]
    <3>1. redo # <<>> /\ Last(redo) = e /\ Front(redo) = <<>>
      BY <2>1, OneEntry
    <3> QED
      BY <1>1, <1>7, <1>12, <2>2, <2>3, <3>1, RestoreCases
  <2>5. \A i \in 1..Len(undo) : undo[i].id <= doc.cursor
    BY <1>3, <1>12, <1>14
  <2> QED
    BY <1>9, <2>2, <2>4, <2>5
<1>13. CASE op.undoOf # 0 /\ undo = <<>> /\ redo = <<>>
  <2>1. Restore(h, op) = h
    BY <1>1, <1>13, RestoreCases
  <2>2. Len(undo) = 0 /\ IsSeq(undo)
    BY <1>13, <1>15, SeqFacts
  <2>3. Len(grown) \in Nat
    BY <1>8, MadeFacts, LenProperties DEF Kin, DocIn
  <2>5. LastEdits(undo, grown, Append(T, op))
    BY <2>2, <2>3 DEF LastEdits
  <2>4. HistoryOf(h, Append(T, op), op.result)
    BY <1>1, <1>2, <1>8, <1>13, <2>5 DEF HistoryOf
  <2> QED
    BY <2>1, <2>4
<1> QED
  BY <1>2, <1>10, <1>11, <1>12, <1>13

\* The same of what a page or the journal restores from all its operations.
LEMMA RestoredKeepsHistory ==
    ASSUME NEW T, NEW doc, NEW op, NEW ops, NEW n \in Nat, IsSeq(T),
           HistoryOf(Restored(T), T, doc), DocIn(doc, n), Kin(ops, n),
           op \in ops, Range(T) \subseteq ops, op.before = doc
    PROVE  HistoryOf(Restored(Append(T, op)), Append(T, op), op.result)
<1>1. Restored(Append(T, op)) = Restore(Restored(T), op)
  BY RestoredAppend
<1>2. HistoryOf(Restore(Restored(T), op), Append(T, op), op.result)
  BY RestoreKeepsHistory
<1> QED
  BY <1>1, <1>2

\* Without operations there is nothing to undo.
LEMMA NothingToUndo ==
    ASSUME NEW doc, IsSeq(doc.content)
    PROVE  HistoryOf(Restored(<<>>), <<>>, doc)
<1>1. IsSeq(<<>>) /\ Len(<<>>) = 0 /\ Len(doc.content) \in Nat
  BY EmptySeq, SeqFacts DEF IsSeq
<1>2. LastEdits(<<>>, doc.content, <<>>)
  BY <1>1 DEF LastEdits
<1>3. /\ NoHistory = [undo |-> NoHistory.undo, redo |-> NoHistory.redo]
      /\ NoHistory.undo = <<>> /\ NoHistory.redo = <<>>
  BY DEF NoHistory
<1>4. HistoryOf(NoHistory, <<>>, doc)
  BY <1>2, <1>3 DEF HistoryOf
<1> QED
  BY <1>4, RestoredOfNone

-----------------------------------------------------------------------------
(* What can be undone is the end of the document.                          *)

\* A function on the first numbers is a sequence.
LEMMA FunctionIsSeq ==
    ASSUME NEW n \in Nat, NEW f, f = [i \in 1..n |-> f[i]]
    PROVE  IsSeq(f) /\ Len(f) = n
<1>1. PICK S : S = {f[i] : i \in 1..n}
  OBVIOUS
<1>2. f \in [1..n -> S]
  BY <1>1
<1>3. f \in Seq(S)
  BY <1>2, IsASeq
<1>4. Len(f) \in Nat /\ 1..Len(f) = 1..n
  BY <1>2, <1>3, LenProperties
<1>5. Len(f) = n
  <2>1. n # 0 => n \in 1..Len(f)
    BY <1>4
  <2>2. Len(f) # 0 => Len(f) \in 1..n
    BY <1>4
  <2> QED
    BY <1>4, <2>1, <2>2
<1> QED
  BY <1>3, <1>5 DEF IsSeq

\* The first elements of a sequence.
LEMMA FirstFacts ==
    ASSUME NEW s, IsSeq(s), NEW n \in Nat, n <= Len(s)
    PROVE  /\ IsSeq(SubSeq(s, 1, n)) /\ Len(SubSeq(s, 1, n)) = n
           /\ \A i \in 1..n : SubSeq(s, 1, n)[i] = s[i]
<1>1. PICK S : s \in Seq(S)
  BY DEF IsSeq
<1>2. PICK m \in Nat : m = Len(s)
  BY SeqFacts
<1>3. \A i \in 1..m : s[i] \in S
  BY <1>1, <1>2, ElementOfSeq
<1>4. \A i \in 1..n : s[i] \in S
  BY <1>2, <1>3
<1>5. PICK first : first = SubSeq(s, 1, n)
  OBVIOUS
<1>6. /\ first \in Seq(S)
      /\ Len(first) = IF 1 <= n THEN n - 1 + 1 ELSE 0
      /\ \A i \in 1..(n - 1 + 1) : first[i] = s[1 + i - 1]
  BY <1>4, <1>5, SubSeqProperties
<1>7. IsSeq(first) /\ Len(first) = n /\ \A i \in 1..n : first[i] = s[i]
  BY <1>6 DEF IsSeq
<1> QED
  BY <1>5, <1>7

\* Operations whose edits are the last of a document, as the property says it.
LEMMA LastEditsAreSuffix ==
    ASSUME NEW ops, NEW content, NEW T, IsSeq(content),
           LastEdits(ops, content, T)
    PROVE  IsSuffix(Edits(ops), content)
<1>1. PICK n \in Nat, m \in Nat : n = Len(ops) /\ m = Len(content) /\ n <= m
  BY SeqFacts DEF LastEdits
<1>2. PICK e : e = Edits(ops)
  OBVIOUS
<1>3. e = [i \in 1..n |-> e[i]] /\ \A i \in 1..n : e[i] = ops[i].action.edit
  <2>1. DOMAIN ops = 1..n
    BY <1>1, SeqFacts DEF LastEdits
  <2> QED
    BY <1>2, <2>1 DEF Edits
<1>4. IsSeq(e) /\ Len(e) = n
  BY <1>3, FunctionIsSeq
<1>5. PICK back, all : back = Reverse(e) /\ all = Reverse(content)
  OBVIOUS
<1>6. /\ back = [i \in 1..n |-> back[i]]
      /\ \A i \in 1..n : back[i] = e[(n - i) + 1]
  BY <1>4, <1>5 DEF Reverse
<1>7. /\ all = [i \in 1..m |-> all[i]]
      /\ \A i \in 1..m : all[i] = content[(m - i) + 1]
  BY <1>1, <1>5 DEF Reverse
<1>8. IsSeq(back) /\ Len(back) = n /\ IsSeq(all) /\ Len(all) = m
  BY <1>6, <1>7, FunctionIsSeq
<1>9. ASSUME NEW i \in 1..n PROVE back[i] = all[i]
  <2>1. /\ (n - i) + 1 \in 1..n /\ i \in 1..m
        /\ m - n + ((n - i) + 1) = (m - i) + 1
    BY <1>1
  <2>2. ops[(n - i) + 1].action.edit = content[(m - i) + 1]
    BY <1>1, <2>1 DEF LastEdits
  <2> QED
    BY <1>3, <1>6, <1>7, <2>1, <2>2
<1>10. SubSeq(back, 1, n) = SubSeq(all, 1, n)
  <2>1. PICK s, t : s = SubSeq(back, 1, n) /\ t = SubSeq(all, 1, n)
    OBVIOUS
  <2>2. /\ IsSeq(s) /\ Len(s) = n /\ \A i \in 1..n : s[i] = back[i]
        /\ IsSeq(t) /\ Len(t) = n /\ \A i \in 1..n : t[i] = all[i]
    BY <1>1, <1>8, <2>1, FirstFacts
  <2>3. s = t
    BY <1>9, <2>2, SameSeq
  <2> QED
    BY <2>1, <2>3
<1> QED
  BY <1>1, <1>2, <1>5, <1>8, <1>10 DEF IsSuffix, IsPrefix

-----------------------------------------------------------------------------
(* Operations among each other.                                            *)

\* What was made before an operation was also made before the next.
LEMMA DocLater ==
    ASSUME NEW n \in Nat, NEW doc, DocIn(doc, n)
    PROVE  DocIn(doc, n + 1)
  BY DEF DocIn

\* So was an operation.
LEMMA MadeLater ==
    ASSUME NEW n \in Nat, NEW op, Made(op, n)
    PROVE  Made(op, n + 1)
<1>1. DocIn(op.before, n + 1)
  BY DocLater DEF Made
<1>2. op.id \in 1..((n + 1) - 1)
  BY DEF Made
<1> QED
  BY <1>1, <1>2 DEF Made

\* A new operation that inverts what it undoes.
LEMMA KinGrows ==
    ASSUME NEW n \in Nat, NEW ops, Kin(ops, n), NEW op, Made(op, n + 1),
           op.id = n,
           \A p \in ops : op.undoOf = p.id => op.action.type # p.action.type
    PROVE  Kin(ops \union {op}, n + 1)
<1>1. \A p \in ops : /\ Made(p, n + 1) /\ p.id \in Nat /\ p.id < n
                     /\ p.undoOf \in Nat /\ p.undoOf < n
  <2>1. ASSUME NEW p \in ops
        PROVE  /\ p.id \in Nat /\ p.id < n
               /\ p.undoOf \in Nat /\ p.undoOf < n
    <3>1. Made(p, n)
      BY DEF Kin
    <3>2. p.id \in 1..(n - 1) /\ p.before.cursor \in 0..(n - 1)
          /\ p.undoOf \in {0, p.before.cursor}
      BY <3>1 DEF Made, DocIn
    <3> QED
      BY <3>2
  <2> QED
    BY <2>1, MadeLater DEF Kin
<1>2. op.undoOf # op.id
  <2>1. /\ op.before.cursor \in Nat /\ op.before.cursor < op.id
        /\ op.id \in 1..n /\ op.undoOf \in {0, op.before.cursor}
    BY DEF Made, DocIn
  <2> QED
    BY <2>1
<1>3. \A p, q \in ops \union {op} : p.id = q.id => p = q
  BY <1>1 DEF Kin
<1>4. \A p, q \in ops \union {op} :
         q.undoOf = p.id => q.action.type # p.action.type
  BY <1>1, <1>2 DEF Kin
<1> QED
  BY <1>1, <1>3, <1>4 DEF Kin

-----------------------------------------------------------------------------
(* The pages.                                                              *)

\* The document that everything begins with.
LEMMA SeedFacts ==
    ASSUME NEW n \in Nat, n >= 1
    PROVE  DocIn(Seed, n) /\ IsSeq(Seed.content)
<1>1. Seed.content = <<>> /\ <<>> \in Seq(1..MaxOps)
  BY EmptySeq DEF Seed
<1> QED
  BY <1>1 DEF DocIn, Seed, IsSeq

\* A page that was never opened, or is closed.
LEMMA ClosedPage ==
    ASSUME NEW n \in Nat, n >= 1
    PROVE  PageOf(Closed, n) /\ KnownTo(Closed) = {}
<1>1. /\ DOMAIN Closed = Fields /\ Closed.open = FALSE /\ Closed.doc = Seed
      /\ Closed.tail = <<>> /\ Closed.undo = <<>> /\ Closed.redo = <<>>
      /\ Closed.call = NoCall /\ Closed.queued = 0
  BY DEF Closed, Fields
<1>2. IsSeq(<<>>) /\ Len(<<>>) = 0 /\ Range(<<>>) = {}
  <2>1. IsSeq(<<>>) /\ Len(<<>>) = 0
    BY EmptySeq DEF IsSeq
  <2>2. DOMAIN <<>> = 1..0
    BY <2>1, SeqFacts
  <2> QED
    BY <2>1, <2>2 DEF Range
<1>3. HistoryOf(Restored(<<>>), <<>>, Seed)
  BY SeedFacts, NothingToUndo
<1>4. Restored(<<>>).undo = <<>> /\ Restored(<<>>).redo = <<>>
  BY RestoredOfNone DEF NoHistory
<1>5. DocIn(Seed, n)
  BY SeedFacts
<1>6. 0 \in 0..MaxQueued
  BY JournalAssumption
<1>7. Settled(Closed, n)
  BY <1>1, <1>2, <1>3, <1>4, <1>5, <1>6 DEF Settled, Basic
<1>8. NoCall.kind \notin Appends
  BY DEF NoCall, Appends
<1> QED
  BY <1>1, <1>2, <1>7, <1>8 DEF PageOf, KnownTo

\* A page stays one when operations are made elsewhere.
LEMMA PageLater ==
    ASSUME NEW n \in Nat, NEW v, PageOf(v, n)
    PROVE  PageOf(v, n + 1)
<1>1. Basic(v, n) => Basic(v, n + 1)
  BY DocLater DEF Basic
<1> QED
  BY <1>1 DEF PageOf, Settled

\* What its stacks are plays no part in what holds of it anyway.
LEMMA BasicKept ==
    ASSUME NEW n, NEW v, NEW u, Basic(v, n), DOMAIN u = Fields,
           u.open = v.open, u.doc = v.doc, u.tail = v.tail,
           u.queued \in 0..MaxQueued, ~ v.open => u.queued = 0
    PROVE  Basic(u, n)
  BY DEF Basic

\* A page that waits for nothing.
LEMMA IdlePage ==
    ASSUME NEW n, NEW v, PageOf(v, n), v.call = NoCall
    PROVE  v.queued = 0 /\ Settled(v, n)
<1>1. v.call.kind = "none"
  BY DEF NoCall
<1> QED
  BY <1>1 DEF PageOf, Appends

\* A page that waits for something.
LEMMA BusyPage ==
    ASSUME NEW n, NEW v, PageOf(v, n), v.call # NoCall
    PROVE  \/ v.call.kind = "initialize" /\ ~ v.open /\ Settled(v, n)
           \/ v.call.kind = "checkpoint" /\ v.open /\ Settled(v, n)
           \/ v.call.kind \in Appends /\ v.open /\ Basic(v, n) /\ Ahead(v)
  BY DEF PageOf

\* The page after a call, or at the beginning of the next.
LEMMA NextCall ==
    ASSUME NEW n, NEW v, Settled(v, n), NEW u,
           u = IF v.queued = 0 THEN [v EXCEPT !.call = NoCall]
               ELSE [v EXCEPT !.queued = @ - 1,
                              !.call = [NoCall EXCEPT !.kind = "checkpoint",
                                                      !.what = v.doc]]
    PROVE  PageOf(u, n) /\ KnownTo(u) = Range(v.tail)
<1>1. DOMAIN v = {"open", "doc", "tail", "undo", "redo", "call", "queued"}
  BY DEF Settled, Basic, Fields
<1>2. PICK c : c = [NoCall EXCEPT !.kind = "checkpoint", !.what = v.doc]
  OBVIOUS
<1>3. c.kind = "checkpoint" /\ NoCall.kind = "none"
  BY <1>2 DEF NoCall
<1>4. CASE v.queued = 0
  <2>1. u = [v EXCEPT !.call = NoCall]
    BY <1>4
  <2>2. /\ DOMAIN u = Fields /\ u.open = v.open /\ u.doc = v.doc
        /\ u.tail = v.tail /\ u.undo = v.undo /\ u.redo = v.redo
        /\ u.call = NoCall /\ u.queued = v.queued
    BY <1>1, <2>1 DEF Fields
  <2>3. Settled(u, n)
    BY <2>2, BasicKept DEF Settled, Basic
  <2> QED
    BY <1>3, <1>4, <2>2, <2>3 DEF PageOf, KnownTo, Appends
<1>5. CASE v.queued # 0
  <2>1. u = [v EXCEPT !.queued = @ - 1, !.call = c]
    BY <1>2, <1>5
  <2>2. /\ DOMAIN u = Fields /\ u.open = v.open /\ u.doc = v.doc
        /\ u.tail = v.tail /\ u.undo = v.undo /\ u.redo = v.redo
        /\ u.call = c /\ u.queued = v.queued - 1
    BY <1>1, <2>1 DEF Fields
  <2>3. v.open /\ v.queued - 1 \in 0..MaxQueued
    BY <1>5, JournalAssumption DEF Settled, Basic
  <2>4. Settled(u, n)
    BY <2>2, <2>3, BasicKept DEF Settled, Basic
  <2> QED
    BY <1>3, <2>2, <2>3, <2>4 DEF PageOf, KnownTo, Appends
<1> QED
  BY <1>4, <1>5

\* A failed call leaves the page as it was before, but for what a commit has
\* made impossible to redo.
LEMMA FailedSettled ==
    ASSUME NEW n, NEW w, PageOf(window[w], n), window[w].call # NoCall
    PROVE  Settled(Failed(w), n) /\ Failed(w).tail = window[w].tail
<1>1. PICK v : v = window[w]
  OBVIOUS
<1>2. DOMAIN v = {"open", "doc", "tail", "undo", "redo", "call", "queued"}
  BY <1>1, BusyPage DEF Settled, Basic, Fields
<1>3. PICK u : u = Failed(w)
  OBVIOUS
<1>4. CASE v.call.kind \in {"initialize", "checkpoint"}
  <2>1. u = v
    BY <1>1, <1>3, <1>4 DEF Failed
  <2> QED
    BY <1>1, <1>3, <1>4, <2>1, BusyPage DEF Appends
<1>5. CASE v.call.kind \in Appends
  <2>1. Basic(v, n) /\ Ahead(v)
    BY <1>1, <1>5, BusyPage DEF Appends
  <2>2. PICK h : h = Restored(v.tail)
    OBVIOUS
  <2>3. IsSeq(h.undo)
    BY <2>1, <2>2 DEF Basic, HistoryOf, LastEdits
  <2>4. PICK c : c = v.call
    OBVIOUS
  <2>5. CASE c.kind = "commit"
    <3>1. v.undo = Append(h.undo, c.what) /\ v.redo = <<>>
      BY <2>1, <2>2, <2>4, <2>5 DEF Ahead, Moves
    <3>2. u = [v EXCEPT !.undo = Front(@)]
      BY <1>1, <1>3, <2>4, <2>5 DEF Failed
    <3>3. Front(v.undo) = h.undo
      BY <2>3, <3>1, FrontOfAppend
    <3>4. u.undo = h.undo /\ u.redo = <<>>
      BY <1>2, <3>1, <3>2, <3>3
    <3>5. /\ DOMAIN u = Fields /\ u.open = v.open /\ u.doc = v.doc
          /\ u.tail = v.tail /\ u.queued = v.queued
      BY <1>2, <3>2 DEF Fields
    <3> QED
      BY <1>1, <1>3, <2>1, <2>2, <3>4, <3>5, BasicKept DEF Settled, Basic
  <2>6. CASE c.kind = "undo"
    <3>1. /\ h.undo # <<>> /\ h.redo = <<>> /\ c.entry = Last(h.undo)
          /\ v.undo = Front(h.undo)
          /\ v.redo = <<[original |-> c.entry, undone |-> c.what]>>
      BY <2>1, <2>2, <2>4, <2>6 DEF Ahead, Moves
    <3>2. u = [v EXCEPT !.redo = Front(@), !.undo = Append(@, c.entry)]
      BY <1>1, <1>3, <2>4, <2>6 DEF Failed
    <3>3. Append(v.undo, c.entry) = h.undo /\ Front(v.redo) = <<>>
      BY <2>3, <3>1, FrontFacts, OneEntry
    <3>4. u.undo = h.undo /\ u.redo = <<>>
      BY <1>2, <3>2, <3>3
    <3>5. /\ DOMAIN u = Fields /\ u.open = v.open /\ u.doc = v.doc
          /\ u.tail = v.tail /\ u.queued = v.queued
      BY <1>2, <3>2 DEF Fields
    <3> QED
      BY <1>1, <1>3, <2>1, <2>2, <3>4, <3>5, BasicKept DEF Settled, Basic
  <2>7. CASE c.kind = "redo"
    <3>1. /\ h.redo = <<c.entry>> /\ v.undo = Append(h.undo, c.what)
          /\ v.redo = <<>>
      BY <2>1, <2>2, <2>4, <2>7 DEF Ahead, Moves
    <3>2. u = [v EXCEPT !.undo = Front(@), !.redo = Append(@, c.entry)]
      BY <1>1, <1>3, <2>4, <2>7 DEF Failed
    <3>3. Front(v.undo) = h.undo /\ Append(v.redo, c.entry) = h.redo
      BY <2>3, <3>1, FrontOfAppend, OneEntry
    <3>4. u.undo = h.undo /\ u.redo = h.redo
      BY <1>2, <3>2, <3>3
    <3>5. /\ DOMAIN u = Fields /\ u.open = v.open /\ u.doc = v.doc
          /\ u.tail = v.tail /\ u.queued = v.queued
      BY <1>2, <3>2 DEF Fields
    <3> QED
      BY <1>1, <1>3, <2>1, <2>2, <3>4, <3>5, BasicKept DEF Settled, Basic
  <2> QED
    BY <1>5, <2>4, <2>5, <2>6, <2>7 DEF Appends
<1> QED
  BY <1>1, <1>4, <1>5, BusyPage

\* An accepted one makes it the page that restores the longer journal.
LEMMA AcceptedSettled ==
    ASSUME NEW n \in Nat, n >= 1, NEW w, PageOf(window[w], n),
           window[w].call # NoCall, NEW ops, Kin(ops, n),
           KnownTo(window[w]) \subseteq ops
    PROVE  /\ Settled(Accepted(w), n)
           /\ Range(Accepted(w).tail) \subseteq KnownTo(window[w])
<1>1. PICK v : v = window[w]
  OBVIOUS
<1>2. DOMAIN v = {"open", "doc", "tail", "undo", "redo", "call", "queued"}
  BY <1>1, BusyPage DEF Settled, Basic, Fields
<1>3. PICK u : u = Accepted(w)
  OBVIOUS
<1>4. Range(v.tail) \subseteq KnownTo(v)
  BY DEF KnownTo
<1>5. IsSeq(<<>>) /\ Range(<<>>) = {}
  <2>1. IsSeq(<<>>) /\ Len(<<>>) = 0
    BY EmptySeq DEF IsSeq
  <2>2. DOMAIN <<>> = 1..0
    BY <2>1, SeqFacts
  <2> QED
    BY <2>1, <2>2 DEF Range
<1>6. CASE v.call.kind = "initialize"
  <2>1. ~ v.open /\ Settled(v, n)
    BY <1>1, <1>6, BusyPage DEF Appends
  <2>2. u = [v EXCEPT !.open = TRUE, !.doc = Seed]
    BY <1>1, <1>3, <1>6 DEF Accepted
  <2>3. /\ DOMAIN u = Fields /\ u.open = TRUE /\ u.doc = Seed
        /\ u.tail = v.tail /\ u.queued = v.queued /\ u.undo = v.undo
        /\ u.redo = v.redo /\ v.doc = Seed
    BY <1>2, <2>1, <2>2 DEF Fields, Settled, Basic
  <2>4. Settled(u, n)
    BY <2>1, <2>3 DEF Settled, Basic
  <2> QED
    BY <1>1, <1>3, <1>4, <2>3, <2>4
<1>7. CASE v.call.kind = "checkpoint"
  <2>1. v.open /\ Settled(v, n)
    BY <1>1, <1>7, BusyPage DEF Appends
  <2>2. u = [v EXCEPT !.tail = <<>>, !.undo = <<>>, !.redo = <<>>]
    BY <1>1, <1>3, <1>7 DEF Accepted
  <2>3. /\ DOMAIN u = Fields /\ u.open = v.open /\ u.doc = v.doc
        /\ u.tail = <<>> /\ u.queued = v.queued /\ u.undo = <<>>
        /\ u.redo = <<>>
    BY <1>2, <2>2 DEF Fields
  <2>4. IsSeq(v.doc.content)
    BY <2>1 DEF Settled, Basic, DocIn, IsSeq
  <2>5. /\ HistoryOf(Restored(<<>>), <<>>, v.doc)
        /\ Restored(<<>>).undo = <<>> /\ Restored(<<>>).redo = <<>>
    BY <2>4, NothingToUndo, RestoredOfNone DEF NoHistory
  <2>6. Settled(u, n)
    BY <1>5, <2>1, <2>3, <2>5 DEF Settled, Basic
  <2> QED
    BY <1>1, <1>3, <1>5, <2>3, <2>6
<1>8. CASE v.call.kind \in Appends
  <2>1. v.open /\ Basic(v, n) /\ Ahead(v)
    BY <1>1, <1>8, BusyPage DEF Appends
  <2>2. PICK c, h, T : c = v.call /\ h = Restored(v.tail) /\ T = v.tail
    OBVIOUS
  <2>3. u = [v EXCEPT !.doc = c.what.result, !.tail = Append(@, c.what)]
    BY <1>1, <1>3, <1>8, <2>2 DEF Accepted, Appends
  <2>4. PICK more : more = Append(T, c.what)
    OBVIOUS
  <2>5. /\ DOMAIN u = Fields /\ u.open = v.open /\ u.doc = c.what.result
        /\ u.tail = more /\ u.queued = v.queued /\ u.undo = v.undo
        /\ u.redo = v.redo
    BY <1>2, <2>2, <2>3, <2>4 DEF Fields
  <2>6. c.what \in ops /\ Range(T) \subseteq ops /\ IsSeq(T)
    BY <1>1, <1>8, <2>1, <2>2 DEF KnownTo, Basic
  <2>7. /\ HistoryOf(h, T, v.doc) /\ DocIn(v.doc, n)
        /\ c.what.before = v.doc
    BY <2>1, <2>2 DEF Basic, Ahead
  <2>8. HistoryOf(Restored(more), more, u.doc)
    BY <2>2, <2>4, <2>5, <2>6, <2>7, RestoredKeepsHistory
  <2>9. Made(c.what, n)
    BY <2>6 DEF Kin
  <2>10. DocIn(u.doc, n) /\ IsSeq(more)
    BY <2>4, <2>5, <2>6, <2>9, MadeFacts, AppendFacts
  <2>11. Basic(u, n)
    BY <2>1, <2>5, <2>8, <2>10 DEF Basic
  <2>12. Range(more) \subseteq KnownTo(v)
    <3>1. \A x : x \in Range(more) <=> x \in Range(T) \/ x = c.what
      BY <2>4, <2>6, AppendFacts
    <3> QED
      BY <1>8, <2>2, <3>1 DEF KnownTo
  <2>13. Restored(more) = Restore(h, c.what)
    BY <2>2, <2>4, <2>6, RestoredAppend
  <2>14. /\ \A p \in Range(T) : p.id \in Nat /\ p.id # 0
         /\ h.undo # <<>> => Last(h.undo) \in Range(T)
    <3>1. IsSeq(h.undo) /\ \A i \in 1..Len(h.undo) : h.undo[i] \in Range(T)
      BY <2>7 DEF HistoryOf, LastEdits
    <3>2. h.undo # <<>> => Last(h.undo) \in Range(T)
      BY <3>1, SeqFacts DEF Last
    <3> QED
      BY <2>6, <3>2, MadeFacts DEF Kin
  <2>15. /\ Restore(h, c.what).undo = v.undo
         /\ Restore(h, c.what).redo = v.redo
    <3>1. CASE c.kind = "commit"
      <4>1. /\ c.what.undoOf = 0 /\ v.undo = Append(h.undo, c.what)
            /\ v.redo = <<>>
        BY <2>1, <2>2, <3>1 DEF Ahead, Moves
      <4>2. h.undo # <<>> => Last(h.undo).id # 0
        BY <2>14
      <4>3. h.redo # <<>> => Last(h.redo).undone.id # 0
        BY <2>7, <2>14, OneEntry DEF HistoryOf
      <4>4. Restore(h, c.what) = [undo |-> v.undo, redo |-> <<>>]
        BY <4>1, <4>2, <4>3, RestoreCases
      <4> QED
        BY <4>1, <4>4
    <3>2. CASE c.kind = "undo"
      <4>1. /\ h.undo # <<>> /\ h.redo = <<>> /\ c.entry = Last(h.undo)
            /\ c.what.undoOf = c.entry.id /\ v.undo = Front(h.undo)
            /\ v.redo = <<[original |-> c.entry, undone |-> c.what]>>
        BY <2>1, <2>2, <3>2 DEF Ahead, Moves
      <4>2. c.what.undoOf # 0 /\ Last(h.undo).id = c.what.undoOf
        BY <2>14, <4>1
      <4>3. PICK e : e = [original |-> c.entry, undone |-> c.what]
        OBVIOUS
      <4>4. Restore(h, c.what) = [undo |-> v.undo, redo |-> Append(<<>>, e)]
        BY <4>1, <4>2, <4>3, RestoreCases
      <4> QED
        BY <4>1, <4>3, <4>4, OneEntry
    <3>3. CASE c.kind = "redo"
      <4>1. /\ h.redo = <<c.entry>> /\ c.what.undoOf = c.entry.undone.id
            /\ v.undo = Append(h.undo, c.what) /\ v.redo = <<>>
        BY <2>1, <2>2, <3>3 DEF Ahead, Moves
      <4>2. h.redo # <<>> /\ Last(h.redo) = c.entry /\ Front(h.redo) = <<>>
        BY <4>1, OneEntry
      <4>3. PICK e : /\ h.redo = <<e>> /\ e.undone \in Range(T)
                     /\ e.undone.id = v.doc.cursor
                     /\ \A i \in 1..Len(h.undo) : h.undo[i].id < v.doc.cursor
        BY <2>7, <4>2 DEF HistoryOf, Invertible
      <4>4. e = c.entry
        BY <4>2, <4>3, OneEntry
      <4>5. c.what.undoOf # 0
        BY <2>14, <4>1, <4>3, <4>4
      <4>6. h.undo # <<>> => Last(h.undo).id # c.what.undoOf
        <5>1. IsSeq(h.undo)
          BY <2>7 DEF HistoryOf, LastEdits
        <5>2. h.undo # <<>> => Len(h.undo) \in 1..Len(h.undo)
          BY <5>1, SeqFacts
        <5>3. v.doc.cursor \in Nat
          BY <2>7 DEF DocIn
        <5> QED
          BY <2>14, <4>1, <4>3, <4>4, <5>2, <5>3 DEF Last
      <4>7. PICK op : op = c.what
        OBVIOUS
      <4>8. op.undoOf # 0 /\ Last(h.redo).undone.id = op.undoOf
            /\ (h.undo # <<>> => Last(h.undo).id # op.undoOf)
        BY <4>1, <4>2, <4>5, <4>6, <4>7
      <4>9. Restore(h, op) = [undo |-> Append(h.undo, op),
                              redo |-> Front(h.redo)]
        BY <4>2, <4>8, RestoreCases
      <4>10. Restore(h, c.what) = [undo |-> v.undo, redo |-> <<>>]
        BY <4>1, <4>2, <4>7, <4>9
      <4> QED
        BY <4>1, <4>10
    <3> QED
      BY <1>8, <2>2, <3>1, <3>2, <3>3 DEF Appends
  <2>16. Settled(u, n)
    BY <2>5, <2>11, <2>13, <2>15 DEF Settled
  <2> QED
    BY <1>1, <1>3, <2>5, <2>12, <2>16
<1> QED
  BY <1>1, <1>6, <1>7, <1>8, BusyPage

-----------------------------------------------------------------------------
(* What becomes of what everyone knows.                                    *)

\* A step that makes no operation leaves nothing but known ones.
LEMMA NothingNew ==
    ASSUME NEW ops, HistoryWith(ops), JournalInv', nextId' = nextId, LogFits',
           Range(log') \subseteq ops, Asked(requests') \subseteq ops,
           \A v \in Windows : /\ PageOf(window'[v], nextId)
                              /\ KnownTo(window'[v]) \subseteq ops
    PROVE  HistoryInv'
<1>1. Known(ops)' /\ Kin(ops, nextId') /\ nextId' \in 1..(MaxOps + 1)
  BY DEF HistoryWith, Known
<1>2. \A v \in Windows : PageOf(window'[v], nextId')
  OBVIOUS
<1>3. HistoryWith(ops)'
  BY <1>1, <1>2 DEF HistoryWith
<1> QED
  BY <1>3 DEF HistoryInv

\* The journal stays.
LEMMA LogStays ==
    ASSUME NEW ops, HistoryWith(ops), UNCHANGED <<snapshot, log, nextId>>
    PROVE  LogFits' /\ Range(log') \subseteq ops
  BY DEF HistoryWith, LogFits, Current, Known

\* What is on its way when a call is given up or a request is served is about
\* no other operations.
LEMMA SentFacts ==
    ASSUME RequestsFit
    PROVE  /\ \A w \in Windows : Asked(Orphaned(w)) \subseteq Asked(requests)
           /\ \A r \in requests :
                 /\ Asked(requests \ {r}) \subseteq Asked(requests)
                 /\ Asked((requests \ {r}) \union {[r EXCEPT !.from = None]})
                       \subseteq Asked(requests)
                 /\ Asked((requests \ {r})
                             \union {[r EXCEPT !.kind = "compacted"]})
                       \subseteq Asked(requests)
<1>1. ASSUME NEW r \in requests
      PROVE  /\ [r EXCEPT !.from = None].kind = r.kind
             /\ [r EXCEPT !.from = None].what = r.what
             /\ [r EXCEPT !.kind = "compacted"].kind = "compacted"
  <2>1. r = [from |-> r.from, kind |-> r.kind, what |-> r.what]
    BY DEF RequestsFit, Sound, Request
  <2> QED
    BY <2>1
<1>2. ASSUME NEW w \in Windows
      PROVE  Asked(Orphaned(w)) \subseteq Asked(requests)
  <2> SUFFICES ASSUME NEW q \in Orphaned(w), q.kind = "append"
               PROVE  q.what \in Asked(requests)
    BY DEF Asked
  <2>1. PICK r \in requests : q = r \/ q = [r EXCEPT !.from = None]
    BY DEF Orphaned
  <2>2. r.kind = "append" /\ r.what = q.what
    BY <1>1, <2>1
  <2> QED
    BY <2>2 DEF Asked
<1>3. ASSUME NEW r \in requests
      PROVE  /\ Asked(requests \ {r}) \subseteq Asked(requests)
             /\ Asked((requests \ {r}) \union {[r EXCEPT !.from = None]})
                   \subseteq Asked(requests)
             /\ Asked((requests \ {r})
                         \union {[r EXCEPT !.kind = "compacted"]})
                   \subseteq Asked(requests)
  BY <1>1 DEF Asked
<1> QED
  BY <1>2, <1>3

\* The end of a call.
LEMMA ProceedPages ==
    ASSUME NEW ops, HistoryWith(ops), NEW w \in Windows, NEW new, NEW sent,
           Proceed(w, new, sent), Settled(new, nextId),
           Range(new.tail) \subseteq KnownTo(window[w]),
           Asked(sent) \subseteq Asked(requests)
    PROVE  /\ \A v \in Windows : /\ PageOf(window'[v], nextId)
                                 /\ KnownTo(window'[v]) \subseteq ops
           /\ Asked(requests') \subseteq ops
<1>1. DOMAIN window = Windows
  BY DEF HistoryWith, JournalInv, WindowsFit
<1>2. PICK u : u = IF new.queued = 0 THEN [new EXCEPT !.call = NoCall]
                   ELSE [new EXCEPT !.queued = @ - 1,
                              !.call = [NoCall EXCEPT !.kind = "checkpoint",
                                                      !.what = new.doc]]
  OBVIOUS
<1>3. PageOf(u, nextId) /\ KnownTo(u) = Range(new.tail)
  BY <1>2, NextCall
<1>4. window' = [window EXCEPT ![w] = u]
  BY <1>2 DEF Proceed
<1>5. window'[w] = u /\ \A v \in Windows \ {w} : window'[v] = window[v]
  BY <1>1, <1>4
<1>6. Asked(requests') \subseteq Asked(sent)
  <2>1. CASE new.queued = 0
    BY <2>1 DEF Proceed
  <2>2. CASE new.queued # 0
    <3>1. requests' = sent \union {Request(w, "checkpoint", new.doc)}
      BY <2>2 DEF Proceed
    <3>2. Request(w, "checkpoint", new.doc).kind = "checkpoint"
      BY DEF Request
    <3> QED
      BY <3>1, <3>2 DEF Asked
  <2> QED
    BY <2>1, <2>2
<1> QED
  BY <1>3, <1>5, <1>6 DEF HistoryWith, Known

\* The answer to a request.
LEMMA AnswerPages ==
    ASSUME NEW ops, HistoryWith(ops), NEW r \in requests, NEW accepted \in BOOLEAN,
           NEW sent, Answer(r, accepted, sent),
           Asked(sent) \subseteq Asked(requests)
    PROVE  /\ \A v \in Windows : /\ PageOf(window'[v], nextId)
                                 /\ KnownTo(window'[v]) \subseteq ops
           /\ Asked(requests') \subseteq ops
<1>1. CASE r.from = None
  BY <1>1 DEF Answer, HistoryWith, Known
<1>2. CASE r.from # None
  <2>1. PICK w \in Windows : w = r.from
    BY <1>2 DEF HistoryWith, JournalInv, RequestsFit, Fits
  <2>2. window[w].call # NoCall
    <3>1. window[w].call.kind # "none"
      BY <1>2, <2>1 DEF HistoryWith, JournalInv, RequestsFit, Fits
    <3> QED
      BY <3>1 DEF NoCall
  <2>3. PICK new : new = IF accepted THEN Accepted(w) ELSE Failed(w)
    OBVIOUS
  <2>4. Proceed(w, new, sent)
    BY <1>2, <2>1, <2>3 DEF Answer
  <2>5. /\ PageOf(window[w], nextId) /\ KnownTo(window[w]) \subseteq ops
        /\ Kin(ops, nextId) /\ nextId \in Nat /\ nextId >= 1
    BY JournalAssumption DEF HistoryWith, Known
  <2>6. Settled(new, nextId) /\ Range(new.tail) \subseteq KnownTo(window[w])
    <3>1. CASE accepted
      BY <2>2, <2>3, <2>5, <3>1, AcceptedSettled
    <3>2. CASE ~ accepted
      BY <2>2, <2>3, <2>5, <3>2, FailedSettled DEF KnownTo
    <3> QED
      BY <3>1, <3>2
  <2> QED
    BY <2>4, <2>6, ProceedPages
<1> QED
  BY <1>1, <1>2

-----------------------------------------------------------------------------
(* The steps of the pages.                                                 *)

\* What the journal replays to was made before the next operation.
LEMMA CurrentMade ==
    ASSUME NEW ops, HistoryWith(ops), snapshot # Absent
    PROVE  DocIn(Current, nextId)
<1>1. Current = IF Len(log) = 0 THEN snapshot ELSE log[Len(log)].result
  BY CurrentFacts DEF HistoryWith, JournalInv, Chain
<1>2. Len(log) # 0 => log[Len(log)] \in ops
  BY SeqFacts DEF HistoryWith, Known, JournalInv, Chain
<1>3. Len(log) # 0 => DocIn(log[Len(log)].result, nextId)
  BY <1>2, MadeFacts, JournalAssumption DEF HistoryWith, Kin
<1> QED
  BY <1>1, <1>3 DEF HistoryWith, LogFits

\* The page shows what it loads.
LEMMA OpenHistory ==
    ASSUME NEW ops, HistoryWith(ops), JournalInv', NEW w \in Windows, Open(w)
    PROVE  HistoryInv'
<1>1. /\ snapshot # Absent /\ UNCHANGED <<snapshot, log, requests, nextId>>
      /\ window' = [window EXCEPT ![w] =
            [Closed EXCEPT !.open = TRUE, !.doc = Current, !.tail = log,
                           !.undo = Restored(log).undo,
                           !.redo = Restored(log).redo]]
  BY DEF Open
<1>2. PICK u : u = [Closed EXCEPT !.open = TRUE, !.doc = Current, !.tail = log,
                                  !.undo = Restored(log).undo,
                                  !.redo = Restored(log).redo]
  OBVIOUS
<1>3. PICK T, doc, h : T = log /\ doc = Current /\ h = Restored(log)
  OBVIOUS
<1>4. /\ DOMAIN u = Fields /\ u.open = TRUE /\ u.doc = doc /\ u.tail = T
      /\ u.undo = h.undo /\ u.redo = h.redo /\ u.call = NoCall
      /\ u.queued = 0
  BY <1>2, <1>3 DEF Closed, Fields
<1>5. IsSeq(T) /\ HistoryOf(h, T, doc) /\ h = Restored(T)
  BY <1>1, <1>3 DEF HistoryWith, JournalInv, Chain, LogFits
<1>6. DocIn(doc, nextId)
  BY <1>1, <1>3, CurrentMade
<1>7. 0 \in 0..MaxQueued
  BY JournalAssumption
<1>8. Settled(u, nextId)
  BY <1>4, <1>5, <1>6, <1>7 DEF Settled, Basic
<1>9. PageOf(u, nextId) /\ KnownTo(u) \subseteq ops
  <2>1. NoCall.kind \notin Appends
    BY DEF NoCall, Appends
  <2>2. Range(T) \subseteq ops
    BY <1>3 DEF HistoryWith, Known
  <2> QED
    BY <1>4, <1>8, <2>1, <2>2 DEF PageOf, KnownTo
<1>10. window' = [window EXCEPT ![w] = u]
  BY <1>1, <1>2
<1>11. \A v \in Windows : /\ PageOf(window'[v], nextId)
                          /\ KnownTo(window'[v]) \subseteq ops
  <2>1. DOMAIN window = Windows
    BY DEF HistoryWith, JournalInv, WindowsFit
  <2>2. window'[w] = u /\ \A v \in Windows \ {w} : window'[v] = window[v]
    BY <1>10, <2>1
  <2> QED
    BY <1>9, <2>2 DEF HistoryWith, Known
<1>12. Asked(requests') \subseteq ops
  BY <1>1 DEF HistoryWith, Known
<1> QED
  BY <1>1, <1>11, <1>12, LogStays, NothingNew

\* A call that is not about an operation begins.
LEMMA CallHistory ==
    ASSUME NEW ops, HistoryWith(ops), JournalInv', NEW w \in Windows, NEW kind, NEW doc,
           ~ Committing(w),
           \/ kind = "initialize" /\ ~ window[w].open
           \/ kind = "checkpoint" /\ window[w].open,
           window' = [window EXCEPT ![w].call =
                         [NoCall EXCEPT !.kind = kind, !.what = doc]],
           requests' = requests \union {Request(w, kind, doc)},
           UNCHANGED <<snapshot, log, nextId>>
    PROVE  HistoryInv'
<1>1. PICK v : v = window[w]
  OBVIOUS
<1>2. /\ Settled(v, nextId) /\ v.call = NoCall /\ PageOf(v, nextId)
  BY <1>1, IdlePage DEF HistoryWith, Committing
<1>3. DOMAIN v = {"open", "doc", "tail", "undo", "redo", "call", "queued"}
  BY <1>2 DEF Settled, Basic, Fields
<1>4. PICK c : c = [NoCall EXCEPT !.kind = kind, !.what = doc]
  OBVIOUS
<1>5. PICK u : u = [v EXCEPT !.call = c]
  OBVIOUS
<1>6. c.kind = kind
  BY <1>4 DEF NoCall
<1>7. /\ DOMAIN u = Fields /\ u.open = v.open /\ u.doc = v.doc
      /\ u.tail = v.tail /\ u.undo = v.undo /\ u.redo = v.redo
      /\ u.call = c /\ u.queued = v.queued
  BY <1>3, <1>5 DEF Fields
<1>8. Settled(u, nextId)
  BY <1>2, <1>7, BasicKept DEF Settled, Basic
<1>9. PageOf(u, nextId)
  BY <1>1, <1>6, <1>7, <1>8 DEF PageOf
<1>10. KnownTo(u) \subseteq KnownTo(v)
  BY <1>6, <1>7 DEF KnownTo, Appends
<1>11. /\ window'[w] = u /\ \A o \in Windows \ {w} : window'[o] = window[o]
  BY <1>1, <1>4, <1>5 DEF HistoryWith, JournalInv, WindowsFit
<1>12. \A o \in Windows : /\ PageOf(window'[o], nextId)
                          /\ KnownTo(window'[o]) \subseteq ops
  BY <1>1, <1>9, <1>10, <1>11 DEF HistoryWith, Known
<1>13. Asked(requests') \subseteq ops
  <2>1. Request(w, kind, doc).kind # "append"
    BY DEF Request
  <2> QED
    BY <2>1 DEF HistoryWith, Known, Asked
<1> QED
  BY <1>12, <1>13, LogStays, NothingNew

\* An operation is made, and sent.
LEMMA SendHistory ==
    ASSUME NEW ops, HistoryWith(ops), JournalInv', NEW w \in Windows, NEW op,
           window[w].open, ~ Committing(w), nextId <= MaxOps,
           Made(op, nextId + 1), op.id = nextId,
           \A p \in ops : op.undoOf = p.id => op.action.type # p.action.type,
           nextId' = nextId + 1, UNCHANGED <<snapshot, log>>,
           requests' = requests \union {Request(w, "append", op)},
           DOMAIN window'[w] = Fields,
           \A o \in Windows \ {w} : window'[o] = window[o],
           window'[w].open = window[w].open, window'[w].doc = window[w].doc,
           window'[w].tail = window[w].tail,
           window'[w].queued = window[w].queued,
           window'[w].call.kind \in Appends, window'[w].call.what = op,
           Ahead(window'[w])
    PROVE  HistoryInv'
<1>1. nextId \in Nat /\ nextId >= 1 /\ MaxOps \in Nat
  BY JournalAssumption DEF HistoryWith
<1>2. Kin(ops \union {op}, nextId + 1)
  BY <1>1, KinGrows DEF HistoryWith
<1>3. PICK v : v = window[w]
  OBVIOUS
<1>4. /\ Settled(v, nextId) /\ v.call = NoCall /\ PageOf(v, nextId)
  BY <1>3, IdlePage DEF HistoryWith, Committing
<1>9. PICK u : u = window'[w]
  OBVIOUS
<1>14. /\ DOMAIN u = Fields /\ u.open = v.open /\ u.doc = v.doc
       /\ u.tail = v.tail /\ u.queued = v.queued
       /\ u.call.kind \in Appends /\ u.call.what = op /\ Ahead(u)
  BY <1>3, <1>9
<1>10. Basic(u, nextId + 1)
  <2>1. Basic(v, nextId + 1)
    BY <1>1, <1>4, DocLater DEF Settled, Basic
  <2> QED
    BY <1>14, <2>1, BasicKept DEF Basic
<1>12. PageOf(u, nextId + 1)
  BY <1>3, <1>10, <1>14 DEF PageOf
<1>13. KnownTo(u) \subseteq KnownTo(v) \union {op}
  BY <1>14 DEF KnownTo
<1>15. \A o \in Windows : PageOf(window'[o], nextId')
  BY <1>1, <1>9, <1>12, PageLater DEF HistoryWith
<1>16. \A o \in Windows : KnownTo(window'[o]) \subseteq ops \union {op}
  BY <1>3, <1>9, <1>13 DEF HistoryWith, Known
<1>17. Asked(requests') \subseteq ops \union {op}
  <2>1. Request(w, "append", op).what = op
    BY DEF Request
  <2> QED
    BY <2>1 DEF HistoryWith, Known, Asked
<1>18. Known(ops \union {op})'
  <2>1. Range(log') \subseteq ops \union {op}
    BY DEF HistoryWith, Known
  <2> QED
    BY <1>16, <1>17, <2>1 DEF Known
<1>19. Kin(ops \union {op}, nextId')
  BY <1>2
<1>20. LogFits'
  BY <1>1, DocLater DEF HistoryWith, LogFits, Current
<1>21. nextId' \in 1..(MaxOps + 1)
  BY <1>1
<1>22. HistoryWith(ops \union {op})'
  BY <1>15, <1>18, <1>19, <1>20, <1>21 DEF HistoryWith
<1> QED
  BY <1>22 DEF HistoryInv

\* An edit.
LEMMA CommitHistory ==
    ASSUME NEW ops, HistoryWith(ops), JournalInv', NEW w \in Windows,
           Commit(w)
    PROVE  HistoryInv'
<1>1. PICK action : action = [type |-> "put", edit |-> nextId]
  OBVIOUS
<1>2. action.type = "put" /\ action.edit = nextId
      /\ action = [type |-> action.type, edit |-> action.edit]
  BY <1>1
<1>3. Send(w, "commit", action, 0, None)
  BY <1>1 DEF Commit
<1>4. PICK op : op = Operation(window[w].doc, nextId, action, 0)
  OBVIOUS
<1>5. /\ op.id = nextId /\ op.action = action /\ op.undoOf = 0
      /\ op.before = window[w].doc
      /\ op = Operation(op.before, op.id, op.action, op.undoOf)
  BY <1>4 DEF Operation
<1>6. PICK v : v = window[w]
  OBVIOUS
<1>7. Settled(v, nextId)
  BY <1>3, <1>6, IdlePage DEF HistoryWith, Send, Committing
<1>8. nextId \in Nat /\ nextId >= 1 /\ nextId <= MaxOps /\ MaxOps \in Nat
  BY <1>3, JournalAssumption DEF HistoryWith, Send
<1>9. DocIn(v.doc, nextId)
  BY <1>7 DEF Settled, Basic
<1>10. Made(op, nextId + 1)
  <2>1. v.doc.cursor \in Nat /\ v.doc.cursor < nextId
    BY <1>8, <1>9 DEF DocIn
  <2>2. DocIn(op.before, nextId + 1)
    BY <1>5, <1>6, <1>8, <1>9, DocLater
  <2>3. op.id \in 1..((nextId + 1) - 1) /\ op.action.edit \in 1..MaxOps
    BY <1>2, <1>5, <1>8
  <2> QED
    BY <1>2, <1>5, <1>6, <2>1, <2>2, <2>3 DEF Made
<1>11. \A p \in ops : op.undoOf = p.id => op.action.type # p.action.type
  BY <1>5, MadeFacts, JournalAssumption DEF HistoryWith, Kin
<1>12. PICK undo : undo = Append(v.undo, op)
  OBVIOUS
<1>13. /\ window[w].open /\ ~ Committing(w)
      /\ nextId' = nextId + 1 /\ UNCHANGED <<snapshot, log>>
      /\ requests' = requests \union {Request(w, "append", op)}
  BY <1>3, <1>4 DEF Send
<1>21. PICK u : u = window'[w]
  OBVIOUS
<1>17. /\ DOMAIN u = Fields /\ u.open = v.open /\ u.doc = v.doc
       /\ u.tail = v.tail /\ u.queued = v.queued
       /\ u.undo = undo /\ u.redo = <<>>
       /\ u.call = [kind |-> "commit", what |-> op, entry |-> None]
       /\ \A o \in Windows \ {w} : window'[o] = window[o]
  <2>1. DOMAIN v = {"open", "doc", "tail", "undo", "redo", "call", "queued"}
    BY <1>7 DEF Settled, Basic, Fields
  <2>2. window' = [window EXCEPT ![w] = [v EXCEPT
             !.call = [kind |-> "commit", what |-> op, entry |-> None],
             !.undo = Append(v.undo, op),
             !.redo = <<>>]]
    BY <1>3, <1>4, <1>6 DEF Send
  <2>3. DOMAIN window = Windows
    BY DEF HistoryWith, JournalInv, WindowsFit
  <2> QED
    BY <1>6, <1>12, <1>21, <2>1, <2>2, <2>3 DEF Fields
<1>14. undo = Append(Restored(v.tail).undo, op)
  BY <1>7, <1>12 DEF Settled
<1>15. "commit" \in Appends
  BY DEF Appends
<1>18. Ahead(u)
  BY <1>5, <1>6, <1>14, <1>17 DEF Ahead, Moves
<1>20. /\ window'[w].open = window[w].open
       /\ window'[w].doc = window[w].doc
       /\ window'[w].tail = window[w].tail
       /\ window'[w].queued = window[w].queued
       /\ window'[w].call.kind \in Appends /\ window'[w].call.what = op
       /\ DOMAIN window'[w] = Fields /\ Ahead(window'[w])
       /\ \A o \in Windows \ {w} : window'[o] = window[o]
  BY <1>6, <1>17, <1>18, <1>15, <1>21
<1> QED
  BY <1>5, <1>8, <1>10, <1>11, <1>13, <1>20, SendHistory

\* What a page offers to undo or redo, when that is possible.
LEMMA OfferFacts ==
    ASSUME NEW n \in Nat, NEW v, Settled(v, n), NEW ops, Kin(ops, n),
           KnownTo(v) \subseteq ops
    PROVE  LET h == Restored(v.tail)
           IN  /\ v.undo # <<>> /\ Last(v.undo).id = v.doc.cursor =>
                     /\ h.redo = <<>> /\ v.redo = <<>>
                     /\ h.undo = v.undo
                     /\ Last(v.undo) \in ops
                     /\ Last(v.undo).action.type = "put"
               /\ v.redo # <<>> =>
                     /\ v.redo = <<Last(v.redo)>> /\ h.redo = v.redo
                     /\ Last(v.redo).undone \in ops
                     /\ Last(v.redo).undone.action.type = "drop"
                     /\ h.undo = v.undo
<1>1. PICK h : h = Restored(v.tail)
  OBVIOUS
<1>2. /\ v.undo = h.undo /\ (v.redo = h.redo \/ v.redo = <<>>)
      /\ HistoryOf(h, v.tail, v.doc) /\ Range(v.tail) \subseteq ops
      /\ v.doc.cursor \in Nat
  BY <1>1 DEF Settled, Basic, KnownTo, DocIn
<1>3. IsSeq(h.undo) /\ \A i \in 1..Len(h.undo) : h.undo[i] \in ops
  BY <1>2 DEF HistoryOf, LastEdits
<1>4. h.undo # <<>> => Len(h.undo) \in 1..Len(h.undo)
  BY <1>3, SeqFacts
<1>5. ASSUME v.undo # <<>>, Last(v.undo).id = v.doc.cursor
      PROVE  /\ h.redo = <<>> /\ v.redo = <<>>
             /\ Last(v.undo) \in ops /\ Last(v.undo).action.type = "put"
  <2>1. /\ Last(h.undo) = h.undo[Len(h.undo)] /\ Last(h.undo) \in ops
        /\ Len(h.undo) \in 1..Len(h.undo) /\ h.undo # <<>>
    BY <1>2, <1>3, <1>4, <1>5 DEF Last
  <2>2. ~ (\A i \in 1..Len(h.undo) : h.undo[i].id < v.doc.cursor)
    BY <1>2, <1>5, <2>1
  <2>3. h.redo = <<>> /\ h.undo[Len(h.undo)].action.type = "put"
    BY <1>2, <2>1, <2>2 DEF HistoryOf
  <2> QED
    BY <1>2, <2>1, <2>3
<1>6. ASSUME v.redo # <<>>
      PROVE  /\ v.redo = <<Last(v.redo)>> /\ h.redo = v.redo
             /\ Last(v.redo).undone \in ops
             /\ Last(v.redo).undone.action.type = "drop"
  <2>1. h.redo = v.redo
    BY <1>2, <1>6
  <2>2. PICK e : /\ h.redo = <<e>> /\ e.undone \in ops
                 /\ e.undone.action.type = "drop"
    BY <1>2, <1>6, <2>1 DEF HistoryOf
  <2>3. Last(v.redo) = e
    BY <2>1, <2>2, OneEntry
  <2> QED
    BY <2>1, <2>2, <2>3
<1> QED
  BY <1>1, <1>2, <1>5, <1>6

\* The inverse of an operation, made on the document that it has made.
LEMMA InverseMade ==
    ASSUME NEW n \in Nat, n >= 1, n <= MaxOps, NEW ops, Kin(ops, n),
           NEW original \in ops, NEW doc, DocIn(doc, n),
           original.id = doc.cursor, NEW op,
           op = Operation(doc, n, InverseAction(original.action), original.id)
    PROVE  /\ Made(op, n + 1) /\ op.id = n /\ op.before = doc
           /\ op.undoOf = original.id
           /\ \A p \in ops :
                 op.undoOf = p.id => op.action.type # p.action.type
<1>1. PICK done, inverse :
         done = original.action /\ inverse = InverseAction(original.action)
  OBVIOUS
<1>2. /\ done = [type |-> done.type, edit |-> done.edit]
      /\ done.type \in {"put", "drop"} /\ done.edit \in 1..MaxOps
      /\ original.id \in Nat /\ original.id # 0
  BY <1>1, MadeFacts DEF Kin, Made
<1>3. /\ inverse = [type |-> inverse.type, edit |-> inverse.edit]
      /\ inverse.type \in {"put", "drop"} /\ inverse.type # done.type
      /\ inverse.edit \in 1..MaxOps
  BY <1>1, <1>2 DEF InverseAction
<1>4. /\ op.id = n /\ op.action = inverse /\ op.undoOf = original.id
      /\ op.before = doc
      /\ op = Operation(op.before, op.id, op.action, op.undoOf)
  BY <1>1 DEF Operation
<1>5. Made(op, n + 1)
  <2>1. doc.cursor \in Nat /\ doc.cursor < n
    BY DEF DocIn
  <2>2. DocIn(op.before, n + 1)
    BY <1>4, DocLater
  <2>3. op.id \in 1..((n + 1) - 1)
    BY <1>4
  <2> QED
    BY <1>2, <1>3, <1>4, <2>1, <2>2, <2>3 DEF Made
<1>6. ASSUME NEW p \in ops, op.undoOf = p.id
      PROVE  op.action.type # p.action.type
  <2>1. p = original
    BY <1>4, <1>6 DEF Kin
  <2> QED
    BY <1>1, <1>3, <1>4, <2>1
<1> QED
  BY <1>4, <1>5, <1>6

\* An undo.
LEMMA UndoHistory ==
    ASSUME NEW ops, HistoryWith(ops), JournalInv', NEW w \in Windows, Undo(w)
    PROVE  HistoryInv'
<1>1. PICK v : v = window[w]
  OBVIOUS
<1>2. PICK original : original = Last(v.undo)
  OBVIOUS
<1>3. /\ v.undo # <<>> /\ original.id = v.doc.cursor
      /\ Send(w, "undo", InverseAction(original.action), original.id, original)
  BY <1>1, <1>2 DEF Undo, Invertible
<1>4. PICK op : op = Operation(v.doc, nextId, InverseAction(original.action),
                               original.id)
  OBVIOUS
<1>5. PICK undo, redo : /\ undo = Front(v.undo)
                        /\ redo = Append(v.redo, [original |-> original,
                                                  undone |-> op])
  OBVIOUS
<1>6. /\ window[w].open /\ ~ Committing(w)
      /\ nextId' = nextId + 1 /\ UNCHANGED <<snapshot, log>>
      /\ requests' = requests \union {Request(w, "append", op)}
  BY <1>1, <1>3, <1>4 DEF Send
<1>7. /\ Settled(v, nextId) /\ Kin(ops, nextId) /\ KnownTo(v) \subseteq ops
      /\ nextId \in Nat /\ nextId >= 1 /\ nextId <= MaxOps
  BY <1>1, <1>3, IdlePage, JournalAssumption
     DEF HistoryWith, Known, Send, Committing
<1>21. PICK u : u = window'[w]
  OBVIOUS
<1>16. /\ DOMAIN u = Fields /\ u.open = v.open /\ u.doc = v.doc
       /\ u.tail = v.tail /\ u.queued = v.queued
       /\ u.undo = undo /\ u.redo = redo
       /\ u.call = [kind |-> "undo", what |-> op, entry |-> original]
       /\ \A o \in Windows \ {w} : window'[o] = window[o]
  <2>1. DOMAIN v = {"open", "doc", "tail", "undo", "redo", "call", "queued"}
    BY <1>7 DEF Settled, Basic, Fields
  <2>2. window' = [window EXCEPT ![w] = [v EXCEPT
             !.call = [kind |-> "undo", what |-> op, entry |-> original],
             !.undo = Front(v.undo),
             !.redo = Append(v.redo, [original |-> original, undone |-> op])]]
    BY <1>1, <1>3, <1>4 DEF Send
  <2>3. DOMAIN window = Windows
    BY DEF HistoryWith, JournalInv, WindowsFit
  <2> QED
    BY <1>1, <1>5, <1>21, <2>1, <2>2, <2>3 DEF Fields
<1>8. PICK h : h = Restored(v.tail)
  OBVIOUS
<1>9. /\ h.redo = <<>> /\ v.redo = <<>> /\ h.undo = v.undo
      /\ original \in ops
  BY <1>2, <1>3, <1>7, <1>8, OfferFacts
<1>10. DocIn(v.doc, nextId)
  BY <1>7 DEF Settled, Basic
<1>11. /\ Made(op, nextId + 1) /\ op.id = nextId /\ op.before = v.doc
       /\ op.undoOf = original.id
       /\ \A p \in ops : op.undoOf = p.id => op.action.type # p.action.type
  BY <1>3, <1>4, <1>7, <1>9, <1>10, InverseMade
<1>12. redo = <<[original |-> original, undone |-> op]>>
  BY <1>5, <1>9, OneEntry
<1>13. /\ h.undo # <<>> /\ h.redo = <<>> /\ original = Last(h.undo)
       /\ undo = Front(h.undo)
  BY <1>2, <1>3, <1>5, <1>9
<1>14. "undo" \in Appends
  BY DEF Appends
<1>17. Ahead(u)
  BY <1>8, <1>11, <1>12, <1>13, <1>16 DEF Ahead, Moves
<1>20. /\ window'[w].open = window[w].open
       /\ window'[w].doc = window[w].doc
       /\ window'[w].tail = window[w].tail
       /\ window'[w].queued = window[w].queued
       /\ window'[w].call.kind \in Appends /\ window'[w].call.what = op
       /\ DOMAIN window'[w] = Fields /\ Ahead(window'[w])
       /\ \A o \in Windows \ {w} : window'[o] = window[o]
  BY <1>1, <1>16, <1>17, <1>14, <1>21
<1>22. /\ nextId <= MaxOps /\ Made(op, nextId + 1) /\ op.id = nextId
       /\ \A p \in ops : op.undoOf = p.id => op.action.type # p.action.type
  BY <1>7, <1>11
<1> QED
  BY <1>6, <1>20, <1>22, SendHistory

\* A redo.
LEMMA RedoHistory ==
    ASSUME NEW ops, HistoryWith(ops), JournalInv', NEW w \in Windows, Redo(w)
    PROVE  HistoryInv'
<1>1. PICK v : v = window[w]
  OBVIOUS
<1>2. PICK entry : entry = Last(v.redo)
  OBVIOUS
<1>3. /\ v.redo # <<>> /\ entry.undone.id = v.doc.cursor
      /\ Send(w, "redo", InverseAction(entry.undone.action),
              entry.undone.id, entry)
  BY <1>1, <1>2 DEF Redo, Invertible
<1>4. PICK op : op = Operation(v.doc, nextId,
                               InverseAction(entry.undone.action),
                               entry.undone.id)
  OBVIOUS
<1>5. PICK undo, redo : undo = Append(v.undo, op) /\ redo = Front(v.redo)
  OBVIOUS
<1>6. /\ window[w].open /\ ~ Committing(w)
      /\ nextId' = nextId + 1 /\ UNCHANGED <<snapshot, log>>
      /\ requests' = requests \union {Request(w, "append", op)}
  BY <1>1, <1>3, <1>4 DEF Send
<1>7. /\ Settled(v, nextId) /\ Kin(ops, nextId) /\ KnownTo(v) \subseteq ops
      /\ nextId \in Nat /\ nextId >= 1 /\ nextId <= MaxOps
  BY <1>1, <1>3, IdlePage, JournalAssumption
     DEF HistoryWith, Known, Send, Committing
<1>21. PICK u : u = window'[w]
  OBVIOUS
<1>16. /\ DOMAIN u = Fields /\ u.open = v.open /\ u.doc = v.doc
       /\ u.tail = v.tail /\ u.queued = v.queued
       /\ u.undo = undo /\ u.redo = redo
       /\ u.call = [kind |-> "redo", what |-> op, entry |-> entry]
       /\ \A o \in Windows \ {w} : window'[o] = window[o]
  <2>1. DOMAIN v = {"open", "doc", "tail", "undo", "redo", "call", "queued"}
    BY <1>7 DEF Settled, Basic, Fields
  <2>2. window' = [window EXCEPT ![w] = [v EXCEPT
             !.call = [kind |-> "redo", what |-> op, entry |-> entry],
             !.undo = Append(v.undo, op),
             !.redo = Front(v.redo)]]
    BY <1>1, <1>3, <1>4 DEF Send
  <2>3. DOMAIN window = Windows
    BY DEF HistoryWith, JournalInv, WindowsFit
  <2> QED
    BY <1>1, <1>5, <1>21, <2>1, <2>2, <2>3 DEF Fields
<1>8. PICK h : h = Restored(v.tail)
  OBVIOUS
<1>9. /\ v.redo = <<entry>> /\ h.redo = v.redo /\ entry.undone \in ops
      /\ h.undo = v.undo
  BY <1>2, <1>3, <1>7, <1>8, OfferFacts
<1>10. DocIn(v.doc, nextId)
  BY <1>7 DEF Settled, Basic
<1>11. /\ Made(op, nextId + 1) /\ op.id = nextId /\ op.before = v.doc
       /\ op.undoOf = entry.undone.id
       /\ \A p \in ops : op.undoOf = p.id => op.action.type # p.action.type
  BY <1>3, <1>4, <1>7, <1>9, <1>10, InverseMade
<1>12. redo = <<>> /\ h.redo = <<entry>> /\ undo = Append(h.undo, op)
  BY <1>5, <1>9, OneEntry
<1>13. "redo" \in Appends
  BY DEF Appends
<1>17. Ahead(u)
  BY <1>8, <1>11, <1>12, <1>16 DEF Ahead, Moves
<1>20. /\ window'[w].open = window[w].open
       /\ window'[w].doc = window[w].doc
       /\ window'[w].tail = window[w].tail
       /\ window'[w].queued = window[w].queued
       /\ window'[w].call.kind \in Appends /\ window'[w].call.what = op
       /\ DOMAIN window'[w] = Fields /\ Ahead(window'[w])
       /\ \A o \in Windows \ {w} : window'[o] = window[o]
  BY <1>1, <1>16, <1>17, <1>13, <1>21
<1>22. /\ nextId <= MaxOps /\ Made(op, nextId + 1) /\ op.id = nextId
       /\ \A p \in ops : op.undoOf = p.id => op.action.type # p.action.type
  BY <1>7, <1>11
<1> QED
  BY <1>6, <1>20, <1>22, SendHistory

\* A checkpoint has to wait.
LEMMA WaitHistory ==
    ASSUME NEW ops, HistoryWith(ops), JournalInv', NEW w \in Windows,
           window[w].open, Committing(w), window[w].queued < MaxQueued,
           window' = [window EXCEPT ![w].queued = @ + 1],
           UNCHANGED <<snapshot, log, requests, nextId>>
    PROVE  HistoryInv'
<1>1. PICK v : v = window[w]
  OBVIOUS
<1>2. PICK u : u = [v EXCEPT !.queued = @ + 1]
  OBVIOUS
<1>3. PageOf(v, nextId) /\ v.call # NoCall /\ Basic(v, nextId)
  BY <1>1, BusyPage DEF HistoryWith, Committing, Settled
<1>4. DOMAIN v = {"open", "doc", "tail", "undo", "redo", "call", "queued"}
  BY <1>3 DEF Basic, Fields
<1>5. /\ DOMAIN u = Fields /\ u.open = v.open /\ u.doc = v.doc
      /\ u.tail = v.tail /\ u.undo = v.undo /\ u.redo = v.redo
      /\ u.call = v.call /\ u.queued = v.queued + 1
  BY <1>2, <1>4 DEF Fields
<1>6. v.queued + 1 \in 0..MaxQueued
  BY <1>1, <1>3, JournalAssumption DEF Basic
<1>7. Basic(u, nextId)
  BY <1>1, <1>3, <1>5, <1>6, BasicKept
<1>8. (Ahead(v) => Ahead(u)) /\ (Settled(v, nextId) => Settled(u, nextId))
  BY <1>5, <1>7 DEF Ahead, Settled
<1>9. PageOf(u, nextId)
  BY <1>1, <1>3, <1>5, <1>7, <1>8, BusyPage DEF PageOf
<1>10. KnownTo(u) = KnownTo(v)
  BY <1>5 DEF KnownTo
<1>11. window'[w] = u /\ \A o \in Windows \ {w} : window'[o] = window[o]
  BY <1>1, <1>2 DEF HistoryWith, JournalInv, WindowsFit
<1>12. \A o \in Windows : /\ PageOf(window'[o], nextId)
                          /\ KnownTo(window'[o]) \subseteq ops
  BY <1>1, <1>9, <1>10, <1>11 DEF HistoryWith, Known
<1>13. Asked(requests') \subseteq ops
  BY DEF HistoryWith, Known
<1> QED
  BY <1>12, <1>13, LogStays, NothingNew

\* What a page does of its own.
LEMMA WindowHistory ==
    ASSUME NEW ops, HistoryWith(ops), JournalInv', NEW w \in Windows,
           \/ Open(w) \/ OpenSeed(w) \/ Commit(w) \/ Undo(w) \/ Redo(w)
           \/ Checkpoint(w) \/ GiveUp(w) \/ Close(w)
    PROVE  HistoryInv'
<1>1. CASE OpenSeed(w)
  <2>1. PICK doc : doc = Seed
    OBVIOUS
  <2> QED
    BY <1>1, <2>1, CallHistory DEF OpenSeed
<1>2. CASE Checkpoint(w) /\ ~ Committing(w)
  <2>1. PICK doc : doc = window[w].doc
    OBVIOUS
  <2> QED
    BY <1>2, <2>1, CallHistory DEF Checkpoint
<1>3. CASE Checkpoint(w) /\ Committing(w)
  BY <1>3, WaitHistory DEF Checkpoint
<1>4. CASE GiveUp(w)
  <2>1. /\ window[w].call # NoCall /\ UNCHANGED <<snapshot, log, nextId>>
        /\ Proceed(w, Failed(w), Orphaned(w))
    BY <1>4 DEF GiveUp, Committing
  <2>2. PICK new, sent : new = Failed(w) /\ sent = Orphaned(w)
    OBVIOUS
  <2>3. Settled(new, nextId) /\ Range(new.tail) \subseteq KnownTo(window[w])
    BY <2>1, <2>2, FailedSettled DEF HistoryWith, KnownTo
  <2>4. Asked(sent) \subseteq Asked(requests)
    BY <2>2, SentFacts DEF HistoryWith, JournalInv
  <2> QED
    BY <2>1, <2>2, <2>3, <2>4, ProceedPages, LogStays, NothingNew
<1>5. CASE Close(w)
  <2>1. /\ window' = [window EXCEPT ![w] = Closed] /\ requests' = Orphaned(w)
        /\ UNCHANGED <<snapshot, log, nextId>>
    BY <1>5 DEF Close
  <2>2. window'[w] = Closed /\ \A v \in Windows \ {w} : window'[v] = window[v]
    BY <2>1 DEF HistoryWith, JournalInv, WindowsFit
  <2>3. PageOf(Closed, nextId) /\ KnownTo(Closed) \subseteq ops
    BY ClosedPage, JournalAssumption DEF HistoryWith
  <2>4. \A v \in Windows : /\ PageOf(window'[v], nextId)
                           /\ KnownTo(window'[v]) \subseteq ops
    BY <2>2, <2>3 DEF HistoryWith, Known
  <2>5. Asked(requests') \subseteq ops
    BY <2>1, SentFacts DEF HistoryWith, JournalInv, Known
  <2> QED
    BY <2>1, <2>4, <2>5, LogStays, NothingNew
<1> QED
  BY <1>1, <1>2, <1>3, <1>4, <1>5, OpenHistory, CommitHistory, UndoHistory,
     RedoHistory

-----------------------------------------------------------------------------
(* The steps of the sidecar.                                               *)

\* The first document, or the answer that there is one.
LEMMA InitializeHistory ==
    ASSUME NEW ops, HistoryWith(ops), JournalInv', NEW r \in requests,
           ServeInitialize(r)
    PROVE  HistoryInv'
<1>1. /\ r.what = Seed /\ UNCHANGED <<log, nextId>>
      /\ Asked(requests \ {r}) \subseteq Asked(requests)
  BY SentFacts
     DEF ServeInitialize, HistoryWith, JournalInv, RequestsFit, Sound
<1>2. PICK sent : sent = requests \ {r}
  OBVIOUS
<1>3. Range(log') \subseteq ops
  BY <1>1 DEF HistoryWith, Known
<1>4. CASE snapshot = Absent /\ snapshot' = r.what /\ Answer(r, TRUE, sent)
  <2>1. log = <<>> /\ log' = <<>>
    BY <1>1, <1>4 DEF HistoryWith, JournalInv, Chain
  <2>2. nextId \in Nat /\ nextId >= 1 /\ nextId' = nextId
    BY <1>1, JournalAssumption DEF HistoryWith
  <2>3. DocIn(Seed, nextId) /\ HistoryOf(Restored(<<>>), <<>>, Seed)
    BY <2>2, SeedFacts, NothingToUndo
  <2>4. Current' = Seed
    BY <1>1, <1>4, <2>1 DEF Current, DocumentAfter
  <2>5. LogFits'
    <3>1. Len(log') <= MaxLog
      BY <1>1 DEF HistoryWith, LogFits
    <3>2. DocIn(snapshot', nextId')
      BY <1>1, <1>4, <2>2, <2>3
    <3>3. HistoryOf(Restored(log'), log', Current')
      BY <2>1, <2>3, <2>4
    <3> QED
      BY <3>1, <3>2, <3>3 DEF LogFits
  <2>6. TRUE \in BOOLEAN
    OBVIOUS
  <2> QED
    BY <1>1, <1>2, <1>3, <1>4, <2>5, <2>6, AnswerPages, NothingNew
<1>5. CASE /\ Answer(r, log = <<>> /\ snapshot = r.what, sent)
           /\ snapshot' = snapshot
  <2>1. PICK accepted \in BOOLEAN :
           accepted = (log = <<>> /\ snapshot = r.what)
    OBVIOUS
  <2>2. Answer(r, accepted, sent)
    BY <1>5, <2>1
  <2> QED
    BY <1>1, <1>2, <1>3, <1>5, <2>2, AnswerPages, LogStays, NothingNew
<1> QED
  BY <1>2, <1>4, <1>5 DEF ServeInitialize

\* One operation more, or one that is there or cannot be.
LEMMA AppendHistory ==
    ASSUME NEW ops, HistoryWith(ops), JournalInv', NEW r \in requests,
           ServeAppend(r)
    PROVE  HistoryInv'
<1>1. r.kind = "append" /\ UNCHANGED <<snapshot, nextId>>
  BY DEF ServeAppend
<1>2. PICK sent : /\ AppendOnce(r, sent)
                  /\ \/ sent = requests \ {r}
                     \/ sent = (requests \ {r})
                                  \union {[r EXCEPT !.from = None]}
  BY DEF ServeAppend
<1>3. Asked(sent) \subseteq Asked(requests)
  BY <1>2, SentFacts DEF HistoryWith, JournalInv
<1>4. PICK op : op = r.what
  OBVIOUS
<1>5. op \in ops
  <2>1. op \in Asked(requests)
    BY <1>1, <1>4 DEF Asked
  <2> QED
    BY <2>1 DEF HistoryWith, Known
<1>6. ASSUME NEW accepted \in BOOLEAN, Answer(r, accepted, sent),
             UNCHANGED <<log, docs>>
      PROVE  HistoryInv'
  BY <1>1, <1>3, <1>6, AnswerPages, LogStays, NothingNew
<1>7. CASE Answer(r, r.what \in Range(log), sent) /\ UNCHANGED <<log, docs>>
  <2>1. PICK accepted \in BOOLEAN : accepted = (r.what \in Range(log))
    <3>1. (r.what \in Range(log)) \in BOOLEAN
      OBVIOUS
    <3> QED
      BY <3>1
  <2> QED
    BY <1>6, <1>7, <2>1
<1>8. CASE /\ CanAppend(op) /\ log' = Append(log, op)
           /\ Answer(r, TRUE, sent)
  <2>1. /\ op.before = Current /\ snapshot # Absent /\ Len(log) < MaxLog
    BY <1>8 DEF CanAppend, Applies
  <2>2. PICK T, doc : T = log /\ doc = Current
    OBVIOUS
  <2>3. /\ IsSeq(T) /\ Len(T) \in Nat /\ Range(T) \subseteq ops
        /\ HistoryOf(Restored(T), T, doc)
    BY <2>1, <2>2, SeqFacts
       DEF HistoryWith, JournalInv, Chain, Known, LogFits
  <2>4. DocIn(doc, nextId) /\ Kin(ops, nextId) /\ nextId \in Nat
    BY <2>1, <2>2, CurrentMade, JournalAssumption DEF HistoryWith
  <2>5. PICK more : more = Append(T, op)
    OBVIOUS
  <2>6. HistoryOf(Restored(more), more, op.result)
    BY <1>5, <2>1, <2>2, <2>3, <2>4, <2>5, RestoredKeepsHistory
  <2>7. /\ Len(more) = Len(T) + 1 /\ more[Len(T) + 1] = op /\ more # <<>>
        /\ \A x : x \in Range(more) <=> x \in Range(T) \/ x = op
    BY <2>3, <2>5, AppendFacts
  <2>8. log' = more
    BY <1>8, <2>2, <2>5
  <2>9. Current' = op.result
    BY <2>7, <2>8 DEF Current, DocumentAfter, Last
  <2>10. LogFits'
    <3>1. Len(log') <= MaxLog
      BY <2>1, <2>2, <2>3, <2>7, <2>8, JournalAssumption
    <3>2. DocIn(snapshot', nextId')
      BY <1>1, <2>1 DEF HistoryWith, LogFits
    <3>3. HistoryOf(Restored(log'), log', Current')
      BY <2>6, <2>8, <2>9
    <3> QED
      BY <3>1, <3>2, <3>3 DEF LogFits
  <2>11. Range(log') \subseteq ops
    BY <1>5, <2>3, <2>7, <2>8
  <2>12. TRUE \in BOOLEAN
    OBVIOUS
  <2> QED
    BY <1>1, <1>3, <1>8, <2>10, <2>11, <2>12, AnswerPages, NothingNew
<1>9. CASE Answer(r, FALSE, sent) /\ UNCHANGED <<log, docs>>
  <2>1. FALSE \in BOOLEAN
    OBVIOUS
  <2> QED
    BY <1>6, <1>9, <2>1
<1> QED
  BY <1>2, <1>4, <1>7, <1>8, <1>9 DEF AppendOnce

\* The operations go, and with them what a page that loads the journal could
\* undo.
LEMMA CheckpointHistory ==
    ASSUME NEW ops, HistoryWith(ops), JournalInv', NEW r \in requests,
           ServeCheckpoint(r) \/ ServeCompacted(r)
    PROVE  HistoryInv'
<1>1. nextId' = nextId
  BY DEF ServeCheckpoint, ServeCompacted
<1>2. ASSUME NEW accepted \in BOOLEAN, Answer(r, accepted, requests \ {r}),
             UNCHANGED <<snapshot, log>>
      PROVE  HistoryInv'
  <2>1. PICK sent : sent = requests \ {r}
    OBVIOUS
  <2>2. Asked(sent) \subseteq Asked(requests) /\ Answer(r, accepted, sent)
    BY <1>2, <2>1, SentFacts DEF HistoryWith, JournalInv
  <2> QED
    BY <1>1, <1>2, <2>2, AnswerPages, LogStays, NothingNew
<1>3. CASE /\ CanCompact(r.what)
           /\ snapshot' = r.what /\ log' = <<>>
           /\ requests' = (requests \ {r})
                             \union {[r EXCEPT !.kind = "compacted"]}
           /\ UNCHANGED window
  <2>1. PICK doc : doc = Current
    OBVIOUS
  <2>2. snapshot # Absent /\ snapshot' = doc
    BY <1>3, <2>1 DEF CanCompact
  <2>3. DocIn(doc, nextId) /\ IsSeq(doc.content)
    BY <2>1, <2>2, CurrentMade DEF DocIn, IsSeq
  <2>4. HistoryOf(Restored(<<>>), <<>>, doc)
    BY <2>3, NothingToUndo
  <2>5. IsSeq(<<>>) /\ Len(<<>>) = 0 /\ Range(<<>>) = {}
    <3>1. IsSeq(<<>>) /\ Len(<<>>) = 0
      BY EmptySeq DEF IsSeq
    <3>2. DOMAIN <<>> = 1..0
      BY <3>1, SeqFacts
    <3> QED
      BY <3>1, <3>2 DEF Range
  <2>6. LogFits'
    <3>1. Len(log') <= MaxLog
      BY <1>3, <2>5, JournalAssumption
    <3>2. DocIn(snapshot', nextId')
      BY <1>1, <2>2, <2>3
    <3>3. Current' = doc
      BY <1>3, <2>2 DEF Current, DocumentAfter
    <3>4. HistoryOf(Restored(log'), log', Current')
      BY <1>3, <2>4, <3>3
    <3> QED
      BY <3>1, <3>2, <3>4 DEF LogFits
  <2>7. Range(log') \subseteq ops
    BY <1>3, <2>5
  <2>8. Asked(requests') \subseteq ops
    BY <1>3, SentFacts DEF HistoryWith, JournalInv, Known
  <2>9. \A v \in Windows : /\ PageOf(window'[v], nextId)
                           /\ KnownTo(window'[v]) \subseteq ops
    BY <1>3 DEF HistoryWith, Known
  <2> QED
    BY <1>1, <2>6, <2>7, <2>8, <2>9, NothingNew
<1>4. CASE ServeCheckpoint(r)
  <2>1. FALSE \in BOOLEAN
    OBVIOUS
  <2> QED
    BY <1>2, <1>3, <1>4, <2>1 DEF ServeCheckpoint
<1>5. CASE ServeCompacted(r)
  <2>1. PICK accepted \in BOOLEAN :
           accepted = (log = <<>> /\ snapshot = r.what)
    OBVIOUS
  <2> QED
    BY <1>2, <1>5, <2>1 DEF ServeCompacted
<1> QED
  BY <1>4, <1>5

\* Every step keeps the invariant.
LEMMA HistoryStep ==
    ASSUME HistoryInv, [JournalNext]_journalVars
    PROVE  HistoryInv'
<1>1. PICK ops : HistoryWith(ops)
  BY DEF HistoryInv
<1>2. JournalInv'
  BY <1>1, JournalStep DEF HistoryWith
<1>3. ASSUME NEW r \in requests, Lose(r) PROVE HistoryInv'
  <2>1. /\ requests' = requests \ {r}
        /\ UNCHANGED <<snapshot, log, window, nextId>>
    BY <1>3 DEF Lose
  <2>2. Asked(requests') \subseteq ops
    BY <1>1, <2>1, SentFacts DEF HistoryWith, JournalInv, Known
  <2>3. \A v \in Windows : /\ PageOf(window'[v], nextId)
                           /\ KnownTo(window'[v]) \subseteq ops
    BY <1>1, <2>1 DEF HistoryWith, Known
  <2> QED
    BY <1>1, <1>2, <2>1, <2>2, <2>3, LogStays, NothingNew
<1>4. CASE UNCHANGED journalVars
  <2>1. UNCHANGED <<snapshot, log, window, requests, nextId>>
    BY <1>4 DEF journalVars
  <2>2. \A v \in Windows : /\ PageOf(window'[v], nextId)
                           /\ KnownTo(window'[v]) \subseteq ops
    BY <1>1, <2>1 DEF HistoryWith, Known
  <2>3. Asked(requests') \subseteq ops
    BY <1>1, <2>1 DEF HistoryWith, Known
  <2> QED
    BY <1>1, <1>2, <2>1, <2>2, <2>3, LogStays, NothingNew
<1> QED
  BY <1>1, <1>2, <1>3, <1>4, WindowHistory, InitializeHistory, AppendHistory,
     CheckpointHistory DEF JournalNext

\* At first nobody knows of any operation.
LEMMA HistoryStart == JournalInit => HistoryInv
<1> SUFFICES ASSUME JournalInit PROVE HistoryInv
  OBVIOUS
<1>1. IsSeq(<<>>) /\ Len(<<>>) = 0 /\ Range(<<>>) = {}
  <2>1. IsSeq(<<>>) /\ Len(<<>>) = 0
    BY EmptySeq DEF IsSeq
  <2>2. DOMAIN <<>> = 1..0
    BY <2>1, SeqFacts
  <2> QED
    BY <2>1, <2>2 DEF Range
<1>2. JournalInv
  BY JournalStart
<1>3. nextId = 1 /\ 1 \in 1..(MaxOps + 1)
  BY JournalAssumption DEF JournalInit
<1>4. PageOf(Closed, 1) /\ KnownTo(Closed) = {}
  BY ClosedPage
<1>5. \A w \in Windows : PageOf(window[w], nextId) /\ KnownTo(window[w]) = {}
  BY <1>3, <1>4 DEF JournalInit
<1>6. Known({})
  <2>1. Asked(requests) = {}
    BY DEF JournalInit, Asked
  <2> QED
    BY <1>1, <1>5, <2>1 DEF Known, JournalInit
<1>7. Kin({}, nextId)
  BY DEF Kin
<1>8. LogFits
  BY <1>1, JournalAssumption DEF JournalInit, LogFits
<1> QED
  BY <1>2, <1>3, <1>5, <1>6, <1>7, <1>8 DEF HistoryInv, HistoryWith

-----------------------------------------------------------------------------
(* What it comes to.                                                       *)

\* What holds of every window says what the type invariant says.
LEMMA InvGivesTypes == HistoryInv => JournalTypeOK
<1> SUFFICES ASSUME NEW ops, HistoryWith(ops) PROVE JournalTypeOK
  BY DEF HistoryInv
<1>1. PICK n \in Nat : /\ n = nextId /\ n >= 1 /\ n <= MaxOps + 1
                       /\ MaxOps \in Nat
  BY JournalAssumption DEF HistoryWith
<1>2. ASSUME NEW doc, DocIn(doc, n) PROVE DocOK(doc)
  <2>1. DOMAIN doc = DOMAIN Seed
    <3>1. DOMAIN doc = {"revision", "cursor", "content"}
      BY <1>2 DEF DocIn
    <3> QED
      BY <3>1 DEF Seed
  <2>2. doc.revision \in Nat /\ doc.cursor \in 0..MaxOps
    BY <1>1, <1>2 DEF DocIn
  <2>3. \A i \in DOMAIN doc.content : doc.content[i] \in 1..MaxOps
    BY <1>2, LenProperties, ElementOfSeq DEF DocIn
  <2> QED
    BY <2>1, <2>2, <2>3 DEF DocOK
<1>3. ASSUME NEW op \in ops PROVE OpOK(op)
  <2>1. Made(op, n)
    BY <1>1 DEF HistoryWith, Kin
  <2>2. op.id \in 1..(n - 1) /\ DocIn(op.before, n) /\ DocIn(op.result, n)
    BY <2>1, MadeFacts DEF Made
  <2>3. op.undoOf \in {0, op.before.cursor} /\ op.before.cursor \in 0..(n - 1)
    BY <2>1 DEF Made, DocIn
  <2>4. op.id \in 1..MaxOps /\ op.undoOf \in 0..MaxOps
    BY <1>1, <2>2, <2>3
  <2> QED
    BY <1>2, <2>2, <2>4 DEF OpOK
<1>4. snapshot = Absent \/ DocOK(snapshot)
  BY <1>1, <1>2 DEF HistoryWith, LogFits
<1>5. \A i \in DOMAIN log : OpOK(log[i])
  BY <1>3 DEF HistoryWith, Known, Range
<1>6. ASSUME NEW w \in Windows
      PROVE  /\ DOMAIN window[w] = DOMAIN Closed
             /\ DocOK(window[w].doc)
             /\ window[w].queued \in 0..MaxQueued
             /\ window[w].queued > 0 => window[w].call # NoCall
  <2>1. PICK v : v = window[w]
    OBVIOUS
  <2>2. PageOf(v, n) /\ Basic(v, n)
    BY <1>1, <2>1, IdlePage, BusyPage DEF HistoryWith, Settled
  <2>3. DOMAIN Closed = Fields
    BY DEF Closed, Fields
  <2>4. v.queued > 0 => v.call # NoCall
    <3>1. v.call = NoCall => v.queued = 0
      BY <2>2, IdlePage
    <3> QED
      BY <3>1
  <2> QED
    BY <1>2, <2>1, <2>2, <2>3, <2>4 DEF Basic
<1>7. \A r \in requests : /\ r.from \in Windows \union {None}
                          /\ r.from # None =>
                                window[r.from].call.what = r.what
  BY DEF HistoryWith, JournalInv, RequestsFit, Fits
<1> QED
  BY <1>4, <1>5, <1>6, <1>7
     DEF JournalTypeOK, HistoryWith, LogFits, JournalInv, WindowsFit

\* And what the property says of what it can undo and redo.
LEMMA InvGivesHistory == HistoryInv => HistoryMatchesLog
<1> SUFFICES ASSUME NEW ops, HistoryWith(ops), NEW w \in Windows,
                    window[w].open, ~ Committing(w)
             PROVE  /\ window[w].undo = Restored(window[w].tail).undo
                    /\ window[w].redo \in {Restored(window[w].tail).redo, <<>>}
                    /\ IsSuffix(Edits(window[w].undo), window[w].doc.content)
                    /\ window[w].redo # <<>> =>
                          Invertible(window[w].doc,
                                     Last(window[w].redo).undone)
  BY DEF HistoryInv, HistoryMatchesLog
<1>1. PICK v : v = window[w]
  OBVIOUS
<1>2. Settled(v, nextId)
  BY <1>1, IdlePage DEF HistoryWith, Committing
<1>3. PICK h : h = Restored(v.tail)
  OBVIOUS
<1>4. /\ HistoryOf(h, v.tail, v.doc) /\ v.undo = h.undo
      /\ v.redo = h.redo \/ v.redo = <<>>
  BY <1>2, <1>3 DEF Settled, Basic
<1>5. IsSuffix(Edits(v.undo), v.doc.content)
  <2>1. IsSeq(v.doc.content)
    BY <1>2 DEF Settled, Basic, DocIn, IsSeq
  <2> QED
    BY <1>4, <2>1, LastEditsAreSuffix DEF HistoryOf
<1>6. v.redo # <<>> => Invertible(v.doc, Last(v.redo).undone)
  <2> SUFFICES ASSUME v.redo # <<>>
               PROVE  Invertible(v.doc, Last(v.redo).undone)
    OBVIOUS
  <2>1. PICK e : v.redo = <<e>> /\ Invertible(v.doc, e.undone)
    BY <1>4 DEF HistoryOf
  <2> QED
    BY <2>1, OneEntry
<1> QED
  BY <1>1, <1>3, <1>4, <1>5, <1>6

\* The journal's rows, the pages and the requests have the shapes they are
\* stored, kept and sent in: every row and every page holds a document that
\* replays, the journal never outgrows MAX_OPERATIONS, and an answer is about
\* what its window asked for.
THEOREM JournalTypes == JournalSpec => []JournalTypeOK
<1>1. HistoryInv /\ [JournalNext]_journalVars => HistoryInv'
  BY HistoryStep
<1> QED
  BY <1>1, HistoryStart, InvGivesTypes, PTL DEF JournalSpec

\* Between two calls a window can undo what it would restore if it were
\* reloaded, these are the last edits of its document, and what it can redo is
\* what it would restore too, unless a commit that failed has emptied it.
THEOREM HistoryIsRestored == JournalSpec => []HistoryMatchesLog
<1>1. HistoryInv /\ [JournalNext]_journalVars => HistoryInv'
  BY HistoryStep
<1> QED
  BY <1>1, HistoryStart, InvGivesHistory, PTL DEF JournalSpec
=============================================================================
