----------------------- MODULE HarnessLifecycleProofs -----------------------
(***************************************************************************)
(* Proofs about HarnessLifecycle, for any runs, calls and adapters.        *)
(*                                                                         *)
(* The types hold whatever hosts share the database.  That what is over    *)
(* stays over, and that the row follows the log, hold in one host: the     *)
(* transaction of a signal asks only for the epoch, and so does the one    *)
(* that fails a run, and neither asks whether the run is still running.    *)
(* They are right because nothing of the same host comes between the       *)
(* checks and the transaction, and that is what the invariants say.  The   *)
(* gate of the approvals needs, besides, adapters that ask once under an   *)
(* id.                                                                     *)
(*                                                                         *)
(* What events add up to is a function defined by recursion over them; the *)
(* induction it takes is over sets of numbers, from the theorem on minimal *)
(* elements of well-founded relations.                                     *)
(***************************************************************************)
EXTENDS HarnessLifecycle, SequenceTheorems, WellFoundedInduction, TLAPS

-----------------------------------------------------------------------------
(* Induction over the naturals, for sets of numbers.                       *)

LEMMA LeastNat ==
    ASSUME NEW T, T \subseteq Nat, T # {}
    PROVE  \E m \in T : \A n \in T : m <= n
<1> DEFINE Less == OpToRel(<, Nat)
<1>1. IsWellFoundedOn(Less, Nat)
  BY NatLessThanWellFounded
<1>2. \A m, n \in Nat : n < m => <<n, m>> \in Less
  BY DEF OpToRel
<1> HIDE DEF Less
<1>3. PICK m \in T : \A n \in T : ~ (<<n, m>> \in Less)
  BY <1>1, WFMin
<1>4. \A n \in T : ~ (n < m)
  BY <1>2, <1>3, Zenon
<1> QED
  BY <1>4

LEMMA EveryNat ==
    ASSUME NEW T, 0 \in T, \A n \in Nat : n \in T => n + 1 \in T
    PROVE  \A n \in Nat : n \in T
<1> SUFFICES ASSUME NEW k \in Nat, k \notin T PROVE FALSE
  OBVIOUS
<1> DEFINE U == Nat \ T
<1>1. PICK m \in U : \A n \in U : m <= n
  BY LeastNat, U \subseteq Nat, U # {}
<1>2. m # 0 /\ m \in Nat
  OBVIOUS
<1>3. m - 1 \in Nat /\ m - 1 \in T
  BY <1>1, <1>2
<1> QED
  BY <1>3, <1>2

-----------------------------------------------------------------------------
(* What a log adds up to.                                                  *)

IsSeq(s) == \E S : s \in Seq(S)

Nothing == [signals |-> <<>>, tokens |-> 0]

\* The sums up to each of the first events.
Sums(f, events, n) ==
    f = [i \in 0..n |-> IF i = 0 THEN Nothing
                         ELSE Counted(f[i - 1], events[i].signal)]

\* There are such sums, for any number of events.
LEMMA SumsExist ==
    ASSUME NEW events
    PROVE  \A n \in Nat : \E f : Sums(f, events, n)
<1> DEFINE T == {n \in Nat : \E f : Sums(f, events, n)}
<1>1. 0 \in T
  <2>1. Sums([i \in 0..0 |-> Nothing], events, 0)
    BY DEF Sums
  <2> QED
    BY <2>1
<1>2. ASSUME NEW n \in Nat, n \in T PROVE n + 1 \in T
  <2>1. PICK f : Sums(f, events, n)
    BY <1>2
  <2> DEFINE g == [i \in 0..(n + 1) |->
                     IF i = n + 1 THEN Counted(f[n], events[n + 1].signal)
                                  ELSE f[i]]
  <2>2. \A i \in 0..(n + 1) :
          g[i] = IF i = 0 THEN Nothing
                 ELSE Counted(g[i - 1], events[i].signal)
    <3> TAKE i \in 0..(n + 1)
    <3>1. CASE i = n + 1
      BY <3>1
    <3>2. CASE i \in 0..n
      BY <3>2, <2>1 DEF Sums
    <3> QED
      BY <3>1, <3>2
  <2>3. Sums(g, events, n + 1)
    BY <2>2 DEF Sums
  <2> QED
    BY <2>3
<1>3. \A n \in Nat : n \in T
  <2> HIDE DEF T
  <2> QED
    BY <1>1, <1>2, EveryNat
<1> QED
  BY <1>3

\* They are determined by the events they are about.
LEMMA SumsAgree ==
    ASSUME NEW f, NEW g, NEW d, NEW e, NEW m \in Nat, NEW n \in Nat, m <= n,
           Sums(f, d, m), Sums(g, e, n), \A i \in 1..m : d[i] = e[i]
    PROVE  \A i \in 0..m : f[i] = g[i]
<1> DEFINE T == {i \in Nat : i <= m => f[i] = g[i]}
<1>1. 0 \in T
  BY DEF Sums
<1>2. ASSUME NEW i \in Nat, i \in T PROVE i + 1 \in T
  <2> SUFFICES ASSUME i + 1 <= m PROVE f[i + 1] = g[i + 1]
    OBVIOUS
  <2>1. f[i] = g[i] /\ d[i + 1] = e[i + 1]
    BY <1>2
  <2>2. f[i + 1] = Counted(f[i], d[i + 1].signal)
    BY i + 1 \in 0..m, i + 1 # 0, i + 1 - 1 = i DEF Sums
  <2>3. g[i + 1] = Counted(g[i], e[i + 1].signal)
    BY i + 1 \in 0..n, i + 1 # 0, i + 1 - 1 = i DEF Sums
  <2> QED
    BY <2>1, <2>2, <2>3
<1>3. \A i \in Nat : i \in T
  <2> HIDE DEF T
  <2> QED
    BY <1>1, <1>2, EveryNat
<1> QED
  BY <1>3

LEMMA TallyIsLast ==
    ASSUME NEW events, IsSeq(events)
    PROVE  \E f : Sums(f, events, Len(events)) /\ Tally(events) = f[Len(events)]
<1> DEFINE g == CHOOSE f : Sums(f, events, Len(events))
<1>1. Sums(g, events, Len(events))
  BY SumsExist, Len(events) \in Nat DEF IsSeq
<1>2. Tally(events) = g[Len(events)]
  BY DEF Tally, Sums, Nothing
<1> QED
  BY <1>1, <1>2

LEMMA TallyOfNothing == Tally(<<>>) = Nothing
<1>1. IsSeq(<<>>) /\ Len(<<>>) = 0
  BY EmptySeq DEF IsSeq
<1> QED
  BY <1>1, TallyIsLast DEF Sums

LEMMA SeqAppend ==
    ASSUME NEW s, IsSeq(s), NEW e
    PROVE  /\ IsSeq(Append(s, e))
           /\ Len(s) \in Nat
           /\ Len(Append(s, e)) = Len(s) + 1
           /\ DOMAIN s = 1..Len(s)
           /\ DOMAIN Append(s, e) = 1..(Len(s) + 1)
           /\ \A i \in 1..Len(s) : Append(s, e)[i] = s[i]
           /\ Append(s, e)[Len(s) + 1] = e
<1>1. PICK S : s \in Seq(S)
  BY DEF IsSeq
<1>2. s \in Seq(S \union {e}) /\ e \in S \union {e}
  BY <1>1
<1>3. Append(s, e) \in Seq(S \union {e})
  BY <1>2
<1> QED
  BY <1>2, <1>3, AppendProperties DEF IsSeq

\* One more event adds what it counts.
LEMMA TallyAppend ==
    ASSUME NEW events, IsSeq(events), NEW e
    PROVE  Tally(Append(events, e)) = Counted(Tally(events), e.signal)
<1>1. SUFFICES ASSUME NEW n \in Nat, n = Len(events),
                      NEW d, d = Append(events, e)
               PROVE  Tally(d) = Counted(Tally(events), e.signal)
  BY SeqAppend
<1>2. /\ IsSeq(d) /\ Len(d) = n + 1 /\ d[n + 1] = e
      /\ \A i \in 1..n : events[i] = d[i]
  BY <1>1, SeqAppend
<1>3. PICK f : Sums(f, events, n) /\ Tally(events) = f[n]
  BY <1>1, TallyIsLast
<1>4. PICK g : Sums(g, d, n + 1) /\ Tally(d) = g[n + 1]
  BY <1>2, TallyIsLast
<1>5. f[n] = g[n]
  BY <1>2, <1>3, <1>4, SumsAgree
<1>6. g[n + 1] = Counted(g[n], d[n + 1].signal)
  BY <1>4, n + 1 \in 0..(n + 1), n + 1 # 0, n + 1 - 1 = n DEF Sums
<1> QED
  BY <1>1, <1>2, <1>3, <1>4, <1>5, <1>6

-----------------------------------------------------------------------------
(* Any hosts: the types.                                                   *)

LogOK(r) ==
    /\ IsSeq(log[r])
    /\ \A i \in DOMAIN log[r] :
          /\ log[r][i].epoch \in 1..run[r].epoch
          /\ log[r][i].signal.kind \in AdapterKinds \union OwnKinds

\* A call is about a run that exists; a session is within what its adapter
\* says, and takes no more tokens than it saw.
Fits(k) ==
    LET r == call[k].run IN
    /\ call[k].at # "idle" => r \in Runs /\ run[r].state # "none"
    /\ call[k].at = "resuming" => call[k].epoch < MaxEpoch
    /\ call[k].at = "controlling" => call[k].target \in {"paused", "stopped"}
    /\ call[k].at = "draining" => call[k].pos \in Nat
    /\ call[k].at = "accepting" =>
          /\ call[k].pos \in 1..Len(script[r])
          /\ call[k].seen.budget \in 0..TokenBudget
          /\ script[r][call[k].pos].tokens \in 0..call[k].seen.budget

CallOK(k) ==
    /\ DOMAIN call[k] = DOMAIN Idle
    /\ call[k].at \in Checked \union {"idle", "draining"}
    /\ call[k].at = "idle" <=> call[k].run = None
    /\ Fits(k)

\* A run that does not exist has said nothing.
Unborn(r) == run[r] = NoRun /\ log[r] = <<>> /\ script[r] = <<>>

RowsInv ==
    /\ DOMAIN run = Runs /\ \A r \in Runs : RowOK(run[r])
    /\ DOMAIN log = Runs /\ \A r \in Runs : LogOK(r)
    /\ script \in [Runs -> Scripts \union {<<>>}]
    /\ \A r \in Runs : run[r].state = "none" => Unborn(r)

CallsInv ==
    /\ DOMAIN call = Callers /\ \A k \in Callers : CallOK(k)
    /\ crashes \in 0..MaxCrashes

HarnessTypeInv == RowsInv /\ CallsInv

LEMMA TypeInvTypes == HarnessTypeInv => HarnessTypeOK
  BY DEF HarnessTypeInv, RowsInv, CallsInv, CallOK, LogOK, HarnessTypeOK

\* What an adapter says.
LEMMA ScriptSays ==
    ASSUME RowsInv, NEW r \in Runs
    PROVE  /\ IsSeq(script[r]) /\ Len(script[r]) \in Nat
           /\ DOMAIN script[r] = 1..Len(script[r])
           /\ \A i \in 1..Len(script[r]) :
                 /\ script[r][i].kind \in AdapterKinds
                 /\ script[r][i].tokens \in Nat
                 /\ script[r][i].kind # "usage" => script[r][i].tokens = 0
<1>1. CASE script[r] \in Scripts
  <2>1. script[r] \in Seq(Range(script[r]))
    BY <1>1, HarnessAssumption
  <2>2. PICK S, s : s \in Seq(S) /\ s = script[r]
    BY <2>1
  <2>3. Len(s) \in Nat /\ DOMAIN s = 1..Len(s)
    OBVIOUS
  <2>4. \A i \in DOMAIN script[r] :
          /\ script[r][i].kind \in AdapterKinds
          /\ script[r][i].tokens
                \in IF script[r][i].kind = "usage" THEN Nat ELSE {0}
    BY <1>1, HarnessAssumption
  <2> QED
    BY <2>1, <2>2, <2>3, <2>4 DEF IsSeq
<1>2. CASE script[r] = <<>>
  BY <1>2, EmptySeq DEF IsSeq
<1> QED
  BY <1>1, <1>2 DEF RowsInv

LEMMA TypeInit == HarnessInit => HarnessTypeInv
<1> SUFFICES ASSUME HarnessInit PROVE HarnessTypeInv
  OBVIOUS
<1>1. IsSeq(<<>>)
  BY EmptySeq DEF IsSeq
<1>2. RowsInv
  BY <1>1, HarnessAssumption
     DEF HarnessInit, RowsInv, RowOK, LogOK, NoRun, RunStates, Unborn
<1>3. CallsInv
  BY HarnessAssumption DEF HarnessInit, CallsInv, CallOK, Fits, Idle
<1> QED
  BY <1>2, <1>3 DEF HarnessTypeInv

\* A step of a call: no run that exists goes away or gets another adapter,
\* and of the other calls nothing changes.
LEMMA CallMoves ==
    ASSUME HarnessTypeInv, NEW k \in Callers,
           \A r \in Runs : run[r].state # "none" =>
              run'[r].state # "none" /\ script'[r] = script[r],
           DOMAIN call' = Callers, CallOK(k)',
           \A j \in Callers \ {k} : call'[j] = call[j],
           UNCHANGED crashes
    PROVE  CallsInv'
<1>1. ASSUME NEW j \in Callers \ {k} PROVE CallOK(j)'
  <2>1. CallOK(j) /\ call'[j] = call[j]
    BY DEF HarnessTypeInv, CallsInv
  <2>2. Fits(j)'
    BY <2>1 DEF CallOK, Fits
  <2> QED
    BY <2>1, <2>2 DEF CallOK
<1> QED
  BY <1>1 DEF HarnessTypeInv, CallsInv

\* One row changes, and its log with it or not.
LEMMA RowMoves ==
    ASSUME RowsInv, NEW r \in Runs, NEW row,
           run' = [run EXCEPT ![r] = row], RowOK(row)', row.state # "none",
           checkpoints \subseteq checkpoints',
           script' \in [Runs -> Scripts \union {<<>>}],
           \A q \in Runs \ {r} : script'[q] = script[q],
           run[r].epoch <= row.epoch,
           \/ UNCHANGED log
           \/ \E epoch, signal :
                 /\ Appended(r, epoch, signal)
                 /\ epoch = row.epoch
                 /\ signal.kind \in AdapterKinds \union OwnKinds
    PROVE  RowsInv'
<1>1. DOMAIN run' = Runs /\ DOMAIN log' = Runs /\ run'[r] = row
      /\ \A q \in Runs \ {r} : run'[q] = run[q] /\ log'[q] = log[q]
  BY DEF RowsInv, Appended
<1>2. ASSUME NEW q \in Runs PROVE RowOK(run[q])'
  BY <1>1 DEF RowsInv, RowOK
<1>3. ASSUME NEW q \in Runs PROVE LogOK(q)'
  <2>1. RowOK(run[r]) /\ LogOK(r) /\ run'[r].epoch \in 1..MaxEpoch
    BY <1>1, <1>2 DEF RowsInv, RowOK
  <2>2. CASE q # r
    BY <1>1, <2>2 DEF LogOK, RowsInv
  <2>3. CASE q = r /\ UNCHANGED log
    BY <1>1, <2>1, <2>3, HarnessAssumption DEF LogOK, RowOK
  <2>4. CASE q = r /\ ~ UNCHANGED log
    <3>1. PICK epoch, signal :
             /\ Appended(r, epoch, signal) /\ epoch = row.epoch
             /\ signal.kind \in AdapterKinds \union OwnKinds
      BY <2>4
    <3>2. PICK old, e : /\ old = log[r]
                        /\ e = [epoch |-> epoch, signal |-> signal]
      OBVIOUS
    <3>3. log'[r] = Append(old, e)
      BY <3>1, <3>2 DEF Appended, RowsInv
    <3>4. IsSeq(old) /\ DOMAIN old = 1..Len(old) /\ Len(old) \in Nat
      BY <2>1, <3>2, SeqAppend DEF LogOK
    <3>5. PICK new : new = log'[r]
      OBVIOUS
    <3>6. /\ IsSeq(new) /\ DOMAIN new = 1..(Len(old) + 1)
          /\ \A i \in 1..Len(old) : new[i] = old[i]
          /\ new[Len(old) + 1] = e
      BY <3>3, <3>4, <3>5, SeqAppend
    <3>7. \A i \in 1..Len(old) :
             /\ new[i].epoch \in 1..run'[r].epoch
             /\ new[i].signal.kind \in AdapterKinds \union OwnKinds
      <4>1. /\ run[r].epoch \in Nat /\ run'[r].epoch \in Nat
            /\ run[r].epoch <= run'[r].epoch
        BY <1>1, <2>1, HarnessAssumption DEF RowOK
      <4>2. \A i \in 1..Len(old) :
               /\ old[i].epoch \in 1..run[r].epoch
               /\ old[i].signal.kind \in AdapterKinds \union OwnKinds
        BY <2>1, <3>2, <3>4 DEF LogOK
      <4> QED
        BY <3>6, <4>1, <4>2
    <3>8. /\ e.epoch \in 1..run'[r].epoch
          /\ e.signal.kind \in AdapterKinds \union OwnKinds
      BY <1>1, <2>1, <3>1, <3>2, HarnessAssumption
    <3>9. \A i \in 1..(Len(old) + 1) : i \in 1..Len(old) \/ i = Len(old) + 1
      BY <3>4
    <3> QED
      BY <2>4, <3>5, <3>6, <3>7, <3>8, <3>9 DEF LogOK
  <2> QED
    BY <2>2, <2>3, <2>4
<1>4. ASSUME NEW q \in Runs, run'[q].state = "none" PROVE Unborn(q)'
  <2>1. q # r /\ Unborn(q)
    BY <1>1, <1>4 DEF RowsInv
  <2> QED
    BY <1>1, <2>1 DEF Unborn
<1> QED
  BY <1>1, <1>2, <1>3, <1>4 DEF RowsInv

\* Nothing changes but calls.
LEMMA RowsStay ==
    ASSUME RowsInv, UNCHANGED rows
    PROVE  RowsInv'
  BY DEF RowsInv, rows, RowOK, LogOK, Unborn

\* The steps of a call that leave the database alone.
LEMMA TypeReads ==
    ASSUME HarnessTypeInv, NEW k \in Callers, UNCHANGED <<rows, crashes>>,
           DOMAIN call' = Callers, CallOK(k)',
           \A j \in Callers \ {k} : call'[j] = call[j]
    PROVE  HarnessTypeInv'
<1>1. RowsInv'
  BY RowsStay DEF HarnessTypeInv
<1>2. UNCHANGED <<run, script, crashes>>
  BY DEF rows
<1> QED
  BY <1>1, <1>2, CallMoves DEF HarnessTypeInv

\* What the row of a run looks like.
LEMMA RowIs ==
    ASSUME RowsInv, NEW r \in Runs
    PROVE  /\ RowOK(run[r]) /\ LogOK(r)
           /\ run[r].epoch \in Nat \ {0} /\ run[r].budget \in Nat
  BY HarnessAssumption DEF RowsInv, RowOK

LEMMA TypeStart ==
    ASSUME HarnessTypeInv, NEW k \in Callers, NEW r \in Runs, Start(k, r)
    PROVE  HarnessTypeInv'
<1>0. PICK row : row = [NoRun EXCEPT !.state = "running",
                                     !.budget = TokenBudget,
                                     !.granted = TokenBudget]
  OBVIOUS
<1>1. /\ call[k].at = "idle" /\ run[r].state = "none"
      /\ run' = [run EXCEPT ![r] = row] /\ Begins(r)
      /\ call' = [call EXCEPT ![k] = [Idle EXCEPT !.at = "opening",
                                                  !.run = r, !.epoch = 1]]
      /\ UNCHANGED <<log, checkpoints, crashes>>
  BY <1>0 DEF Start, Free
<1>2. RowOK(row)' /\ row.epoch = 1 /\ row.state = "running"
  BY <1>0, <1>1, HarnessAssumption DEF RowOK, NoRun, RunStates
<1>3. /\ script' \in [Runs -> Scripts \union {<<>>}]
      /\ \A q \in Runs \ {r} : script'[q] = script[q]
  BY <1>1 DEF Begins, HarnessTypeInv, RowsInv
<1>4. RowsInv /\ run[r].epoch = 1
  BY <1>1 DEF HarnessTypeInv, RowsInv, Unborn, NoRun
<1>5. RowsInv'
  <2>1. /\ checkpoints \subseteq checkpoints' /\ UNCHANGED log
        /\ run[r].epoch <= row.epoch /\ row.state # "none"
    BY <1>1, <1>2, <1>4
  <2> QED
    BY <1>1, <1>2, <1>3, <1>4, <2>1, RowMoves
<1>6. \A q \in Runs : run[q].state # "none" =>
         run'[q].state # "none" /\ script'[q] = script[q]
  BY <1>1, <1>3, <1>4 DEF RowsInv
<1>7. CallOK(k)'
  <2>1. run'[r].state = "running"
    BY <1>1, <1>2, <1>4 DEF RowsInv
  <2>2. call'[k] = [Idle EXCEPT !.at = "opening", !.run = r, !.epoch = 1]
    BY <1>1 DEF HarnessTypeInv, CallsInv
  <2> QED
    BY <2>1, <2>2, HarnessAssumption DEF CallOK, Fits, Idle, Checked
<1> QED
  BY <1>1, <1>5, <1>6, <1>7, CallMoves DEF HarnessTypeInv, CallsInv

LEMMA TypeHandedOver ==
    ASSUME HarnessTypeInv, NEW k \in Callers, NEW child \in Runs,
           HandedOver(k, child)
    PROVE  HarnessTypeInv'
<1>0. PICK r, row :
         /\ r = call[k].run
         /\ row = [NoRun EXCEPT !.state = "queued", !.budget = run[r].budget,
                                !.granted = run[r].budget,
                                !.checkpoint = run[r].checkpoint,
                                !.parent = r]
  OBVIOUS
<1>1. /\ call[k].at = "handing" /\ Return(k)
      /\ UNCHANGED <<log, checkpoints, crashes>>
  BY DEF HandedOver, At
<1>2. r \in Runs /\ RowsInv /\ CallsInv
  BY <1>0, <1>1 DEF HarnessTypeInv, CallsInv, CallOK, Fits
<1>3. CallOK(k)'
  BY <1>1, <1>2 DEF CallsInv, Return, CallOK, Fits, Idle
<1>4. CASE run[child].state = "none" /\ run' = [run EXCEPT ![child] = row]
           /\ Begins(child)
  <2>1. RowOK(row)' /\ row.epoch = 1 /\ row.state = "queued"
    <3>1. RowOK(run[r])
      BY <1>2 DEF RowsInv
    <3> QED
      BY <1>0, <1>1, <1>2, <3>1, HarnessAssumption
         DEF RowOK, NoRun, RunStates
  <2>2. /\ script' \in [Runs -> Scripts \union {<<>>}]
        /\ \A q \in Runs \ {child} : script'[q] = script[q]
    BY <1>2, <1>4 DEF Begins, RowsInv
  <2>3. run[child].epoch = 1
    BY <1>2, <1>4 DEF RowsInv, Unborn, NoRun
  <2>4. RowsInv'
    <3>1. /\ checkpoints \subseteq checkpoints' /\ UNCHANGED log
          /\ run[child].epoch <= row.epoch /\ row.state # "none"
      BY <1>1, <2>1, <2>3
    <3> QED
      BY <1>2, <1>4, <2>1, <2>2, <3>1, RowMoves
  <2>5. \A q \in Runs : run[q].state # "none" =>
           run'[q].state # "none" /\ script'[q] = script[q]
    BY <1>2, <1>4, <2>2 DEF RowsInv
  <2> QED
    BY <1>1, <1>2, <1>3, <2>4, <2>5, CallMoves
       DEF HarnessTypeInv, CallsInv, Return
<1>5. CASE UNCHANGED <<run, script>>
  BY <1>1, <1>2, <1>3, <1>5, TypeReads DEF rows, CallsInv, Return
<1> QED
  BY <1>0, <1>4, <1>5 DEF HandedOver

\* A row that exists changes, and maybe its log.
LEMMA TypeWrites ==
    ASSUME HarnessTypeInv, NEW k \in Callers, NEW r \in Runs, NEW row,
           run[r].state # "none",
           run' = [run EXCEPT ![r] = row], RowOK(row)', row.state # "none",
           run[r].epoch <= row.epoch,
           UNCHANGED <<script, crashes>>, checkpoints \subseteq checkpoints',
           \/ UNCHANGED log
           \/ \E epoch, signal :
                 /\ Appended(r, epoch, signal)
                 /\ epoch = row.epoch
                 /\ signal.kind \in AdapterKinds \union OwnKinds,
           DOMAIN call' = Callers, CallOK(k)',
           \A j \in Callers \ {k} : call'[j] = call[j]
    PROVE  HarnessTypeInv'
<1>1. RowsInv /\ CallsInv /\ script' \in [Runs -> Scripts \union {<<>>}]
  BY DEF HarnessTypeInv, RowsInv
<1>2. RowsInv'
  BY <1>1, RowMoves
<1>3. \A q \in Runs : run[q].state # "none" =>
         run'[q].state # "none" /\ script'[q] = script[q]
  BY <1>1 DEF RowsInv
<1> QED
  BY <1>1, <1>2, <1>3, CallMoves DEF HarnessTypeInv

LEMMA TypeResumed ==
    ASSUME HarnessTypeInv, NEW k \in Callers, Resumed(k)
    PROVE  HarnessTypeInv'
<1>0. PICK r, row :
         /\ r = call[k].run
         /\ row = [run[r] EXCEPT !.state = "running", !.epoch = @ + 1]
  OBVIOUS
<1>1. /\ call[k].at = "resuming"
      /\ UNCHANGED <<log, script, checkpoints, crashes>>
  BY DEF Resumed, At
<1>2. /\ r \in Runs /\ RowsInv /\ CallsInv /\ run[r].state # "none"
      /\ call[k].epoch < MaxEpoch /\ call[k].run # None
  BY <1>0, <1>1, HarnessAssumption DEF HarnessTypeInv, CallsInv, CallOK, Fits
<1>3. CASE /\ run[r].epoch = call[k].epoch
           /\ run' = [run EXCEPT ![r].state = "running", ![r].epoch = @ + 1]
           /\ call' = [call EXCEPT ![k].at = "opening", ![k].epoch = @ + 1]
  <2>1. run' = [run EXCEPT ![r] = row]
    BY <1>0, <1>2, <1>3 DEF RowsInv, RowOK, NoRun
  <2>2. /\ RowOK(row)' /\ row.state = "running"
        /\ run[r].epoch <= row.epoch
    <3>1. RowOK(run[r]) /\ run[r].epoch \in Nat \ {0}
      BY <1>2, RowIs
    <3> QED
      BY <1>0, <1>1, <1>2, <1>3, <3>1, HarnessAssumption
         DEF RowOK, NoRun, RunStates
  <2>3. CallOK(k)'
    <3>1. run'[r].state = "running"
      BY <2>1, <2>2, <1>2 DEF RowsInv
    <3>2. /\ DOMAIN call'[k] = DOMAIN Idle /\ call'[k].at = "opening"
          /\ call'[k].run = r
      BY <1>0, <1>2, <1>3 DEF CallsInv, CallOK, Idle
    <3> QED
      BY <1>0, <1>2, <3>1, <3>2 DEF CallOK, Fits, Checked
  <2> QED
    BY <1>1, <1>2, <1>3, <2>1, <2>2, <2>3, TypeWrites DEF CallsInv
<1>4. CASE UNCHANGED run /\ Return(k)
  <2>1. CallOK(k)'
    BY <1>1, <1>2, <1>4 DEF CallsInv, Return, CallOK, Fits, Idle
  <2> QED
    BY <1>1, <1>2, <1>4, <2>1, TypeReads DEF rows, CallsInv, Return
<1> QED
  BY <1>0, <1>3, <1>4 DEF Resumed

\* What a call that is about a run goes by.
LEMMA CallIs ==
    ASSUME HarnessTypeInv, NEW k \in Callers, call[k].at # "idle"
    PROVE  /\ RowsInv /\ CallsInv
           /\ call[k].run \in Runs /\ call[k].run # None
           /\ run[call[k].run].state # "none"
  BY HarnessAssumption DEF HarnessTypeInv, CallsInv, CallOK, Fits

\* A call that returns, or only goes on.
LEMMA TypeReturns ==
    ASSUME HarnessTypeInv, NEW k \in Callers, Return(k)
    PROVE  /\ DOMAIN call' = Callers /\ CallOK(k)'
           /\ \A j \in Callers \ {k} : call'[j] = call[j]
  BY DEF HarnessTypeInv, CallsInv, Return, CallOK, Fits, Idle

LEMMA TypeBegins ==
    ASSUME HarnessTypeInv, NEW k \in Callers, NEW r \in Runs,
           NEW where \in {"resuming", "controlling", "resolving"},
           NEW target, Begin(k, where, r, target), UNCHANGED <<rows, crashes>>,
           run[r].state # "none",
           where = "resuming" => run[r].epoch < MaxEpoch,
           where = "controlling" => target \in {"paused", "stopped"}
    PROVE  HarnessTypeInv'
<1>1. UNCHANGED run /\ r # None /\ DOMAIN call = Callers
  BY HarnessAssumption DEF rows, HarnessTypeInv, CallsInv
<1>2. call'[k] = [Idle EXCEPT !.at = where, !.run = r,
                              !.epoch = run[r].epoch, !.target = target]
  BY <1>1 DEF Begin
<1>3. CallOK(k)'
  BY <1>1, <1>2 DEF CallOK, Fits, Idle, Checked
<1> QED
  BY <1>1, <1>3, TypeReads DEF Begin

\* A session goes on.
LEMMA TypeMovesOn ==
    ASSUME HarnessTypeInv, NEW k \in Callers, call[k].at # "idle",
           NEW where \in {"draining", "caught", "failing"},
           DOMAIN call' = Callers, DOMAIN call'[k] = DOMAIN Idle,
           call'[k].at = where, call'[k].run = call[k].run,
           run'[call[k].run].state # "none",
           where = "draining" => call'[k].pos \in Nat,
           \A j \in Callers \ {k} : call'[j] = call[j]
    PROVE  CallOK(k)'
<1>1. call'[k].run \in Runs /\ call'[k].run # None
  BY CallIs
<1> QED
  BY <1>1 DEF CallOK, Fits, Checked

LEMMA TypeReceive ==
    ASSUME HarnessTypeInv, NEW k \in Callers, Receive(k)
    PROVE  HarnessTypeInv'
<1>0. PICK r, i : r = call[k].run /\ i = call[k].pos + 1
  OBVIOUS
<1>1. /\ call[k].at = "draining" /\ i - 1 < Len(script[r])
      /\ call' = [call EXCEPT
            ![k].pos = i, ![k].seen = run[r],
            ![k].at = IF LiveSession(k) /\ Acceptable(r, script[r][i])
                      THEN "accepting" ELSE "caught"]
      /\ UNCHANGED <<rows, crashes>>
  <2>1. call[k].pos \in Nat
    BY DEF Receive, At, HarnessTypeInv, CallsInv, CallOK, Fits
  <2> QED
    BY <1>0, <2>1 DEF Receive, At, Next1
<1>2. /\ RowsInv /\ CallsInv /\ r \in Runs /\ r # None
      /\ run[r].state # "none" /\ call[k].pos \in Nat
      /\ DOMAIN call[k] = DOMAIN Idle /\ DOMAIN call = Callers
  <2>1. call[k].at # "idle"
    BY <1>1
  <2> QED
    BY <1>0, <1>1, <2>1, CallIs DEF CallsInv, CallOK, Fits
<1>3. i \in 1..Len(script[r]) /\ UNCHANGED <<run, script>>
  <2>1. Len(script[r]) \in Nat
    BY <1>2, ScriptSays
  <2> QED
    BY <1>0, <1>1, <1>2, <2>1 DEF rows
<1>4. CASE call'[k].at = "caught"
  <2>1. /\ DOMAIN call' = Callers /\ DOMAIN call'[k] = DOMAIN Idle
        /\ call'[k].run = r
        /\ \A j \in Callers \ {k} : call'[j] = call[j]
    BY <1>0, <1>1, <1>2 DEF Idle
  <2>2. CallOK(k)'
    BY <1>2, <1>3, <1>4, <2>1 DEF CallOK, Fits, Checked
  <2> QED
    BY <1>1, <2>1, <2>2, TypeReads
<1>5. CASE call'[k].at = "accepting" /\ Acceptable(r, script[r][i])
  <2>1. /\ DOMAIN call' = Callers /\ DOMAIN call'[k] = DOMAIN Idle
        /\ call'[k].run = r /\ call'[k].pos = i /\ call'[k].seen = run[r]
        /\ \A j \in Callers \ {k} : call'[j] = call[j]
    BY <1>0, <1>1, <1>2 DEF Idle
  <2>2. /\ run[r].budget \in 0..TokenBudget
        /\ script[r][i].tokens \in 0..run[r].budget
    <3>1. run[r].budget \in 0..TokenBudget /\ TokenBudget \in Nat
      BY <1>2, HarnessAssumption DEF RowsInv, RowOK
    <3>2. /\ script[r][i].tokens \in Nat
          /\ script[r][i].kind # "usage" => script[r][i].tokens = 0
      BY <1>2, <1>3, ScriptSays
    <3>3. script[r][i].kind = "usage" => script[r][i].tokens <= run[r].budget
      BY <1>5 DEF Acceptable
    <3> QED
      BY <3>1, <3>2, <3>3
  <2>3. CallOK(k)'
    BY <1>2, <1>3, <1>5, <2>1, <2>2 DEF CallOK, Fits, Checked
  <2> QED
    BY <1>1, <2>1, <2>3, TypeReads
<1>6. \/ call'[k].at = "caught"
      \/ call'[k].at = "accepting" /\ Acceptable(r, script[r][i])
  BY <1>1, <1>2 DEF Idle
<1> QED
  BY <1>4, <1>5, <1>6

\* A step that writes into the run of its call and returns.
LEMMA TypeWritesOwn ==
    ASSUME HarnessTypeInv, NEW k \in Callers, call[k].at # "idle",
           Return(k), UNCHANGED <<script, checkpoints, crashes>>,
           NEW state \in RunStates \ {"none"}, NEW signal,
           signal.kind \in AdapterKinds \union OwnKinds,
           run[call[k].run].epoch = call[k].epoch,
           run' = [run EXCEPT ![call[k].run].state = state],
           Appended(call[k].run, call[k].epoch, signal)
    PROVE  HarnessTypeInv'
<1>0. PICK r, row : r = call[k].run /\ row = [run[r] EXCEPT !.state = state]
  OBVIOUS
<1>1. RowsInv /\ r \in Runs /\ run[r].state # "none"
  BY <1>0, CallIs
<1>2. RowOK(run[r]) /\ run[r].epoch \in Nat \ {0}
  BY <1>1, RowIs
<1>3. /\ RowOK(row)' /\ row.state # "none" /\ row.epoch = run[r].epoch
      /\ run' = [run EXCEPT ![r] = row]
  BY <1>0, <1>1, <1>2 DEF RowOK, NoRun
<1>4. Appended(r, row.epoch, signal)
  BY <1>0, <1>3
<1>5. run[r].epoch <= row.epoch /\ checkpoints \subseteq checkpoints'
  BY <1>2, <1>3
<1> QED
  BY <1>1, <1>3, <1>4, <1>5, TypeReturns, TypeWrites

LEMMA TypeAccept ==
    ASSUME HarnessTypeInv, NEW k \in Callers, Accept(k)
    PROVE  HarnessTypeInv'
<1>0. PICK r, s, seen :
         r = call[k].run /\ s = script[r][call[k].pos] /\ seen = call[k].seen
  OBVIOUS
<1>1. call[k].at = "accepting" /\ UNCHANGED <<script, crashes>>
  BY DEF Accept, At
<1>2. /\ RowsInv /\ CallsInv /\ r \in Runs /\ r # None
      /\ run[r].state # "none"
      /\ call[k].pos \in 1..Len(script[r])
      /\ seen.budget \in 0..TokenBudget /\ s.tokens \in 0..seen.budget
  <2>1. call[k].at # "idle"
    BY <1>1
  <2> QED
    BY <1>0, <1>1, <2>1, CallIs DEF CallsInv, CallOK, Fits
<1>3. s.kind \in AdapterKinds
  BY <1>0, <1>2, ScriptSays
<1>4. /\ DOMAIN call = Callers /\ DOMAIN call[k] = DOMAIN Idle
      /\ RowOK(run[r]) /\ run[r].epoch \in Nat \ {0}
  BY <1>2, RowIs DEF CallsInv, CallOK
<1>5. ASSUME NEW where \in {"draining", "caught"}, Now(k, where),
             run'[r].state # "none", call[k].pos \in Nat
      PROVE  /\ DOMAIN call' = Callers /\ CallOK(k)'
             /\ \A j \in Callers \ {k} : call'[j] = call[j]
  <2>1. /\ DOMAIN call' = Callers /\ DOMAIN call'[k] = DOMAIN Idle
        /\ call'[k].at = where /\ call'[k].run = r
        /\ call'[k].pos = call[k].pos
        /\ \A j \in Callers \ {k} : call'[j] = call[j]
    BY <1>0, <1>4, <1>5 DEF Now, Idle
  <2> QED
    BY <1>2, <1>5, <2>1 DEF CallOK, Fits, Checked
<1>6. call[k].pos \in Nat
  <2>1. Len(script[r]) \in Nat
    BY <1>2, ScriptSays
  <2> QED
    BY <1>2, <2>1
<1>7. CASE Now(k, "caught") /\ UNCHANGED <<run, log, checkpoints>>
  BY <1>1, <1>2, <1>5, <1>6, <1>7, TypeReads DEF rows
<1>8. CASE /\ Appended(r, call[k].epoch, s)
           /\ run[r].epoch = call[k].epoch
           /\ run' = [run EXCEPT ![r] = After(@, seen, s)]
           /\ checkpoints' = IF s.kind = "checkpoint"
                             THEN checkpoints \union {s.about}
                             ELSE checkpoints
           /\ Return(k) \/ Now(k, "draining")
  <2>1. PICK row : row = After(run[r], seen, s)
    OBVIOUS
  <2>2. run' = [run EXCEPT ![r] = row]
    BY <1>2, <1>8, <2>1 DEF RowsInv
  <2>3. /\ RowOK(row)' /\ row.state # "none" /\ row.epoch = run[r].epoch
    <3>1. CASE row = run[r]
      BY <1>2, <1>4, <1>8, <3>1 DEF RowOK
    <3>2. CASE row = [run[r] EXCEPT
                       !.state = Boundary(s), !.cursor = @ + 1,
                       !.budget = seen.budget - s.tokens,
                       !.checkpoint = IF s.kind = "checkpoint" THEN s.about
                                      ELSE @]
      <4>1. Boundary(s) \in RunStates \ {"none"}
        BY DEF Boundary, RunStates
      <4>2. seen.budget - s.tokens \in 0..TokenBudget
        BY <1>2, HarnessAssumption
      <4>3. (IF s.kind = "checkpoint" THEN s.about ELSE run[r].checkpoint)
               \in checkpoints' \union {"none"}
        BY <1>4, <1>8 DEF RowOK
      <4> QED
        BY <1>4, <3>2, <4>1, <4>2, <4>3 DEF RowOK, NoRun
    <3> QED
      BY <2>1, <3>1, <3>2 DEF After
  <2>4. /\ DOMAIN call' = Callers /\ CallOK(k)'
        /\ \A j \in Callers \ {k} : call'[j] = call[j]
    <3>1. run'[r].state # "none"
      BY <1>2, <2>2, <2>3 DEF RowsInv
    <3> QED
      BY <1>5, <1>6, <1>8, <3>1, TypeReturns
  <2>5. Appended(r, row.epoch, s)
    BY <1>8, <2>3
  <2>6. run[r].epoch <= row.epoch /\ checkpoints \subseteq checkpoints'
    BY <1>4, <1>8, <2>3
  <2> QED
    BY <1>1, <1>2, <1>3, <2>2, <2>3, <2>4, <2>5, <2>6, TypeWrites
<1> QED
  BY <1>0, <1>7, <1>8 DEF Accept

\* The steps of a call.
LEMMA TypeCall ==
    ASSUME HarnessTypeInv, NEW k \in Callers, Call(k)
    PROVE  HarnessTypeInv'
<1>1. CASE \E r \in Runs : Start(k, r) \/ HandedOver(k, r)
  BY <1>1, TypeStart, TypeHandedOver
<1>2. CASE \E r \in Runs : Resume(k, r)
  BY <1>2, TypeBegins DEF Resume
<1>3. CASE \E r \in Runs, target \in {"paused", "stopped"} :
              Control(k, r, target)
  BY <1>3, TypeBegins DEF Control
<1>4. CASE \E r \in Runs, decision \in {"approved", "rejected"} :
              ResolveApproval(k, r, decision)
  BY <1>4, TypeBegins DEF ResolveApproval
<1>5. CASE \E r \in Runs : CreateHandoff(k, r)
  <2>1. PICK r \in Runs : CreateHandoff(k, r)
    BY <1>5
  <2>2. r # None /\ DOMAIN call = Callers /\ run[r].state = "completed"
    BY <2>1, HarnessAssumption DEF CreateHandoff, HarnessTypeInv, CallsInv
  <2>3. CallOK(k)' /\ DOMAIN call' = Callers /\ UNCHANGED <<rows, crashes>>
        /\ \A j \in Callers \ {k} : call'[j] = call[j]
    BY <2>1, <2>2 DEF CreateHandoff, CallOK, Fits, Idle, Checked, rows
  <2> QED
    BY <2>3, TypeReads
<1>6. CASE Resumed(k)
  BY <1>6, TypeResumed
<1>7. CASE Controlled(k)
  <2>1. call[k].at # "idle" /\ Return(k)
        /\ UNCHANGED <<script, checkpoints, crashes>>
    BY <1>7 DEF Controlled, At
  <2>2. CASE UNCHANGED <<run, log>>
    BY <2>1, <2>2, TypeReturns, TypeReads DEF rows
  <2>3. CASE ~ UNCHANGED <<run, log>>
    <3>1. PICK r, target : r = call[k].run /\ target = call[k].target
      OBVIOUS
    <3>2. /\ run[r].epoch = call[k].epoch
          /\ run' = [run EXCEPT ![r].state = target]
          /\ Appended(r, call[k].epoch, Signal(Controls(target), "none", 0))
      BY <1>7, <2>3, <3>1 DEF Controlled
    <3>3. target \in {"paused", "stopped"}
      BY <1>7, <3>1 DEF Controlled, At, HarnessTypeInv, CallsInv, CallOK, Fits
    <3>4. /\ Signal(Controls(target), "none", 0).kind
                \in AdapterKinds \union OwnKinds
          /\ target \in RunStates \ {"none"}
      BY <3>3 DEF Signal, Controls, OwnKinds, RunStates
    <3> QED
      BY <2>1, <3>1, <3>2, <3>4, TypeWritesOwn
  <2> QED
    BY <2>2, <2>3
<1>8. CASE ApprovalResolved(k)
  <2>1. call[k].at # "idle" /\ Return(k)
        /\ UNCHANGED <<script, checkpoints, crashes>>
    BY <1>8 DEF ApprovalResolved, Resolves, At
  <2>2. CASE UNCHANGED <<run, log>>
    BY <2>1, <2>2, TypeReturns, TypeReads DEF rows
  <2>3. CASE ~ UNCHANGED <<run, log>>
    <3>1. PICK r, state :
             /\ r = call[k].run
             /\ state = IF call[k].target = "approved" THEN "paused"
                                                       ELSE "stopped"
      OBVIOUS
    <3>2. PICK about :
             /\ run[r].epoch = call[k].epoch
             /\ run' = [run EXCEPT ![r].state = state]
             /\ Appended(r, call[k].epoch, Signal("approval.resolved", about, 0))
      BY <1>8, <2>3, <3>1 DEF ApprovalResolved, Resolves
    <3>3. /\ Signal("approval.resolved", about, 0).kind
                \in AdapterKinds \union OwnKinds
          /\ state \in RunStates \ {"none"}
      BY <3>1 DEF Signal, OwnKinds, RunStates
    <3> QED
      BY <2>1, <3>1, <3>2, <3>3, TypeWritesOwn
  <2> QED
    BY <2>2, <2>3
<1>9. CASE Open(k)
  <2>1. /\ call[k].at = "opening" /\ UNCHANGED <<rows, crashes>>
        /\ call' = [call EXCEPT ![k].at = "draining",
                                ![k].pos = run[call[k].run].cursor]
    BY <1>9 DEF Open, At
  <2>2. /\ call[k].at # "idle" /\ DOMAIN call = Callers
        /\ DOMAIN call[k] = DOMAIN Idle
    BY <2>1 DEF HarnessTypeInv, CallsInv, CallOK
  <2>3. run[call[k].run].cursor \in Nat /\ run[call[k].run].state # "none"
    BY <2>2, CallIs DEF RowsInv, RowOK
  <2>4. /\ DOMAIN call' = Callers /\ DOMAIN call'[k] = DOMAIN Idle
        /\ call'[k].at = "draining" /\ call'[k].run = call[k].run
        /\ call'[k].pos \in Nat /\ UNCHANGED run
        /\ \A j \in Callers \ {k} : call'[j] = call[j]
    BY <2>1, <2>2, <2>3 DEF Idle, rows
  <2> QED
    BY <2>1, <2>2, <2>3, <2>4, TypeMovesOn, TypeReads
<1>10. CASE Receive(k)
  BY <1>10, TypeReceive
<1>11. CASE SessionFails(k)
  <2>1. /\ call[k].at = "draining" /\ Now(k, "caught")
        /\ UNCHANGED <<rows, crashes>>
    BY <1>11 DEF SessionFails, At
  <2>2. /\ call[k].at # "idle" /\ DOMAIN call = Callers
        /\ DOMAIN call[k] = DOMAIN Idle
    BY <2>1 DEF HarnessTypeInv, CallsInv, CallOK
  <2>3. /\ DOMAIN call' = Callers /\ DOMAIN call'[k] = DOMAIN Idle
        /\ call'[k].at = "caught" /\ call'[k].run = call[k].run
        /\ UNCHANGED run /\ \A j \in Callers \ {k} : call'[j] = call[j]
    BY <2>1, <2>2 DEF Idle, Now, rows
  <2> QED
    BY <2>1, <2>2, <2>3, CallIs, TypeMovesOn, TypeReads
<1>12. CASE SessionEnds(k)
  BY <1>12, TypeReturns, TypeReads DEF SessionEnds
<1>13. CASE Accept(k)
  BY <1>13, TypeAccept
<1>14. CASE Catch(k)
  <2>1. call[k].at = "caught" /\ UNCHANGED <<rows, crashes>>
    BY <1>14 DEF Catch, At
  <2>2. /\ call[k].at # "idle" /\ DOMAIN call = Callers
        /\ DOMAIN call[k] = DOMAIN Idle
    BY <2>1 DEF HarnessTypeInv, CallsInv, CallOK
  <2>3. CASE Now(k, "failing")
    <3>1. /\ DOMAIN call' = Callers /\ DOMAIN call'[k] = DOMAIN Idle
          /\ call'[k].at = "failing" /\ call'[k].run = call[k].run
          /\ UNCHANGED run /\ \A j \in Callers \ {k} : call'[j] = call[j]
      BY <2>1, <2>2, <2>3 DEF Idle, Now, rows
    <3> QED
      BY <2>1, <2>2, <3>1, CallIs, TypeMovesOn, TypeReads
  <2>4. CASE Return(k)
    BY <2>1, <2>4, TypeReturns, TypeReads
  <2> QED
    BY <1>14, <2>3, <2>4 DEF Catch
<1>15. CASE FailRun(k)
  <2>1. call[k].at # "idle" /\ Return(k)
        /\ UNCHANGED <<script, checkpoints, crashes>>
    BY <1>15 DEF FailRun, At
  <2>2. CASE UNCHANGED <<run, log>>
    BY <2>1, <2>2, TypeReturns, TypeReads DEF rows
  <2>3. CASE ~ UNCHANGED <<run, log>>
    <3>1. /\ Signal("provider.failed", "none", 0).kind
                \in AdapterKinds \union OwnKinds
          /\ "failed" \in RunStates \ {"none"}
      BY DEF Signal, OwnKinds, RunStates
    <3> QED
      BY <1>15, <2>1, <2>3, <3>1, TypeWritesOwn DEF FailRun
  <2> QED
    BY <2>2, <2>3
<1> QED
  BY <1>1, <1>2, <1>3, <1>4, <1>5, <1>6, <1>7, <1>8, <1>9, <1>10, <1>11,
     <1>12, <1>13, <1>14, <1>15 DEF Call, Drain

LEMMA TypeStep ==
    ASSUME HarnessTypeInv, [HarnessNext]_harnessVars
    PROVE  HarnessTypeInv'
<1>1. CASE \E k \in Callers : Call(k)
  BY <1>1, TypeCall
<1>2. CASE \E h \in {HostOf[k] : k \in Callers} : Crash(h)
  <2>1. /\ UNCHANGED rows /\ DOMAIN call' = Callers
        /\ \A k \in Callers : call'[k] \in {Idle, call[k]}
        /\ crashes' \in 0..MaxCrashes
    BY <1>2, HarnessAssumption DEF Crash, HarnessTypeInv, CallsInv
  <2>2. ASSUME NEW k \in Callers PROVE CallOK(k)'
    <3>1. UNCHANGED <<run, script>> /\ CallOK(k)
      BY <2>1 DEF rows, HarnessTypeInv, CallsInv
    <3> QED
      BY <2>1, <3>1 DEF CallOK, Fits, Idle
  <2> QED
    BY <2>1, <2>2, RowsStay DEF HarnessTypeInv, CallsInv
<1>3. CASE UNCHANGED harnessVars
  BY <1>3, RowsStay
     DEF HarnessTypeInv, CallsInv, CallOK, Fits, harnessVars, rows
<1> QED
  BY <1>1, <1>2, <1>3 DEF HarnessNext

\* Whatever hosts share the database, rows, log and calls stay of their types:
\* no row's epoch exceeds its bound, no budget goes below nothing, no event is
\* of an epoch its run has not reached.
THEOREM HarnessTypes == HarnessSpec => []HarnessTypeOK
<1>1. HarnessTypeInv /\ [HarnessNext]_harnessVars => HarnessTypeInv'
  BY TypeStep
<1> QED
  BY <1>1, TypeInit, TypeInvTypes, PTL DEF HarnessSpec

-----------------------------------------------------------------------------
(* One host.                                                               *)

\* All calls are in one process.
OneHost == \A j, k \in Callers : HostOf[j] = HostOf[k]

\* The shape of the rows, the log and the calls.
Shape ==
    /\ DOMAIN run = Runs /\ DOMAIN log = Runs /\ DOMAIN call = Callers
    /\ \A k \in Callers :
          {"at", "run", "epoch", "pos", "target", "seen"}
             \subseteq DOMAIN call[k]

\* One call at most has checked and not changed anything yet.
OneCheck ==
    \A j, k \in Callers :
        call[j].at \in Checked /\ call[k].at \in Checked => j = k

\* A session that is about to write into its run is the one of a run that is
\* running.
WritersLive ==
    \A k \in Callers :
        call[k].at \in {"accepting", "failing"} => LiveSession(k)

SessionInv == Shape /\ OneCheck /\ WritersLive

-----------------------------------------------------------------------------
\* The invariant holds at first, when there is no call.
LEMMA SessionInit == HarnessInit => SessionInv
  BY DEF HarnessInit, SessionInv, Shape, OneCheck, WritersLive, Idle, Checked

\* A call that goes on leaves the others alone; of its own place it is enough
\* to know that it writes only into a run that is running.
LEMMA OneMoves ==
    ASSUME OneHost, SessionInv, NEW k \in Callers, Alone(k),
           DOMAIN run' = Runs, DOMAIN log' = Runs, DOMAIN call' = Callers,
           \A j \in Callers \ {k} : call'[j] = call[j],
           {"at", "run", "epoch", "pos", "target", "seen"}
              \subseteq DOMAIN call'[k],
           call'[k].at \in {"accepting", "failing"} => LiveSession(k)'
    PROVE  SessionInv'
<1>1. \A j \in Callers \ {k} : call[j].at \notin Checked
  BY DEF OneHost, Alone
<1>2. Shape'
  BY DEF SessionInv, Shape
<1>3. OneCheck'
  BY <1>1 DEF OneCheck
<1>4. WritersLive'
  BY <1>1 DEF WritersLive, Checked
<1> QED
  BY <1>2, <1>3, <1>4 DEF SessionInv

\* The steps of a call.
LEMMA CallStep ==
    ASSUME OneHost, SessionInv, NEW k \in Callers, Call(k)
    PROVE  SessionInv'
<1> USE DEF SessionInv, Shape, rows, Idle, Return, Now, At, Free, Appended
<1>1. ASSUME NEW r \in Runs, Start(k, r) PROVE SessionInv'
  BY <1>1, OneMoves DEF Start
<1>2. ASSUME NEW r \in Runs, Resume(k, r) PROVE SessionInv'
  BY <1>2, OneMoves DEF Resume, Begin
<1>3. ASSUME NEW r \in Runs, CreateHandoff(k, r) PROVE SessionInv'
  BY <1>3, OneMoves DEF CreateHandoff
<1>4. ASSUME NEW r \in Runs, HandedOver(k, r) PROVE SessionInv'
  BY <1>4, OneMoves DEF HandedOver
<1>5. ASSUME NEW r \in Runs, NEW target \in {"paused", "stopped"},
             Control(k, r, target)
      PROVE  SessionInv'
  BY <1>5, OneMoves DEF Control, Begin
<1>6. ASSUME NEW r \in Runs, NEW decision \in {"approved", "rejected"},
             ResolveApproval(k, r, decision)
      PROVE  SessionInv'
  BY <1>6, OneMoves DEF ResolveApproval, Begin
<1>7. CASE Resumed(k)
  BY <1>7, OneMoves DEF Resumed
<1>8. CASE Controlled(k)
  BY <1>8, OneMoves DEF Controlled
<1>9. CASE ApprovalResolved(k)
  BY <1>9, OneMoves DEF ApprovalResolved, Resolves
<1>10. CASE Open(k)
  BY <1>10, OneMoves DEF Open
<1>11. CASE Receive(k)
  <2>1. /\ Alone(k) /\ UNCHANGED <<run, log>> /\ DOMAIN call' = Callers
        /\ \A j \in Callers \ {k} : call'[j] = call[j]
        /\ DOMAIN call'[k] = DOMAIN call[k]
        /\ call'[k].run = call[k].run /\ call'[k].epoch = call[k].epoch
        /\ call'[k].at \in {"accepting", "failing"} => LiveSession(k)
    BY <1>11 DEF Receive
  <2>2. call'[k].at \in {"accepting", "failing"} => LiveSession(k)'
    BY <2>1 DEF LiveSession
  <2> QED
    BY <2>1, <2>2, OneMoves
<1>12. CASE SessionFails(k)
  BY <1>12, OneMoves DEF SessionFails
<1>13. CASE SessionEnds(k)
  BY <1>13, OneMoves DEF SessionEnds
<1>14. CASE Accept(k)
  BY <1>14, OneMoves DEF Accept
<1>15. CASE Catch(k)
  <2>1. /\ Alone(k) /\ UNCHANGED <<run, log>> /\ DOMAIN call' = Callers
        /\ \A j \in Callers \ {k} : call'[j] = call[j]
        /\ {"at", "run", "epoch", "pos", "target", "seen"}
              \subseteq DOMAIN call'[k]
        /\ call'[k].at \in {"accepting", "failing"} =>
              /\ LiveSession(k)
              /\ call'[k].run = call[k].run /\ call'[k].epoch = call[k].epoch
    BY <1>15 DEF Catch
  <2>2. call'[k].at \in {"accepting", "failing"} => LiveSession(k)'
    BY <2>1 DEF LiveSession
  <2> QED
    BY <2>1, <2>2, OneMoves
<1>16. CASE FailRun(k)
  BY <1>16, OneMoves DEF FailRun
<1> QED
  BY <1>1, <1>2, <1>3, <1>4, <1>5, <1>6, <1>7, <1>8, <1>9, <1>10, <1>11,
     <1>12, <1>13, <1>14, <1>15, <1>16 DEF Call, Drain

\* Every step preserves the invariant.
LEMMA SessionStep ==
    ASSUME OneHost, SessionInv, [HarnessNext]_harnessVars
    PROVE  SessionInv'
<1>1. CASE \E k \in Callers : Call(k)
  BY <1>1, CallStep
<1>2. CASE \E h \in {HostOf[k] : k \in Callers} : Crash(h)
  <2>1. \A k \in Callers : call'[k] = Idle
    BY <1>2 DEF Crash, OneHost
  <2>2. UNCHANGED <<run, log>> /\ DOMAIN call' = Callers
    BY <1>2 DEF Crash, rows
  <2> QED
    BY <2>1, <2>2 DEF SessionInv, Shape, OneCheck, WritersLive, Idle, Checked
<1>3. CASE UNCHANGED harnessVars
  BY <1>3 DEF SessionInv, Shape, OneCheck, WritersLive, LiveSession,
     harnessVars
<1> QED
  BY <1>1, <1>2, <1>3 DEF HarnessNext

\* What a step of a call changes is not over.
LEMMA OverStays ==
    ASSUME SessionInv, [HarnessNext]_harnessVars,
           NEW r \in Runs, run[r].state \in {"completed", "failed", "stopped"}
    PROVE  run'[r] = run[r] /\ log'[r] = log[r]
<1> USE DEF SessionInv, Shape
<1>1. ASSUME NEW k \in Callers, Call(k)
      PROVE  run'[r] = run[r] /\ log'[r] = log[r]
  <2>1. ASSUME NEW q \in Runs, Start(k, q) \/ HandedOver(k, q)
        PROVE  run'[r] = run[r] /\ log'[r] = log[r]
    BY <2>1 DEF Start, HandedOver
  <2>2. ASSUME NEW q \in Runs, Resume(k, q) \/ CreateHandoff(k, q)
               \/ (\E target \in {"paused", "stopped"} : Control(k, q, target))
               \/ (\E decision \in {"approved", "rejected"} :
                      ResolveApproval(k, q, decision))
        PROVE  run'[r] = run[r] /\ log'[r] = log[r]
    BY <2>2 DEF Resume, CreateHandoff, Control, ResolveApproval, rows
  <2>3. CASE Resumed(k)
    BY <2>3 DEF Resumed
  <2>4. CASE Controlled(k)
    BY <2>4 DEF Controlled, Appended, Final
  <2>5. CASE ApprovalResolved(k)
    BY <2>5 DEF ApprovalResolved, Resolves, Appended
  <2>6. CASE Accept(k)
    BY <2>6 DEF Accept, At, Appended, WritersLive, LiveSession
  <2>7. CASE FailRun(k)
    BY <2>7 DEF FailRun, At, Appended, WritersLive, LiveSession
  <2>8. CASE \/ Open(k) \/ Receive(k) \/ SessionFails(k) \/ SessionEnds(k)
             \/ Catch(k)
    BY <2>8 DEF Open, Receive, SessionFails, SessionEnds, Catch, rows
  <2> QED
    BY <1>1, <2>1, <2>2, <2>3, <2>4, <2>5, <2>6, <2>7, <2>8 DEF Call, Drain
<1>2. CASE UNCHANGED <<run, log>>
  BY <1>2
<1> QED
  BY <1>1, <1>2 DEF HarnessNext, Crash, rows, harnessVars

\* In one host, a run that is over stays as it is: no late session and no late
\* call moves its row or its log, although their transactions do not ask.
THEOREM OverInOneHost == OneHost => (HarnessSpec => OverIsOver)
<1> SUFFICES ASSUME OneHost PROVE HarnessSpec => OverIsOver
  OBVIOUS
<1>1. SessionInv /\ [HarnessNext]_harnessVars => SessionInv'
  BY SessionStep
<1>2. SessionInv /\ [HarnessNext]_harnessVars =>
        [\A r \in Runs : run[r].state \in {"completed", "failed", "stopped"} =>
            run'[r] = run[r] /\ log'[r] = log[r]]_harnessVars
  BY OverStays
<1> QED
  BY <1>1, <1>2, SessionInit, PTL DEF HarnessSpec, OverIsOver

-----------------------------------------------------------------------------
(* One host: the row follows the log.                                      *)

Sessions == {"opening", "draining", "caught", "accepting", "failing"}

\* A session is of its run's epoch or of an earlier one; the current one goes
\* on where the row's cursor is, and what it saw of the row is still so.
SessionOK(k) ==
    LET r == call[k].run IN
    /\ call[k].at \in Sessions =>
          call[k].epoch \in Nat /\ call[k].epoch <= run[r].epoch
    /\ call[k].at = "draining" /\ LiveSession(k) => call[k].pos = run[r].cursor
    /\ call[k].at = "accepting" =>
          /\ call[k].pos = run[r].cursor + 1 /\ call[k].seen = run[r]
          /\ \A q, s : q = r /\ s = script[q][call[k].pos] => Acceptable(q, s)

\* No two sessions of one epoch of a run.
OneSession ==
    \A j, k \in Callers :
        /\ call[j].at \in Sessions /\ call[k].at \in Sessions
        /\ call[j].run = call[k].run /\ call[j].epoch = call[k].epoch
        => j = k

Follows(r) ==
    /\ run[r].cursor <= Len(script[r])
    /\ Tally(log[r]).tokens \in Nat
    /\ Tally(log[r]).signals = SubSeq(script[r], 1, run[r].cursor)
    /\ run[r].budget + Tally(log[r]).tokens = run[r].granted
    /\ \A i, j \in DOMAIN log[r] :
          i < j => log[r][i].epoch <= log[r][j].epoch

FollowInv ==
    /\ \A k \in Callers : SessionOK(k)
    /\ OneSession
    /\ \A r \in Runs : Follows(r)

\* What a step of a call may do to a run.
Stays(r) == run'[r] = run[r] /\ log'[r] = log[r] /\ script'[r] = script[r]

\* It begins, here or as what another was handed over to.
Comes(r) ==
    /\ Unborn(r) /\ log'[r] = <<>> /\ script'[r] \in Scripts
    /\ run'[r].state \in {"running", "queued"}
    /\ run'[r].epoch = 1 /\ run'[r].cursor = 0
    /\ run'[r].budget = run'[r].granted /\ run'[r].budget \in Nat

GoesOn(k, r) ==
    /\ call[k].at = "resuming" /\ call[k].run = r
    /\ run[r].epoch = call[k].epoch /\ run[r].state \in {"paused", "queued"}
    /\ run'[r] = [run[r] EXCEPT !.state = "running", !.epoch = @ + 1]
    /\ log'[r] = log[r] /\ script'[r] = script[r]

\* The harness, and not the adapter, moves it and says so.
Moved(r, state, signal) ==
    /\ run'[r] = [run[r] EXCEPT !.state = state]
    /\ log'[r] = Append(log[r], [epoch |-> run[r].epoch, signal |-> signal])
    /\ script'[r] = script[r]
    /\ signal.kind \in OwnKinds /\ signal.tokens = 0

Pauses(k, r) ==
    /\ run[r].state \notin Final
    /\ \E target \in {"paused", "stopped"} :
          Moved(r, target, Signal(Controls(target), "none", 0))

Decides(k, r) ==
    /\ call[k].at = "resolving" /\ run[r].state = "awaiting-approval"
    /\ \E i \in LatestAsk(r) :
          LET approved == call[k].target = "approved" IN
          Moved(r, IF approved THEN "paused" ELSE "stopped",
                Signal("approval.resolved",
                       [id |-> log[r][i].signal.about.id,
                        approved |-> approved], 0))

Fails(k, r) ==
    /\ call[k].at = "failing" /\ call[k].run = r
    /\ Moved(r, "failed", Signal("provider.failed", "none", 0))

\* A signal of the adapter is taken.
Takes(k, r, s) ==
    /\ call[k].at = "accepting" /\ call[k].run = r /\ LiveSession(k)
    /\ call[k].pos \in 1..Len(script[r]) /\ s = script[r][call[k].pos]
    /\ call[k].seen.budget \in Nat /\ s.tokens \in 0..call[k].seen.budget
    /\ call[k].seen.epoch = run[r].epoch =>
          run'[r] = [run[r] EXCEPT
                       !.state = Boundary(s), !.cursor = @ + 1,
                       !.budget = call[k].seen.budget - s.tokens,
                       !.checkpoint = IF s.kind = "checkpoint" THEN s.about
                                      ELSE @]
    /\ log'[r] = Append(log[r], [epoch |-> run[r].epoch, signal |-> s])
    /\ script'[r] = script[r]

Changes(k, r) ==
    \/ Stays(r) \/ Comes(r) \/ GoesOn(k, r)
    \/ Pauses(k, r) \/ Decides(k, r) \/ Fails(k, r)
    \/ \E s : Takes(k, r, s)

\* Of the runs a step changes one at most, and in one of these ways.
LEMMA RunChanges ==
    ASSUME HarnessTypeInv, SessionInv, NEW k \in Callers, Call(k),
           NEW r \in Runs
    PROVE  Changes(k, r)
<1>1. /\ RowsInv /\ CallsInv /\ DOMAIN run = Runs /\ DOMAIN log = Runs
      /\ script \in [Runs -> Scripts \union {<<>>}]
  BY DEF HarnessTypeInv, RowsInv
<1>2. CASE \E q \in Runs : Start(k, q)
  <2>1. PICK q \in Runs : Start(k, q)
    BY <1>2
  <2>2. CASE q = r
    <3>1. Unborn(r)
      BY <1>1, <2>1, <2>2 DEF Start, RowsInv
    <3>2. run'[r] = [NoRun EXCEPT !.state = "running",
                                  !.budget = TokenBudget,
                                  !.granted = TokenBudget]
          /\ log'[r] = log[r] /\ script'[r] \in Scripts
      BY <1>1, <2>1, <2>2 DEF Start, Begins
    <3> QED
      BY <3>1, <3>2, HarnessAssumption DEF Comes, Changes, NoRun, Unborn
  <2>3. CASE q # r
    BY <1>1, <2>1, <2>3 DEF Start, Begins, Stays, Changes
  <2> QED
    BY <2>2, <2>3
<1>3. CASE \E child \in Runs : HandedOver(k, child)
  <2>1. PICK child \in Runs : HandedOver(k, child)
    BY <1>3
  <2>2. CASE UNCHANGED <<run, script>>
    BY <2>1, <2>2 DEF HandedOver, Stays, Changes
  <2>3. CASE child = r /\ ~ UNCHANGED <<run, script>>
    <3>1. Unborn(r)
      BY <1>1, <2>1, <2>3 DEF HandedOver, RowsInv
    <3>2. call[k].run \in Runs
      BY <2>1, CallIs DEF HandedOver, At
    <3>3. run[call[k].run].budget \in Nat
      BY <1>1, <3>2, RowIs
    <3>4. run'[r] = [NoRun EXCEPT
                       !.state = "queued",
                       !.budget = run[call[k].run].budget,
                       !.granted = run[call[k].run].budget,
                       !.checkpoint = run[call[k].run].checkpoint,
                       !.parent = call[k].run]
          /\ log'[r] = log[r] /\ script'[r] \in Scripts
      BY <1>1, <2>1, <2>3 DEF HandedOver, Begins
    <3> QED
      BY <3>1, <3>3, <3>4 DEF Comes, Changes, NoRun, Unborn
  <2>4. CASE child # r /\ ~ UNCHANGED <<run, script>>
    BY <1>1, <2>1, <2>4 DEF HandedOver, Begins, Stays, Changes
  <2> QED
    BY <2>2, <2>3, <2>4
<1>4. CASE UNCHANGED <<run, log, script>>
  BY <1>4 DEF Stays, Changes
<1>5. ASSUME NEW state, NEW signal, call[k].at # "idle",
             run[call[k].run].epoch = call[k].epoch,
             run' = [run EXCEPT ![call[k].run].state = state],
             Appended(call[k].run, call[k].epoch, signal), UNCHANGED script,
             signal.kind \in OwnKinds, signal.tokens = 0
      PROVE  Stays(r) \/ (call[k].run = r /\ Moved(r, state, signal))
  BY <1>1, <1>5 DEF Moved, Stays, Appended
<1>6. CASE Resumed(k)
  BY <1>1, <1>6 DEF Resumed, At, GoesOn, Stays, Changes
<1>7. CASE Controlled(k)
  <2>1. call[k].target \in {"paused", "stopped"} /\ call[k].at # "idle"
    BY <1>7 DEF Controlled, At, HarnessTypeInv, CallsInv, CallOK, Fits
  <2>2. PICK signal : signal = Signal(Controls(call[k].target), "none", 0)
    OBVIOUS
  <2>3. signal.kind \in OwnKinds /\ signal.tokens = 0
    BY <2>1, <2>2 DEF Signal, Controls, OwnKinds
  <2>4. CASE UNCHANGED <<run, log>>
    BY <1>7, <2>4 DEF Controlled, Stays, Changes
  <2>5. CASE ~ UNCHANGED <<run, log>>
    <3>1. run[call[k].run].state \notin Final
      BY <1>7, <2>5 DEF Controlled
    <3>2. Stays(r) \/ (call[k].run = r /\ Moved(r, call[k].target, signal))
      BY <1>5, <1>7, <2>1, <2>2, <2>3, <2>5 DEF Controlled
    <3> QED
      BY <2>1, <2>2, <3>1, <3>2 DEF Pauses, Changes
  <2> QED
    BY <2>4, <2>5
<1>8. CASE ApprovalResolved(k)
  <2>1. call[k].at = "resolving" /\ UNCHANGED script
    BY <1>8 DEF ApprovalResolved, Resolves, At
  <2>2. CASE UNCHANGED <<run, log>>
    BY <2>1, <2>2 DEF Stays, Changes
  <2>3. CASE ~ UNCHANGED <<run, log>>
    <3>1. PICK q, state, i, signal :
             /\ q = call[k].run /\ i \in LatestAsk(q)
             /\ state = IF call[k].target = "approved" THEN "paused"
                                                       ELSE "stopped"
             /\ signal = Signal("approval.resolved",
                                [id |-> log[q][i].signal.about.id,
                                 approved |-> call[k].target = "approved"], 0)
             /\ run[q].epoch = call[k].epoch
             /\ run[q].state = "awaiting-approval"
             /\ run' = [run EXCEPT ![q].state = state]
             /\ Appended(q, call[k].epoch, signal)
      BY <1>8, <2>3 DEF ApprovalResolved, Resolves
    <3>2. signal.kind \in OwnKinds /\ signal.tokens = 0
      BY <3>1 DEF Signal, OwnKinds
    <3>3. Stays(r) \/ (q = r /\ Moved(r, state, signal))
      BY <1>5, <2>1, <3>1, <3>2
    <3> QED
      BY <2>1, <3>1, <3>3 DEF Decides, Changes
  <2> QED
    BY <2>2, <2>3
<1>9. CASE FailRun(k)
  <2>1. call[k].at = "failing" /\ UNCHANGED script
    BY <1>9 DEF FailRun, At
  <2>2. CASE UNCHANGED <<run, log>>
    BY <2>1, <2>2 DEF Stays, Changes
  <2>3. CASE ~ UNCHANGED <<run, log>>
    <3>1. PICK signal : signal = Signal("provider.failed", "none", 0)
      OBVIOUS
    <3>2. signal.kind \in OwnKinds /\ signal.tokens = 0
      BY <3>1 DEF Signal, OwnKinds
    <3>3. Stays(r) \/ (call[k].run = r /\ Moved(r, "failed", signal))
      BY <1>5, <1>9, <2>1, <2>3, <3>1, <3>2 DEF FailRun
    <3> QED
      BY <2>1, <3>1, <3>3 DEF Fails, Changes
  <2> QED
    BY <2>2, <2>3
<1>10. CASE Accept(k)
  <2>1. /\ call[k].at = "accepting" /\ UNCHANGED script /\ LiveSession(k)
    BY <1>10 DEF Accept, At, SessionInv, WritersLive
  <2>2. CASE UNCHANGED <<run, log>>
    BY <2>1, <2>2 DEF Stays, Changes
  <2>3. CASE ~ UNCHANGED <<run, log>>
    <3>1. PICK q, s, seen :
             /\ q = call[k].run /\ s = script[q][call[k].pos]
             /\ seen = call[k].seen
             /\ Appended(q, call[k].epoch, s)
             /\ run' = [run EXCEPT ![q] = After(@, seen, s)]
      BY <1>10, <2>3 DEF Accept
    <3>2. CASE q # r
      BY <1>1, <2>1, <3>1, <3>2 DEF Appended, Stays, Changes
    <3>3. CASE q = r
      <4>1. /\ run[r].state = "running" /\ run[r].epoch = call[k].epoch
        BY <2>1, <3>1, <3>3 DEF LiveSession
      <4>2. /\ call[k].pos \in 1..Len(script[r])
            /\ seen.budget \in Nat /\ s.tokens \in 0..seen.budget
        <5>1. Fits(k)
          BY <1>1 DEF CallsInv, CallOK
        <5>2. /\ call[k].pos \in 1..Len(script[r])
              /\ seen.budget \in 0..TokenBudget /\ s.tokens \in 0..seen.budget
          BY <2>1, <3>1, <3>3, <5>1 DEF Fits
        <5> QED
          BY <5>2, HarnessAssumption
      <4>3. run'[r] = After(run[r], seen, s)
            /\ log'[r] = Append(log[r],
                                [epoch |-> run[r].epoch, signal |-> s])
            /\ script'[r] = script[r]
        BY <1>1, <2>1, <3>1, <3>3, <4>1 DEF Appended
      <4>4. Takes(k, r, s)
        BY <2>1, <3>1, <3>3, <4>1, <4>2, <4>3 DEF Takes, After
      <4> QED
        BY <4>4 DEF Changes
    <3> QED
      BY <3>2, <3>3
  <2> QED
    BY <2>2, <2>3
<1> QED
  BY <1>2, <1>3, <1>4, <1>6, <1>7, <1>8, <1>9, <1>10
     DEF Call, Drain, Resume, CreateHandoff, Control, ResolveApproval, Open,
         Receive, SessionFails, SessionEnds, Catch, rows

\* What the row of a run owes its log: nothing at first; a step keeps to it.
LEMMA FollowsStep ==
    ASSUME HarnessTypeInv, SessionInv, FollowInv,
           NEW k \in Callers, NEW r \in Runs, Changes(k, r)
    PROVE  Follows(r)'
<1>1. /\ RowsInv /\ RowOK(run[r]) /\ LogOK(r) /\ Follows(r)
      /\ run[r].epoch \in Nat \ {0} /\ run[r].budget \in Nat
  BY RowIs DEF HarnessTypeInv, FollowInv
<1>2. CASE Stays(r)
  BY <1>1, <1>2 DEF Stays, Follows
<1>3. CASE Comes(r)
  <2>1. Tally(log'[r]) = [signals |-> <<>>, tokens |-> 0]
    BY <1>3, TallyOfNothing DEF Comes, Nothing
  <2>2. SubSeq(script'[r], 1, 0) = <<>>
    BY SubSeqEmpty
  <2>3. Len(script'[r]) \in Nat
    <3>1. PICK S, says : says \in Seq(S) /\ says = script'[r]
      BY <1>3, HarnessAssumption DEF Comes
    <3> QED
      BY <3>1
  <2>4. DOMAIN log'[r] = {}
    BY <1>3 DEF Comes
  <2>5. run'[r].cursor = 0 /\ run'[r].budget = run'[r].granted
        /\ run'[r].budget \in Nat
    BY <1>3 DEF Comes
  <2> QED
    BY <2>1, <2>2, <2>3, <2>4, <2>5 DEF Follows
<1>4. CASE GoesOn(k, r)
  BY <1>1, <1>4 DEF GoesOn, Follows, RowOK, NoRun
<1>5. ASSUME NEW signal, LogOK(r),
             log'[r] = Append(log[r], [epoch |-> run[r].epoch,
                                       signal |-> signal])
      PROVE  /\ Tally(log'[r]) = Counted(Tally(log[r]), signal)
             /\ \A i, j \in DOMAIN log'[r] :
                   i < j => log'[r][i].epoch <= log'[r][j].epoch
  <2>1. PICK old, e, n :
           /\ old = log[r] /\ n = Len(old)
           /\ e = [epoch |-> run[r].epoch, signal |-> signal]
    OBVIOUS
  <2>2. PICK new : new = log'[r]
    OBVIOUS
  <2>3. IsSeq(old) /\ new = Append(old, e)
    BY <1>5, <2>1, <2>2 DEF LogOK
  <2>4. Tally(new) = Counted(Tally(old), signal)
    BY <2>1, <2>3, TallyAppend
  <2>5. /\ n \in Nat /\ DOMAIN old = 1..n /\ DOMAIN new = 1..(n + 1)
        /\ \A i \in 1..n : new[i] = old[i]
        /\ new[n + 1] = e
    BY <2>1, <2>3, SeqAppend
  <2>6. \A i \in 1..n : old[i].epoch \in Nat /\ old[i].epoch <= e.epoch
    BY <1>1, <2>1, <2>5 DEF LogOK
  <2>7. \A i, j \in 1..n : i < j => old[i].epoch <= old[j].epoch
    BY <1>1, <2>1, <2>5 DEF Follows
  <2>8. \A i \in 1..(n + 1) : i \in 1..n \/ i = n + 1
    BY <2>5
  <2>9. \A i, j \in 1..(n + 1) : i < j => new[i].epoch <= new[j].epoch
    <3> TAKE i, j \in 1..(n + 1)
    <3> HAVE i < j
    <3>1. i \in 1..n
      BY <2>5
    <3>2. CASE j \in 1..n
      BY <2>5, <2>7, <3>1, <3>2
    <3>3. CASE j = n + 1
      BY <2>5, <2>6, <3>1, <3>3
    <3> QED
      BY <2>8, <3>2, <3>3
  <2> QED
    BY <2>1, <2>2, <2>4, <2>5, <2>9
<1>6. ASSUME NEW state, NEW signal, Moved(r, state, signal)
      PROVE  Follows(r)'
  <2>1. /\ Tally(log'[r]) = Counted(Tally(log[r]), signal)
        /\ \A i, j \in DOMAIN log'[r] :
              i < j => log'[r][i].epoch <= log'[r][j].epoch
    BY <1>1, <1>5, <1>6 DEF Moved
  <2>2. /\ Tally(log'[r]).signals = Tally(log[r]).signals
        /\ Tally(log'[r]).tokens = Tally(log[r]).tokens
    BY <1>1, <1>6, <2>1 DEF Counted, Moved, Follows, OwnKinds, AdapterKinds
  <2>3. /\ run'[r].cursor = run[r].cursor /\ run'[r].budget = run[r].budget
        /\ run'[r].granted = run[r].granted /\ script'[r] = script[r]
    BY <1>1, <1>6 DEF Moved, RowOK, NoRun
  <2> QED
    BY <1>1, <2>1, <2>2, <2>3 DEF Follows
<1>7. ASSUME NEW s, Takes(k, r, s) PROVE Follows(r)'
  <2>1. /\ Tally(log'[r]) = Counted(Tally(log[r]), s)
        /\ \A i, j \in DOMAIN log'[r] :
              i < j => log'[r][i].epoch <= log'[r][j].epoch
    BY <1>1, <1>5, <1>7 DEF Takes
  <2>2. PICK c, says :
           c = run[r].cursor /\ says = script[r]
    OBVIOUS
  <2>3. /\ call[k].pos = c + 1 /\ call[k].seen = run[r] /\ c \in Nat
        /\ IsSeq(says) /\ Len(says) \in Nat /\ c + 1 \in 1..Len(says)
        /\ s = says[c + 1] /\ s.kind \in AdapterKinds
        /\ s.tokens \in 0..run[r].budget
    BY <1>1, <1>7, <2>2, ScriptSays DEF Takes, FollowInv, SessionOK, RowOK
  <2>4. /\ run'[r].cursor = c + 1 /\ run'[r].budget = run[r].budget - s.tokens
        /\ run'[r].granted = run[r].granted /\ script'[r] = says
    <3>1. run'[r] = [run[r] EXCEPT
                       !.state = Boundary(s), !.cursor = @ + 1,
                       !.budget = run[r].budget - s.tokens,
                       !.checkpoint = IF s.kind = "checkpoint" THEN s.about
                                      ELSE @]
      BY <1>7, <2>3 DEF Takes
    <3>2. DOMAIN run[r] = DOMAIN NoRun
      BY <1>1 DEF RowOK
    <3> QED
      BY <1>7, <2>2, <3>1, <3>2 DEF Takes, NoRun
  <2>5. SubSeq(says, 1, c + 1) = Append(SubSeq(says, 1, c), says[c + 1])
    <3>1. PICK S : says \in Seq(S)
      BY <2>3 DEF IsSeq
    <3>2. SubSeq(says, 1, c + 1)
            = SubSeq(says, 1, c + 1 - 1) \o <<says[c + 1]>>
      BY <2>3, <3>1, 1 \in 1..Len(says), SubSeqRecursiveSecond
    <3>3. says[c + 1] \in S /\ SubSeq(says, 1, c) \in Seq(S)
      BY <2>3, <3>1, SubSeqProperties
    <3> QED
      BY <2>3, <3>2, <3>3, c + 1 - 1 = c, AppendIsConcat
  <2>6. Tally(log'[r]).signals = SubSeq(says, 1, c + 1)
    <3>1. Tally(log[r]).signals = SubSeq(says, 1, c)
      BY <1>1, <2>2 DEF Follows
    <3>2. Tally(log'[r]).signals = Append(Tally(log[r]).signals, s)
      BY <2>1, <2>3 DEF Counted
    <3> QED
      BY <2>3, <2>5, <3>1, <3>2
  <2>7. Tally(log'[r]).tokens = Tally(log[r]).tokens + s.tokens
    BY <2>1 DEF Counted
  <2>8. /\ Tally(log'[r]).tokens \in Nat
        /\ run'[r].budget + Tally(log'[r]).tokens = run'[r].granted
    BY <1>1, <2>3, <2>4, <2>7 DEF Follows
  <2> QED
    BY <2>1, <2>3, <2>4, <2>6, <2>8 DEF Follows
<1> QED
  BY <1>2, <1>3, <1>4, <1>6, <1>7 DEF Changes, Pauses, Decides, Fails

\* The other calls wait while one goes on.
LEMMA OthersWait ==
    ASSUME OneHost, HarnessTypeInv, NEW k \in Callers, Call(k)
    PROVE  \A j \in Callers \ {k} :
              call'[j] = call[j] /\ call[j].at \notin Checked
<1>1. DOMAIN call = Callers
  BY DEF HarnessTypeInv, CallsInv
<1>2. Alone(k) /\ \A j \in Callers \ {k} : call'[j] = call[j]
  BY <1>1 DEF Call, Drain, Start, Resume, CreateHandoff, HandedOver, Control,
     ResolveApproval, Resumed, Controlled, ApprovalResolved, Resolves, Open,
     Receive, SessionFails, SessionEnds, Accept, Catch, FailRun, Free, At,
     Return, Now, Begin
<1> QED
  BY <1>2 DEF OneHost, Alone

\* Where a call is after its step, by what the step was.
LEMMA Places ==
    ASSUME HarnessTypeInv, NEW k \in Callers, Call(k)
    PROVE  LET at == call'[k].at IN
           \/ at \in {"idle", "handing", "controlling", "resolving"}
           \/ at = "resuming" /\ Resume(k, call'[k].run)
           \/ at = "opening" /\ (Resumed(k) \/ \E r \in Runs : Start(k, r))
           \/ at \in {"accepting", "caught"} /\ Receive(k)
           \/ at = "draining" /\ (Open(k) \/ Accept(k))
           \/ at = "caught" /\ (SessionFails(k) \/ Accept(k))
           \/ at = "failing" /\ Catch(k)
<1>1. DOMAIN call = Callers /\ DOMAIN call[k] = DOMAIN Idle
  BY DEF HarnessTypeInv, CallsInv, CallOK
<1>2. Return(k) => call'[k].at = "idle"
  BY <1>1 DEF Return, Idle
<1>3. \A where : Now(k, where) => call'[k].at = where
  BY <1>1 DEF Now, Idle
<1>4. \A where, r, target : Begin(k, where, r, target) =>
         call'[k].at = where /\ call'[k].run = r
  BY <1>1 DEF Begin, Idle
<1>5. ASSUME NEW r \in Runs, Start(k, r) PROVE call'[k].at = "opening"
  BY <1>1, <1>5 DEF Start, Idle
<1>6. ASSUME NEW r \in Runs, Resume(k, r)
      PROVE  call'[k].at = "resuming" /\ call'[k].run = r
  BY <1>4, <1>6 DEF Resume
<1>7. ASSUME NEW r \in Runs, CreateHandoff(k, r)
      PROVE  call'[k].at = "handing"
  BY <1>1, <1>7 DEF CreateHandoff, Idle
<1>8. ASSUME NEW r \in Runs, HandedOver(k, r) PROVE call'[k].at = "idle"
  BY <1>2, <1>8 DEF HandedOver
<1>9. ASSUME NEW r \in Runs, NEW target, Control(k, r, target)
      PROVE  call'[k].at = "controlling"
  BY <1>4, <1>9 DEF Control
<1>10. ASSUME NEW r \in Runs, NEW decision, ResolveApproval(k, r, decision)
       PROVE  call'[k].at = "resolving"
  BY <1>4, <1>10 DEF ResolveApproval
<1>11. CASE Resumed(k)
  <2>1. call'[k].at \in {"opening", "idle"}
    BY <1>1, <1>2, <1>11 DEF Resumed, Idle
  <2> QED
    BY <1>11, <2>1
<1>12. CASE Controlled(k)
  BY <1>2, <1>12 DEF Controlled
<1>13. CASE ApprovalResolved(k)
  BY <1>2, <1>13 DEF ApprovalResolved, Resolves
<1>14. CASE Open(k)
  BY <1>1, <1>14 DEF Open, Idle
<1>15. CASE Receive(k)
  BY <1>1, <1>15 DEF Receive, Idle
<1>16. CASE SessionFails(k)
  BY <1>3, <1>16 DEF SessionFails
<1>17. CASE SessionEnds(k)
  BY <1>2, <1>17 DEF SessionEnds
<1>18. CASE Accept(k)
  <2>1. call'[k].at \in {"caught", "draining", "idle"}
    BY <1>2, <1>3, <1>18 DEF Accept
  <2> QED
    BY <1>18, <2>1
<1>19. CASE Catch(k)
  BY <1>2, <1>3, <1>19 DEF Catch
<1>20. CASE FailRun(k)
  BY <1>2, <1>20 DEF FailRun
<1> QED
  BY <1>5, <1>6, <1>7, <1>8, <1>9, <1>10, <1>11, <1>12, <1>13, <1>14, <1>15,
     <1>16, <1>17, <1>18, <1>19, <1>20 DEF Call, Drain

\* What it goes on to, when it is in a session then.
Opens(k) ==
    LET r == call'[k].run IN
    /\ r \in Runs /\ call'[k].at = "opening"
    /\ call'[k].epoch = run'[r].epoch
    /\ \/ run[r].state = "none"
       \/ call'[k].epoch = run[r].epoch + 1

Continues(k) ==
    /\ call[k].at \in Sessions
    /\ call'[k].run = call[k].run /\ call'[k].epoch = call[k].epoch

LEMMA SessionMoves ==
    ASSUME HarnessTypeInv, SessionInv, NEW k \in Callers, Call(k),
           call'[k].at \in Sessions
    PROVE  Opens(k) \/ Continues(k)
<1>1. /\ RowsInv /\ CallsInv /\ DOMAIN call = Callers /\ CallOK(k)
      /\ DOMAIN call[k] = DOMAIN Idle /\ DOMAIN run = Runs
  BY DEF HarnessTypeInv, RowsInv, CallsInv, CallOK
<1>2. \A r \in Runs : DOMAIN run[r] = DOMAIN NoRun
  BY <1>1 DEF RowsInv, RowOK
<1>3. ASSUME NEW r \in Runs, Start(k, r) PROVE Opens(k)
  BY <1>1, <1>3 DEF Start, Opens, Idle, NoRun
<1>4. CASE Resumed(k)
  <2>1. call'[k].at # "idle"
    BY DEF Sessions
  <2>2. ~ Return(k)
    BY <1>1, <2>1 DEF Return, Idle
  <2>3. PICK r : r = call[k].run
    OBVIOUS
  <2>4. /\ run[r].epoch = call[k].epoch
        /\ run' = [run EXCEPT ![r].state = "running", ![r].epoch = @ + 1]
        /\ call' = [call EXCEPT ![k].at = "opening", ![k].epoch = @ + 1]
        /\ call[k].at = "resuming"
    BY <1>4, <2>2, <2>3 DEF Resumed, At
  <2>5. r \in Runs
    BY <2>3, <2>4, CallIs
  <2>6. run'[r].epoch = run[r].epoch + 1
    BY <1>1, <1>2, <2>4, <2>5 DEF NoRun
  <2>7. /\ call'[k].run = r /\ call'[k].at = "opening"
        /\ call'[k].epoch = call[k].epoch + 1
    BY <1>1, <2>3, <2>4 DEF Idle
  <2> QED
    BY <2>4, <2>5, <2>6, <2>7 DEF Opens
<1>5. CASE Open(k) \/ Receive(k) \/ SessionFails(k) \/ Accept(k) \/ Catch(k)
  <2>1. call'[k].at # "idle" /\ call[k].at \in Sessions
    BY <1>5 DEF Sessions, Open, Receive, SessionFails, Accept, Catch, At
  <2>2. ~ Return(k)
    BY <1>1, <2>1 DEF Return, Idle
  <2>3. call'[k].run = call[k].run /\ call'[k].epoch = call[k].epoch
    BY <1>1, <1>5, <2>2
       DEF Open, Receive, SessionFails, Accept, Catch, Now, Idle
  <2> QED
    BY <2>1, <2>3 DEF Continues
<1> QED
  BY <1>3, <1>4, <1>5, Places DEF Sessions

\* Epochs grow, and a row that is still running and of the same epoch was
\* running before; its cursor moved only if the step took a signal.
LEMMA EpochGrows ==
    ASSUME HarnessTypeInv, SessionInv, FollowInv, NEW k \in Callers,
           NEW r \in Runs, Changes(k, r), run[r].state # "none"
    PROVE  /\ run[r].epoch \in Nat /\ run'[r].epoch \in Nat
           /\ run[r].epoch <= run'[r].epoch
           /\ run'[r].state = "running" /\ run'[r].epoch = run[r].epoch =>
                 \/ run'[r] = run[r]
                 \/ \E s : Takes(k, r, s)
<1>1. /\ RowsInv /\ DOMAIN run[r] = DOMAIN NoRun /\ run[r].epoch \in Nat
  BY RowIs DEF HarnessTypeInv, RowsInv, RowOK
<1>2. CASE Stays(r)
  BY <1>1, <1>2 DEF Stays
<1>3. CASE Comes(r)
  BY <1>3 DEF Comes, Unborn, NoRun
<1>4. CASE GoesOn(k, r)
  BY <1>1, <1>4 DEF GoesOn, NoRun
<1>5. CASE Pauses(k, r)
  BY <1>1, <1>5 DEF Pauses, Moved, NoRun
<1>6. CASE Decides(k, r)
  BY <1>1, <1>6 DEF Decides, Moved, NoRun
<1>7. CASE Fails(k, r)
  BY <1>1, <1>7 DEF Fails, Moved, NoRun
<1>8. ASSUME NEW s, Takes(k, r, s)
      PROVE  run'[r].epoch = run[r].epoch
  <2>1. call[k].seen = run[r]
    BY <1>8 DEF Takes, FollowInv, SessionOK
  <2> QED
    BY <1>1, <1>8, <2>1 DEF Takes, NoRun
<1> QED
  BY <1>1, <1>2, <1>3, <1>4, <1>5, <1>6, <1>7, <1>8 DEF Changes

\* The sessions that wait.
LEMMA WaitingSession ==
    ASSUME OneHost, HarnessTypeInv, SessionInv, FollowInv,
           NEW k \in Callers, Call(k), NEW j \in Callers \ {k}
    PROVE  SessionOK(j)'
<1>1. /\ call'[j] = call[j] /\ call[j].at \notin Checked
      /\ CallsInv /\ CallOK(j) /\ SessionOK(j)
  BY OthersWait DEF HarnessTypeInv, CallsInv, FollowInv
<1>2. CASE call[j].at = "idle"
  BY <1>1, <1>2 DEF SessionOK, Sessions
<1>3. CASE call[j].at = "draining"
  <2>1. PICK r \in Runs : r = call[j].run /\ run[r].state # "none"
    BY <1>1, <1>3, CallIs
  <2>2. Changes(k, r)
    BY RunChanges
  <2>3. /\ run[r].epoch \in Nat /\ run'[r].epoch \in Nat
        /\ run[r].epoch <= run'[r].epoch
        /\ run'[r].state = "running" /\ run'[r].epoch = run[r].epoch =>
              \/ run'[r] = run[r]
              \/ \E s : Takes(k, r, s)
    BY <2>1, <2>2, EpochGrows
  <2>4. call[j].epoch \in Nat /\ call[j].epoch <= run[r].epoch
    BY <1>1, <1>3, <2>1 DEF SessionOK, Sessions
  <2>5. ASSUME LiveSession(j)' PROVE call[j].pos = run'[r].cursor
    <3>1. run'[r].epoch = call[j].epoch /\ run'[r].state = "running"
      BY <1>1, <2>1, <2>5 DEF LiveSession
    <3>2. run'[r].epoch = run[r].epoch
      BY <2>3, <2>4, <3>1
    <3>3. ASSUME NEW s, Takes(k, r, s) PROVE FALSE
      <4>1. /\ call[k].at = "accepting" /\ call[k].run = call[j].run
            /\ call[k].epoch = call[j].epoch
        BY <2>1, <3>1, <3>2, <3>3 DEF Takes, LiveSession
      <4>2. call[k].at \in Sessions /\ call[j].at \in Sessions
        BY <1>3, <4>1 DEF Sessions
      <4> QED
        BY <4>1, <4>2 DEF FollowInv, OneSession
    <3>4. run'[r] = run[r]
      BY <2>3, <3>1, <3>2, <3>3
    <3> QED
      BY <1>1, <1>3, <2>1, <3>1, <3>2, <3>4 DEF SessionOK, LiveSession
  <2> QED
    BY <1>1, <1>3, <2>1, <2>3, <2>4, <2>5 DEF SessionOK
<1> QED
  BY <1>1, <1>2, <1>3 DEF CallOK

LEMMA AcceptableStays ==
    ASSUME NEW r, NEW s, UNCHANGED <<run, log>>, Acceptable(r, s)
    PROVE  Acceptable(r, s)'
  BY DEF Acceptable, ApprovedPermission, Asks, Kind, Events

\* The session that goes on.
LEMMA MovingSession ==
    ASSUME OneHost, HarnessTypeInv, HarnessTypeInv', SessionInv, FollowInv,
           NEW k \in Callers, Call(k)
    PROVE  SessionOK(k)'
<1>1. /\ CallOK(k) /\ SessionOK(k) /\ RowsInv /\ CallsInv
      /\ DOMAIN call = Callers /\ DOMAIN call[k] = DOMAIN Idle
      /\ DOMAIN run = Runs
  BY DEF HarnessTypeInv, CallsInv, FollowInv, CallOK, RowsInv
<1>2. call'[k].at \in Sessions =>
         /\ call'[k].epoch \in Nat
         /\ call'[k].epoch <= run'[call'[k].run].epoch
  <2> SUFFICES ASSUME call'[k].at \in Sessions
               PROVE  /\ call'[k].epoch \in Nat
                      /\ call'[k].epoch <= run'[call'[k].run].epoch
    OBVIOUS
  <2>1. CASE Opens(k)
    <3>1. PICK r \in Runs : r = call'[k].run /\ call'[k].epoch = run'[r].epoch
      BY <2>1 DEF Opens
    <3>2. run'[r].epoch \in Nat
      BY <3>1, HarnessAssumption DEF HarnessTypeInv, RowsInv, RowOK
    <3> QED
      BY <3>1, <3>2
  <2>2. CASE Continues(k)
    <3>1. call[k].at # "idle"
      BY <2>2 DEF Continues, Sessions
    <3>2. PICK r \in Runs : r = call[k].run /\ run[r].state # "none"
      BY <3>1, CallIs
    <3>3. /\ run[r].epoch \in Nat /\ run'[r].epoch \in Nat
          /\ run[r].epoch <= run'[r].epoch
      BY <3>2, RunChanges, EpochGrows
    <3> QED
      BY <1>1, <2>2, <3>2, <3>3 DEF Continues, SessionOK
  <2> QED
    BY <2>1, <2>2, SessionMoves
<1>3. ASSUME call'[k].at = "accepting"
      PROVE  /\ call'[k].pos = run'[call'[k].run].cursor + 1
             /\ call'[k].seen = run'[call'[k].run]
             /\ \A q, s : /\ q = call'[k].run
                          /\ s = script'[q][call'[k].pos]
                          => Acceptable(q, s)'
  <2>1. Receive(k)
    BY <1>3, Places
  <2>2. PICK r, i : r = call[k].run /\ i = call[k].pos + 1
    OBVIOUS
  <2>3. /\ UNCHANGED <<run, log, script, checkpoints>>
        /\ call' = [call EXCEPT
              ![k].pos = i, ![k].seen = run[r],
              ![k].at = IF LiveSession(k) /\ Acceptable(r, script[r][i])
                        THEN "accepting" ELSE "caught"]
        /\ call[k].at = "draining"
    BY <2>1, <2>2 DEF Receive, At, Next1, rows
  <2>4. /\ call'[k].pos = i /\ call'[k].seen = run[r] /\ call'[k].run = r
        /\ LiveSession(k) /\ Acceptable(r, script[r][i])
    BY <1>1, <1>3, <2>2, <2>3 DEF Idle
  <2>5. call[k].pos = run[r].cursor
    BY <1>1, <2>2, <2>3, <2>4 DEF SessionOK
  <2>6. ASSUME NEW q, NEW s, q = call'[k].run, s = script'[q][call'[k].pos]
        PROVE  Acceptable(q, s)'
    BY <2>2, <2>3, <2>4, <2>6, AcceptableStays
  <2> QED
    BY <2>2, <2>3, <2>4, <2>5, <2>6
<1>4. ASSUME call'[k].at = "draining", LiveSession(k)'
      PROVE  call'[k].pos = run'[call'[k].run].cursor
  <2>1. CASE Open(k)
    BY <1>1, <2>1 DEF Open, Idle, rows
  <2>2. CASE Accept(k)
    <3>1. PICK r, s : r = call[k].run /\ s = script[r][call[k].pos]
      OBVIOUS
    <3>2. Now(k, "draining") /\ Boundary(s) = "running"
          /\ run' = [run EXCEPT ![r] = After(@, call[k].seen, s)]
          /\ call[k].at = "accepting"
      BY <1>1, <1>4, <2>2, <3>1 DEF Accept, At, Now, Return, Idle
    <3>3. r \in Runs /\ DOMAIN run[r] = DOMAIN NoRun /\ run[r].cursor \in Nat
      BY <1>1, <3>1, <3>2, CallIs DEF RowsInv, RowOK
    <3>4. /\ call'[k].run = r /\ call'[k].pos = call[k].pos
          /\ call[k].pos = run[r].cursor + 1 /\ call[k].seen = run[r]
      BY <1>1, <3>1, <3>2 DEF Now, Idle, SessionOK
    <3>5. run[r].state = "running"
      BY <3>1, <3>2 DEF SessionInv, WritersLive, LiveSession
    <3>6. run'[r].cursor = run[r].cursor + 1
      BY <1>1, <3>2, <3>3, <3>4, <3>5 DEF After, NoRun
    <3> QED
      BY <3>4, <3>6
  <2> QED
    BY <1>4, <2>1, <2>2, Places
<1> QED
  BY <1>2, <1>3, <1>4 DEF SessionOK

\* Of two sessions of one run, the later has the greater epoch.
LEMMA OneSessionStep ==
    ASSUME OneHost, HarnessTypeInv, SessionInv, FollowInv,
           NEW k \in Callers, Call(k)
    PROVE  OneSession'
<1>1. ASSUME NEW j \in Callers \ {k},
             call'[j].at \in Sessions, call'[k].at \in Sessions,
             call'[j].run = call'[k].run, call'[j].epoch = call'[k].epoch
      PROVE  FALSE
  <2>1. call'[j] = call[j] /\ call[j].at # "idle" /\ SessionOK(j)
    BY <1>1, OthersWait DEF FollowInv, Sessions
  <2>2. PICK r \in Runs : /\ r = call[j].run /\ run[r].state # "none"
                          /\ call[j].epoch \in Nat
                          /\ call[j].epoch <= run[r].epoch
                          /\ run[r].epoch \in Nat
    BY <1>1, <2>1, CallIs, RowIs DEF SessionOK
  <2>3. CASE Opens(k)
    BY <1>1, <2>1, <2>2, <2>3 DEF Opens
  <2>4. CASE Continues(k)
    BY <1>1, <2>1, <2>4 DEF Continues, FollowInv, OneSession
  <2> QED
    BY <1>1, <2>3, <2>4, SessionMoves
<1>2. ASSUME NEW i \in Callers, NEW j \in Callers, i # k, j # k,
             call'[i].at \in Sessions, call'[j].at \in Sessions,
             call'[i].run = call'[j].run, call'[i].epoch = call'[j].epoch
      PROVE  i = j
  BY <1>2, OthersWait DEF FollowInv, OneSession
<1> QED
  BY <1>1, <1>2 DEF OneSession

LEMMA FollowInit == HarnessInit => FollowInv
<1> SUFFICES ASSUME HarnessInit PROVE FollowInv
  OBVIOUS
<1>1. /\ \A r \in Runs : run[r] = NoRun /\ log[r] = <<>> /\ script[r] = <<>>
      /\ \A k \in Callers : call[k] = Idle
  BY DEF HarnessInit
<1>2. \A r \in Runs : Follows(r)
  <2>1. Tally(<<>>) = [signals |-> <<>>, tokens |-> 0]
    BY TallyOfNothing DEF Nothing
  <2>2. Len(<<>>) = 0 /\ DOMAIN <<>> = {}
    OBVIOUS
  <2> TAKE r \in Runs
  <2>3. /\ run[r].cursor = 0 /\ run[r].budget = 0 /\ run[r].granted = 0
        /\ log[r] = <<>> /\ script[r] = <<>>
    BY <1>1 DEF NoRun
  <2>4. Tally(log[r]).tokens = 0 /\ Tally(log[r]).signals = <<>>
    BY <2>1, <2>3
  <2>5. SubSeq(script[r], 1, run[r].cursor) = <<>>
    BY <2>3, SubSeqEmpty
  <2>6. run[r].cursor <= Len(script[r]) /\ DOMAIN log[r] = {}
    BY <2>2, <2>3
  <2>7. run[r].budget + Tally(log[r]).tokens = run[r].granted
    BY <2>3, <2>4
  <2>8. Tally(log[r]).signals = SubSeq(script[r], 1, run[r].cursor)
    BY <2>4, <2>5
  <2>9. Tally(log[r]).tokens \in Nat
    BY <2>4
  <2> QED
    BY <2>6, <2>7, <2>8, <2>9 DEF Follows
<1>3. \A k \in Callers : SessionOK(k)
  BY <1>1 DEF SessionOK, Idle, Sessions
<1>4. OneSession
  BY <1>1 DEF OneSession, Idle, Sessions
<1> QED
  BY <1>2, <1>3, <1>4 DEF FollowInv

LEMMA FollowStep ==
    ASSUME OneHost, HarnessTypeInv, HarnessTypeInv', SessionInv, FollowInv,
           [HarnessNext]_harnessVars
    PROVE  FollowInv'
<1>1. ASSUME NEW k \in Callers, Call(k) PROVE FollowInv'
  <2>1. \A j \in Callers : SessionOK(j)'
    BY <1>1, WaitingSession, MovingSession
  <2>2. OneSession'
    BY <1>1, OneSessionStep
  <2>3. \A r \in Runs : Follows(r)'
    BY <1>1, RunChanges, FollowsStep
  <2> QED
    BY <2>1, <2>2, <2>3 DEF FollowInv
<1>2. CASE \E h \in {HostOf[k] : k \in Callers} : Crash(h)
  <2>1. \A k \in Callers : call'[k] = Idle
    BY <1>2 DEF Crash, OneHost
  <2>2. UNCHANGED <<run, log, script>>
    BY <1>2 DEF Crash, rows
  <2>3. \A r \in Runs : Follows(r)'
    BY <2>2 DEF FollowInv, Follows
  <2> QED
    BY <2>1, <2>3 DEF FollowInv, SessionOK, OneSession, Idle, Sessions
<1>3. CASE UNCHANGED harnessVars
  <2>1. UNCHANGED <<run, log, script, call>>
    BY <1>3 DEF harnessVars
  <2>2. \A r \in Runs : Follows(r)'
    BY <2>1 DEF FollowInv, Follows
  <2>3. \A k \in Callers : SessionOK(k)'
    BY <2>1, AcceptableStays DEF FollowInv, SessionOK, LiveSession
  <2> QED
    BY <2>1, <2>2, <2>3 DEF FollowInv, OneSession
<1> QED
  BY <1>1, <1>2, <1>3 DEF HarnessNext

\* In one host the row follows the log: each signal of the adapter is taken
\* once and in its order, up to the cursor, and what it uses comes off the
\* budget, however sessions end, fail and are opened again.
THEOREM RowFollowsLogInOneHost == OneHost => (HarnessSpec => []RowFollowsLog)
<1> SUFFICES ASSUME OneHost PROVE HarnessSpec => []RowFollowsLog
  OBVIOUS
<1>1. HarnessTypeInv /\ [HarnessNext]_harnessVars => HarnessTypeInv'
  BY TypeStep
<1>2. SessionInv /\ [HarnessNext]_harnessVars => SessionInv'
  BY SessionStep
<1>3. /\ HarnessTypeInv /\ HarnessTypeInv' /\ SessionInv /\ FollowInv
      /\ [HarnessNext]_harnessVars
      => FollowInv'
  BY FollowStep
<1>4. FollowInv => RowFollowsLog
  BY DEF FollowInv, Follows, RowFollowsLog
<1> QED
  BY <1>1, <1>2, <1>3, <1>4, TypeInit, SessionInit, FollowInit, PTL
     DEF HarnessSpec

-----------------------------------------------------------------------------
(* One host, and adapters that ask once under an id: the gate.             *)

\* No adapter asks twice under one id.
AsksOnce ==
    \A s \in Scripts : \A i, j \in DOMAIN s :
        /\ s[i].kind = "approval.requested"
        /\ s[j].kind = "approval.requested"
        /\ s[i].about.id = s[j].about.id
        => i = j

Is(events, i, kind) == events[i].signal.kind = kind

SameId(events, i, j) == events[i].signal.about.id = events[j].signal.about.id

Answered(events, i) ==
    \E m \in DOMAIN events :
        Is(events, m, "approval.resolved") /\ SameId(events, i, m)

\* The gate, for the event at j.
Passes(events, j) ==
    LET s == events[j].signal
        Approves(i, id) ==
            /\ events[i].signal.kind = "approval.resolved"
            /\ events[i].signal.about.id = id
            /\ events[i].signal.about.approved IN
    /\ s.kind \in AdapterKinds =>
          \A i \in 1..(j - 1) :
             events[i].signal.kind = "approval.requested" =>
                \E m \in i..j : Approves(m, events[i].signal.about.id)
    /\ s.kind = "effect.requested" =>
          \E i \in 1..(j - 1) : \E m \in i..(j - 1) :
             /\ events[i].signal.kind = "approval.requested"
             /\ s.about \in events[i].signal.about.scopes
             /\ Approves(m, events[i].signal.about.id)

\* What the events of a run say of its requests: each was the adapter's, and
\* of an id of its own; a decision came after the request it is about; a run
\* that is not stopped has no rejection; all requests but the latest have been
\* answered, and the latest too when the run is running.
Asked(events, says, cursor) ==
    /\ \A i \in DOMAIN events : Is(events, i, "approval.requested") =>
          \E p \in 1..cursor : says[p] = events[i].signal
    /\ \A i, j \in DOMAIN events :
          /\ Is(events, i, "approval.requested")
          /\ Is(events, j, "approval.requested") /\ SameId(events, i, j)
          => i = j

Decided(events, state) ==
    /\ \A m \in DOMAIN events : Is(events, m, "approval.resolved") =>
          \E i \in 1..(m - 1) :
             Is(events, i, "approval.requested") /\ SameId(events, i, m)
    /\ state # "stopped" =>
          \A m \in DOMAIN events : Is(events, m, "approval.resolved") =>
             events[m].signal.about.approved

Pending(events, state) ==
    \A i \in DOMAIN events : Is(events, i, "approval.requested") =>
        \/ Answered(events, i)
        \/ /\ state # "running"
           /\ \A j \in DOMAIN events :
                 Is(events, j, "approval.requested") => j <= i

Gate(r) ==
    /\ Asked(log[r], script[r], run[r].cursor)
    /\ Decided(log[r], run[r].state)
    /\ Pending(log[r], run[r].state)
    /\ \A j \in DOMAIN log[r] : Passes(log[r], j)

GateInv ==
    /\ \A r \in Runs : Gate(r)
    /\ \A k \in Callers :
          call[k].at = "resuming" => ~ UnresolvedApproval(call[k].run)

\* The gate only looks at what came before.
LEMMA PassesStill ==
    ASSUME NEW old, NEW new, NEW n \in Nat, \A i \in 1..n : new[i] = old[i],
           NEW j \in 1..n, Passes(old, j)
    PROVE  Passes(new, j)
<1>1. \A i \in 1..j : new[i] = old[i] /\ i \in 1..n
  OBVIOUS
<1>2. \A i \in 1..(j - 1) : i \in 1..j /\ i..j \subseteq 1..j
                            /\ i..(j - 1) \subseteq 1..j
  OBVIOUS
<1>3. new[j] = old[j]
  BY <1>1
<1> QED
  BY <1>1, <1>2, <1>3 DEF Passes

\* What one more event leaves of a log.
OneMore(old, new, n, e) ==
    /\ DOMAIN old = 1..n /\ DOMAIN new = 1..(n + 1)
    /\ \A i \in 1..n : new[i] = old[i]
    /\ new[n + 1] = e

\* An event that asks for nothing and decides nothing.
LEMMA OtherEvent ==
    ASSUME NEW n \in Nat, NEW old, NEW new, NEW e, OneMore(old, new, n, e),
           NEW says, NEW c \in Nat, NEW d \in Nat, c <= d,
           NEW state, NEW next,
           Asked(old, says, c), Decided(old, state), Pending(old, state),
           e.signal.kind # "approval.requested",
           e.signal.kind # "approval.resolved",
           state # "stopped", next # "running" \/ state = "running"
    PROVE  Asked(new, says, d) /\ Decided(new, next) /\ Pending(new, next)
<1>1. \A i \in 1..(n + 1) : i \in 1..n \/ i = n + 1
  OBVIOUS
<1>2. \A i \in 1..n : i \in 1..(n + 1)
  OBVIOUS
<1> USE <1>1, <1>2 DEF OneMore, Is, SameId
<1>3. Asked(new, says, d)
  <2>1. ASSUME NEW i \in 1..(n + 1), Is(new, i, "approval.requested")
        PROVE  \E p \in 1..d : says[p] = new[i].signal
    <3>1. PICK p \in 1..c : says[p] = old[i].signal
      BY <2>1 DEF Asked
    <3> QED
      BY <2>1, <3>1
  <2>2. ASSUME NEW i \in 1..(n + 1), NEW j \in 1..(n + 1),
               Is(new, i, "approval.requested"),
               Is(new, j, "approval.requested"), SameId(new, i, j)
        PROVE  i = j
    BY <2>2 DEF Asked
  <2> QED
    BY <2>1, <2>2 DEF Asked
<1>4. Decided(new, next)
  <2>1. ASSUME NEW m \in 1..(n + 1), Is(new, m, "approval.resolved")
        PROVE  /\ \E i \in 1..(m - 1) : Is(new, i, "approval.requested")
                                         /\ SameId(new, i, m)
               /\ new[m].signal.about.approved
    <3>1. m \in 1..n
      BY <2>1
    <3>2. PICK i \in 1..(m - 1) : Is(old, i, "approval.requested")
                                  /\ SameId(old, i, m)
      BY <2>1, <3>1 DEF Decided
    <3> QED
      BY <2>1, <3>1, <3>2 DEF Decided
  <2> QED
    BY <2>1 DEF Decided
<1>5. Pending(new, next)
  <2>1. ASSUME NEW i \in 1..(n + 1), Is(new, i, "approval.requested")
        PROVE  \/ Answered(new, i)
               \/ /\ next # "running"
                  /\ \A j \in 1..(n + 1) :
                        Is(new, j, "approval.requested") => j <= i
    <3>1. i \in 1..n
      BY <2>1
    <3>2. CASE Answered(old, i)
      BY <3>1, <3>2 DEF Answered
    <3>3. CASE ~ Answered(old, i)
      BY <2>1, <3>1, <3>3 DEF Pending
    <3> QED
      BY <3>2, <3>3
  <2> QED
    BY <2>1 DEF Pending
<1> QED
  BY <1>3, <1>4, <1>5

\* A decision on the latest request.
LEMMA DecisionEvent ==
    ASSUME NEW n \in Nat, NEW old, NEW new, NEW e, OneMore(old, new, n, e),
           NEW says, NEW c \in Nat, NEW state, NEW next, state # "stopped",
           Asked(old, says, c), Decided(old, state), Pending(old, state),
           e.signal.kind = "approval.resolved",
           NEW ask \in 1..n, Is(old, ask, "approval.requested"),
           e.signal.about.id = old[ask].signal.about.id,
           e.signal.about.approved \/ next = "stopped",
           \A j \in 1..n : Is(old, j, "approval.requested") => j <= ask
    PROVE  Asked(new, says, c) /\ Decided(new, next) /\ Pending(new, next)
<1>1. \A i \in 1..(n + 1) : i \in 1..n \/ i = n + 1
  OBVIOUS
<1>2. \A i \in 1..n : i \in 1..(n + 1)
  OBVIOUS
<1> USE <1>1, <1>2 DEF OneMore, Is, SameId
<1>3. Asked(new, says, c)
  <2>1. ASSUME NEW i \in 1..(n + 1), Is(new, i, "approval.requested")
        PROVE  \E p \in 1..c : says[p] = new[i].signal
    BY <2>1 DEF Asked
  <2>2. ASSUME NEW i \in 1..(n + 1), NEW j \in 1..(n + 1),
               Is(new, i, "approval.requested"),
               Is(new, j, "approval.requested"), SameId(new, i, j)
        PROVE  i = j
    BY <2>2 DEF Asked
  <2> QED
    BY <2>1, <2>2 DEF Asked
<1>4. Decided(new, next)
  <2>1. ASSUME NEW m \in 1..(n + 1), Is(new, m, "approval.resolved")
        PROVE  /\ \E i \in 1..(m - 1) : Is(new, i, "approval.requested")
                                         /\ SameId(new, i, m)
               /\ next # "stopped" => new[m].signal.about.approved
    <3>1. CASE m \in 1..n
      <4>1. PICK i \in 1..(m - 1) : Is(old, i, "approval.requested")
                                    /\ SameId(old, i, m)
        BY <2>1, <3>1 DEF Decided
      <4> QED
        BY <2>1, <3>1, <4>1 DEF Decided
    <3>2. CASE m = n + 1
      BY <3>2
    <3> QED
      BY <3>1, <3>2
  <2> QED
    BY <2>1 DEF Decided
<1>5. Pending(new, next)
  <2>1. ASSUME NEW i \in 1..(n + 1), Is(new, i, "approval.requested")
        PROVE  Answered(new, i)
    <3>1. i \in 1..n
      BY <2>1
    <3>2. CASE Answered(old, i)
      BY <3>1, <3>2 DEF Answered
    <3>3. CASE ~ Answered(old, i)
      <4>1. i = ask
        BY <2>1, <3>1, <3>3 DEF Pending
      <4>2. Is(new, n + 1, "approval.resolved") /\ SameId(new, i, n + 1)
        BY <4>1
      <4> QED
        BY <4>2 DEF Answered
    <3> QED
      BY <3>2, <3>3
  <2> QED
    BY <2>1 DEF Pending
<1> QED
  BY <1>3, <1>4, <1>5

\* A request, of a run all of whose requests have been answered.
LEMMA RequestEvent ==
    ASSUME NEW n \in Nat, NEW old, NEW new, NEW e, OneMore(old, new, n, e),
           NEW says, NEW c \in Nat,
           Asked(old, says, c), Decided(old, "running"),
           Pending(old, "running"),
           e.signal.kind = "approval.requested", e.signal = says[c + 1],
           c + 1 \in DOMAIN says, DOMAIN says = 1..Len(says),
           Len(says) \in Nat,
           \A p, q \in DOMAIN says :
              /\ says[p].kind = "approval.requested"
              /\ says[q].kind = "approval.requested"
              /\ says[p].about.id = says[q].about.id
              => p = q
    PROVE  /\ Asked(new, says, c + 1)
           /\ Decided(new, "awaiting-approval")
           /\ Pending(new, "awaiting-approval")
<1>1. \A i \in 1..(n + 1) : i \in 1..n \/ i = n + 1
  OBVIOUS
<1>2. \A i \in 1..n : i \in 1..(n + 1)
  OBVIOUS
<1> USE <1>1, <1>2 DEF OneMore, Is, SameId
<1>3. Asked(new, says, c + 1)
  <2>1. ASSUME NEW i \in 1..(n + 1), Is(new, i, "approval.requested")
        PROVE  \E p \in 1..(c + 1) :
                  says[p] = new[i].signal /\ (i \in 1..n => p \in 1..c)
    <3>1. CASE i \in 1..n
      <4>1. PICK p \in 1..c : says[p] = old[i].signal
        BY <2>1, <3>1 DEF Asked
      <4> QED
        BY <3>1, <4>1
    <3>2. CASE i = n + 1
      BY <3>2
    <3> QED
      BY <3>1, <3>2
  <2>2. ASSUME NEW i \in 1..n, Is(new, i, "approval.requested"),
               SameId(new, i, n + 1)
        PROVE  FALSE
    <3>1. PICK p \in 1..c : says[p] = new[i].signal
      BY <2>1, <2>2
    <3>2. p \in DOMAIN says /\ p # c + 1
      OBVIOUS
    <3> QED
      BY <2>2, <3>1, <3>2
  <2>3. ASSUME NEW i \in 1..(n + 1), NEW j \in 1..(n + 1),
               Is(new, i, "approval.requested"),
               Is(new, j, "approval.requested"), SameId(new, i, j)
        PROVE  i = j
    <3>1. CASE i \in 1..n /\ j \in 1..n
      BY <2>3, <3>1 DEF Asked
    <3>2. CASE i = n + 1 /\ j \in 1..n
      BY <2>2, <2>3, <3>2
    <3>3. CASE i \in 1..n /\ j = n + 1
      BY <2>2, <2>3, <3>3
    <3> QED
      BY <3>1, <3>2, <3>3
  <2> QED
    BY <2>1, <2>3 DEF Asked
<1>4. Decided(new, "awaiting-approval")
  <2>1. ASSUME NEW m \in 1..(n + 1), Is(new, m, "approval.resolved")
        PROVE  /\ \E i \in 1..(m - 1) : Is(new, i, "approval.requested")
                                         /\ SameId(new, i, m)
               /\ new[m].signal.about.approved
    <3>1. m \in 1..n
      BY <2>1
    <3>2. PICK i \in 1..(m - 1) : Is(old, i, "approval.requested")
                                  /\ SameId(old, i, m)
      BY <2>1, <3>1 DEF Decided
    <3> QED
      BY <2>1, <3>1, <3>2 DEF Decided
  <2> QED
    BY <2>1 DEF Decided
<1>5. Pending(new, "awaiting-approval")
  <2>1. ASSUME NEW i \in 1..n, Is(new, i, "approval.requested")
        PROVE  Answered(new, i)
    <3>1. Answered(old, i)
      BY <2>1 DEF Pending
    <3> QED
      BY <2>1, <3>1 DEF Answered
  <2> QED
    BY <2>1 DEF Pending
<1> QED
  BY <1>3, <1>4, <1>5

\* A signal of the adapter passes the gate of a running run.
LEMMA SignalPasses ==
    ASSUME NEW n \in Nat, NEW old, NEW new, NEW e, OneMore(old, new, n, e),
           NEW says, NEW c,
           Asked(old, says, c), Decided(old, "running"),
           Pending(old, "running"),
           e.signal.kind = "effect.requested" =>
              \E i, m \in 1..n :
                 /\ Is(old, i, "approval.requested")
                 /\ e.signal.about \in old[i].signal.about.scopes
                 /\ Is(old, m, "approval.resolved") /\ SameId(old, i, m)
    PROVE  Passes(new, n + 1)
<1>1. ASSUME NEW i \in 1..n, NEW m \in 1..n,
             Is(old, i, "approval.requested"),
             Is(old, m, "approval.resolved"), SameId(old, i, m)
      PROVE  /\ i < m /\ m \in i..n
             /\ new[m].signal.kind = "approval.resolved"
             /\ new[m].signal.about.id = new[i].signal.about.id
             /\ new[m].signal.about.approved
  <2>1. PICK a \in 1..(m - 1) :
           Is(old, a, "approval.requested") /\ SameId(old, a, m)
    BY <1>1 DEF Decided, OneMore
  <2>2. a \in 1..n /\ a < m
    OBVIOUS
  <2>3. a = i
    BY <1>1, <2>1, <2>2 DEF Asked, OneMore, SameId
  <2>4. old[m].signal.about.approved
    BY <1>1 DEF Decided, OneMore
  <2> QED
    BY <1>1, <2>2, <2>3, <2>4 DEF OneMore, Is, SameId
<1>2. ASSUME NEW i \in 1..n, new[i].signal.kind = "approval.requested"
      PROVE  \E m \in i..(n + 1) :
                /\ new[m].signal.kind = "approval.resolved"
                /\ new[m].signal.about.id = new[i].signal.about.id
                /\ new[m].signal.about.approved
  <2>1. Is(old, i, "approval.requested")
    BY <1>2 DEF OneMore, Is
  <2>2. PICK m \in 1..n : Is(old, m, "approval.resolved") /\ SameId(old, i, m)
    BY <2>1 DEF Pending, Answered, OneMore
  <2> QED
    BY <1>1, <2>1, <2>2
<1>3. ASSUME e.signal.kind = "effect.requested"
      PROVE  \E i \in 1..n : \E m \in i..n :
                /\ new[i].signal.kind = "approval.requested"
                /\ e.signal.about \in new[i].signal.about.scopes
                /\ new[m].signal.kind = "approval.resolved"
                /\ new[m].signal.about.id = new[i].signal.about.id
                /\ new[m].signal.about.approved
  <2>1. PICK i, m \in 1..n :
           /\ Is(old, i, "approval.requested")
           /\ e.signal.about \in old[i].signal.about.scopes
           /\ Is(old, m, "approval.resolved") /\ SameId(old, i, m)
    BY <1>3
  <2>2. new[i] = old[i] /\ new[i].signal.kind = "approval.requested"
    BY <2>1 DEF OneMore, Is
  <2> QED
    BY <1>1, <2>1, <2>2
<1>4. new[n + 1] = e /\ n + 1 - 1 = n
  BY DEF OneMore
<1> QED
  BY <1>2, <1>3, <1>4 DEF Passes

\* What the calls ask about the requests is what the gate says of them.
LEMMA AllAnswered ==
    ASSUME NEW r, NEW state, DOMAIN log[r] \subseteq Nat,
           Pending(log[r], state), ~ UnresolvedApproval(r)
    PROVE  Pending(log[r], "running")
<1> SUFFICES ASSUME NEW i \in DOMAIN log[r],
                    Is(log[r], i, "approval.requested"),
                    ~ Answered(log[r], i)
             PROVE  FALSE
  BY DEF Pending
<1>1. i \in LatestAsk(r)
  BY DEF Pending, LatestAsk, Asks, Is
<1>2. log[r][i].signal.about.id \in Resolved(r)
  BY <1>1 DEF UnresolvedApproval
<1>3. PICK m \in DOMAIN log[r] :
         /\ log[r][m].signal.kind = "approval.resolved"
         /\ log[r][m].signal.about.id = log[r][i].signal.about.id
  BY <1>2 DEF Resolved, Kind, Events
<1> QED
  BY <1>3 DEF Answered, Is, SameId

LEMMA GateStays ==
    ASSUME NEW r \in Runs, Gate(r), UNCHANGED <<run[r], log[r], script[r]>>
    PROVE  Gate(r)'
  BY DEF Gate

\* A step keeps the gate of every run.
LEMMA GateStep ==
    ASSUME HarnessTypeInv, SessionInv, FollowInv, AsksOnce, GateInv,
           NEW k \in Callers, NEW r \in Runs, Changes(k, r)
    PROVE  Gate(r)'
<1>1. /\ RowsInv /\ RowOK(run[r]) /\ LogOK(r) /\ Gate(r)
      /\ DOMAIN run[r] = DOMAIN NoRun /\ run[r].cursor \in Nat
  BY RowIs DEF HarnessTypeInv, GateInv, RowOK
<1>2. PICK old, says, c, state :
         /\ old = log[r] /\ says = script[r]
         /\ c = run[r].cursor /\ state = run[r].state
  OBVIOUS
<1>3. PICK n : n \in Nat /\ DOMAIN old = 1..n /\ n = Len(old) /\ IsSeq(old)
  BY <1>1, <1>2, SeqAppend DEF LogOK
<1>4. /\ Asked(old, says, c) /\ Decided(old, state) /\ Pending(old, state)
      /\ \A j \in 1..n : Passes(old, j)
  BY <1>1, <1>2, <1>3 DEF Gate
<1>5. ASSUME NEW e, log'[r] = Append(old, e)
      PROVE  /\ OneMore(old, log'[r], n, e)
             /\ \A j \in 1..n : Passes(log'[r], j)
             /\ Passes(log'[r], n + 1) =>
                   \A j \in DOMAIN log'[r] : Passes(log'[r], j)
  <2>1. PICK new : new = log'[r]
    OBVIOUS
  <2>2. OneMore(old, new, n, e)
    BY <1>3, <1>5, <2>1, SeqAppend DEF OneMore
  <2>3. \A j \in 1..n : Passes(new, j)
    <3>1. \A i \in 1..n : new[i] = old[i]
      BY <2>2 DEF OneMore
    <3> QED
      BY <1>3, <1>4, <3>1, PassesStill
  <2>4. \A j \in 1..(n + 1) : j \in 1..n \/ j = n + 1
    BY <1>3
  <2> QED
    BY <2>1, <2>2, <2>3, <2>4 DEF OneMore
<1>6. CASE Stays(r)
  BY <1>1, <1>6, GateStays DEF Stays
<1>7. CASE Comes(r)
  <2>1. log'[r] = <<>> /\ DOMAIN log'[r] = {}
    BY <1>7 DEF Comes
  <2> QED
    BY <2>1 DEF Gate, Asked, Decided, Pending
<1>8. CASE GoesOn(k, r)
  <2>1. /\ ~ UnresolvedApproval(r)
        /\ log'[r] = old /\ script'[r] = says /\ run'[r].cursor = c
        /\ run'[r].state = "running" /\ state # "stopped"
    BY <1>1, <1>2, <1>8 DEF GoesOn, GateInv, NoRun
  <2>2. Pending(old, "running")
    <3>1. DOMAIN log[r] \subseteq Nat /\ Pending(log[r], state)
      BY <1>2, <1>3, <1>4
    <3> QED
      BY <1>2, <2>1, <3>1, AllAnswered
  <2>3. Decided(old, "running")
    BY <1>4, <2>1 DEF Decided
  <2> QED
    BY <1>3, <1>4, <2>1, <2>2, <2>3 DEF Gate
<1>9. ASSUME NEW next, NEW signal, Moved(r, next, signal),
             state # "stopped", next # "running",
             signal.kind # "approval.resolved"
      PROVE  Gate(r)'
  <2>1. PICK e : e = [epoch |-> run[r].epoch, signal |-> signal]
    OBVIOUS
  <2>2. /\ log'[r] = Append(old, e) /\ script'[r] = says
        /\ run'[r].cursor = c /\ run'[r].state = next
        /\ e.signal.kind \in OwnKinds /\ e.signal.kind # "approval.resolved"
    BY <1>1, <1>2, <1>9, <2>1 DEF Moved, NoRun
  <2>3. OneMore(old, log'[r], n, e)
    BY <1>5, <2>2
  <2>4. /\ e.signal.kind # "approval.requested"
        /\ e.signal.kind # "effect.requested"
        /\ e.signal.kind \notin AdapterKinds
    BY <2>2 DEF OwnKinds, AdapterKinds
  <2>5. /\ Asked(log'[r], says, c) /\ Decided(log'[r], next)
        /\ Pending(log'[r], next)
    BY <1>1, <1>2, <1>3, <1>4, <1>9, <2>2, <2>3, <2>4, OtherEvent
  <2>6. Passes(log'[r], n + 1)
    BY <2>3, <2>4 DEF Passes, OneMore
  <2> QED
    BY <1>5, <2>2, <2>5, <2>6 DEF Gate
<1>10. CASE Pauses(k, r)
  <2>1. PICK target \in {"paused", "stopped"} :
           Moved(r, target, Signal(Controls(target), "none", 0))
    BY <1>10 DEF Pauses
  <2>2. Signal(Controls(target), "none", 0).kind # "approval.resolved"
    BY DEF Signal, Controls
  <2>3. state # "stopped"
    BY <1>2, <1>10 DEF Pauses, Final
  <2> QED
    BY <1>9, <2>1, <2>2, <2>3
<1>11. CASE Fails(k, r)
  <2>1. Signal("provider.failed", "none", 0).kind # "approval.resolved"
    BY DEF Signal
  <2>2. state # "stopped"
    BY <1>2, <1>11 DEF Fails, SessionInv, WritersLive, LiveSession
  <2> QED
    BY <1>9, <1>11, <2>1, <2>2 DEF Fails
<1>12. CASE Decides(k, r)
  <2>1. PICK ask, next, e :
           /\ ask \in LatestAsk(r) /\ state = "awaiting-approval"
           /\ e.signal.kind = "approval.resolved"
           /\ e.signal.about.id = old[ask].signal.about.id
           /\ e.signal.about.approved \/ next = "stopped"
           /\ next \in {"paused", "stopped"}
           /\ run'[r] = [run[r] EXCEPT !.state = next]
           /\ log'[r] = Append(old, e) /\ script'[r] = says
    <3>1. PICK ask \in LatestAsk(r) :
             LET approved == call[k].target = "approved" IN
             Moved(r, IF approved THEN "paused" ELSE "stopped",
                   Signal("approval.resolved",
                          [id |-> log[r][ask].signal.about.id,
                           approved |-> approved], 0))
      BY <1>12 DEF Decides
    <3>2. PICK e, next :
             /\ e = [epoch |-> run[r].epoch,
                     signal |-> Signal("approval.resolved",
                        [id |-> log[r][ask].signal.about.id,
                         approved |-> call[k].target = "approved"], 0)]
             /\ next = IF call[k].target = "approved" THEN "paused"
                                                      ELSE "stopped"
      OBVIOUS
    <3> QED
      BY <1>2, <1>12, <3>1, <3>2 DEF Moved, Decides, Signal
  <2>2. run'[r].cursor = c /\ run'[r].state = next
    BY <1>1, <1>2, <2>1 DEF NoRun
  <2>3. OneMore(old, log'[r], n, e)
    BY <1>5, <2>1
  <2>4. /\ ask \in 1..n /\ Is(old, ask, "approval.requested")
        /\ \A j \in 1..n : Is(old, j, "approval.requested") => j <= ask
    BY <1>2, <1>3, <2>1 DEF LatestAsk, Asks, Is
  <2>5. /\ Asked(log'[r], says, c) /\ Decided(log'[r], next)
        /\ Pending(log'[r], next)
    BY <1>1, <1>2, <1>3, <1>4, <2>1, <2>3, <2>4, DecisionEvent
  <2>6. Passes(log'[r], n + 1)
    BY <2>1, <2>3 DEF Passes, OneMore, AdapterKinds
  <2> QED
    BY <1>5, <2>1, <2>2, <2>5, <2>6 DEF Gate
<1>13. ASSUME NEW s, Takes(k, r, s) PROVE Gate(r)'
  <2>1. PICK e : e = [epoch |-> run[r].epoch, signal |-> s]
    OBVIOUS
  <2>2. /\ call[k].seen = run[r] /\ call[k].pos = c + 1
        /\ state = "running" /\ Acceptable(r, s)
    BY <1>2, <1>13 DEF Takes, FollowInv, SessionOK, LiveSession
  <2>3. /\ log'[r] = Append(old, e) /\ script'[r] = says /\ e.signal = s
        /\ run'[r].cursor = c + 1 /\ run'[r].state = Boundary(s)
        /\ c + 1 \in 1..Len(says) /\ s = says[c + 1] /\ c \in Nat
    BY <1>1, <1>2, <1>13, <2>1, <2>2 DEF Takes, NoRun
  <2>4. /\ s.kind \in AdapterKinds /\ DOMAIN says = 1..Len(says)
        /\ Len(says) \in Nat
    BY <1>1, <1>2, <2>3, ScriptSays
  <2>5. OneMore(old, log'[r], n, e)
    BY <1>5, <2>3
  <2>6. /\ Asked(log'[r], says, c + 1) /\ Decided(log'[r], Boundary(s))
        /\ Pending(log'[r], Boundary(s))
    <3>1. CASE s.kind = "approval.requested"
      <4>1. Boundary(s) = "awaiting-approval"
        BY <3>1 DEF Boundary
      <4>2. says \in Scripts
        BY <1>1, <1>2, <2>3 DEF RowsInv
      <4>3. \A p, q \in DOMAIN says :
               /\ says[p].kind = "approval.requested"
               /\ says[q].kind = "approval.requested"
               /\ says[p].about.id = says[q].about.id
               => p = q
        BY <4>2 DEF AsksOnce
      <4>4. Decided(old, "running") /\ Pending(old, "running")
        BY <1>4, <2>2
      <4>5. /\ e.signal.kind = "approval.requested" /\ e.signal = says[c + 1]
            /\ c + 1 \in DOMAIN says
        BY <2>3, <2>4, <3>1
      <4>6. c \in Nat /\ n \in Nat /\ DOMAIN says = 1..Len(says)
            /\ Len(says) \in Nat
        BY <1>3, <2>3, <2>4
      <4>7. PICK new : new = log'[r] /\ OneMore(old, new, n, e)
        BY <2>5
      <4>8. /\ Asked(new, says, c + 1) /\ Decided(new, "awaiting-approval")
            /\ Pending(new, "awaiting-approval")
        BY <1>4, <4>3, <4>4, <4>5, <4>6, <4>7, RequestEvent
      <4> QED
        BY <4>1, <4>7, <4>8
    <3>2. CASE s.kind # "approval.requested"
      <4>1. s.kind # "approval.resolved"
        BY <2>4 DEF AdapterKinds
      <4>2. c <= c + 1 /\ c + 1 \in Nat
        BY <2>3
      <4> QED
        BY <1>3, <1>4, <2>2, <2>3, <2>5, <3>2, <4>1, <4>2, OtherEvent
    <3> QED
      BY <3>1, <3>2
  <2>7. ASSUME s.kind = "effect.requested"
        PROVE  \E i, m \in 1..n :
                 /\ Is(old, i, "approval.requested")
                 /\ s.about \in old[i].signal.about.scopes
                 /\ Is(old, m, "approval.resolved") /\ SameId(old, i, m)
    <3>1. ApprovedPermission(r, s.about)
      BY <2>2, <2>7 DEF Acceptable
    <3>2. PICK i \in Asks(r), t \in Kind(r, "approval.resolved") :
             /\ s.about \in log[r][i].signal.about.scopes
             /\ t.about.id = log[r][i].signal.about.id
      BY <3>1 DEF ApprovedPermission
    <3>3. PICK m \in DOMAIN log[r] : t = log[r][m].signal
      BY DEF Kind, Events
    <3>4. t.kind = "approval.resolved"
      BY DEF Kind
    <3>5. i \in DOMAIN log[r] /\ log[r][i].signal.kind = "approval.requested"
      BY DEF Asks
    <3> QED
      BY <1>2, <1>3, <3>2, <3>3, <3>4, <3>5 DEF Is, SameId
  <2>8. Passes(log'[r], n + 1)
    BY <1>3, <1>4, <2>2, <2>3, <2>5, <2>7, SignalPasses
  <2> QED
    BY <1>5, <2>3, <2>6, <2>8 DEF Gate
<1> QED
  BY <1>6, <1>7, <1>8, <1>10, <1>11, <1>12, <1>13 DEF Changes

LEMMA UnresolvedStays ==
    ASSUME NEW r, UNCHANGED log, ~ UnresolvedApproval(r)
    PROVE  ~ UnresolvedApproval(r)'
<1>1. Asks(r)' = Asks(r) /\ Events(r)' = Events(r)
  BY DEF Asks, Events
<1>2. LatestAsk(r)' = LatestAsk(r)
  BY <1>1 DEF LatestAsk
<1>3. Kind(r, "approval.resolved")' = Kind(r, "approval.resolved")
  BY <1>1 DEF Kind
<1>4. Resolved(r)' = Resolved(r)
  BY <1>3 DEF Resolved
<1> QED
  BY <1>2, <1>4 DEF UnresolvedApproval

LEMMA GateInit == HarnessInit => GateInv
<1> SUFFICES ASSUME HarnessInit PROVE GateInv
  OBVIOUS
<1>1. \A r \in Runs : log[r] = <<>> /\ DOMAIN log[r] = {}
  BY DEF HarnessInit
<1>2. \A k \in Callers : call[k].at = "idle"
  BY DEF HarnessInit, Idle
<1> QED
  BY <1>1, <1>2 DEF GateInv, Gate, Asked, Decided, Pending

LEMMA GateInvStep ==
    ASSUME OneHost, AsksOnce, HarnessTypeInv, SessionInv, FollowInv, GateInv,
           [HarnessNext]_harnessVars
    PROVE  GateInv'
<1>1. ASSUME NEW k \in Callers, Call(k) PROVE GateInv'
  <2>1. \A r \in Runs : Gate(r)'
    BY <1>1, RunChanges, GateStep
  <2>2. ASSUME NEW j \in Callers, call'[j].at = "resuming"
        PROVE  ~ UnresolvedApproval(call[j].run)'
    <3>1. j = k
      BY <1>1, <2>2, OthersWait DEF Checked
    <3>2. PICK r : r = call'[j].run
      OBVIOUS
    <3>3. UNCHANGED log /\ ~ UnresolvedApproval(r)
      BY <1>1, <2>2, <3>1, <3>2, Places DEF Resume, rows
    <3>4. ~ UnresolvedApproval(r)'
      BY <3>3, UnresolvedStays
    <3> QED
      BY <3>2, <3>4
  <2> QED
    BY <2>1, <2>2 DEF GateInv
<1>2. CASE \E h \in {HostOf[k] : k \in Callers} : Crash(h)
  <2>1. \A k \in Callers : call'[k].at = "idle"
    BY <1>2 DEF Crash, OneHost, Idle
  <2>2. \A r \in Runs : Gate(r)'
    BY <1>2, GateStays DEF Crash, rows, GateInv
  <2> QED
    BY <2>1, <2>2 DEF GateInv
<1>3. CASE UNCHANGED harnessVars
  <2>1. UNCHANGED <<run, log, script, call>>
    BY <1>3 DEF harnessVars
  <2>2. \A r \in Runs : Gate(r)'
    BY <2>1, GateStays DEF GateInv
  <2>3. ASSUME NEW j \in Callers, call'[j].at = "resuming"
        PROVE  ~ UnresolvedApproval(call[j].run)'
    <3>1. PICK r : r = call[j].run /\ ~ UnresolvedApproval(r)
      BY <2>1, <2>3 DEF GateInv
    <3>2. ~ UnresolvedApproval(r)'
      BY <2>1, <3>1, UnresolvedStays
    <3> QED
      BY <2>1, <3>1, <3>2
  <2> QED
    BY <2>2, <2>3 DEF GateInv
<1> QED
  BY <1>1, <1>2, <1>3 DEF HarnessNext

\* In one host, with adapters that ask once under an id, nothing bypasses an
\* approval: neither does a run go on past a request that was not approved,
\* nor is an effect requested that no earlier decision permits.
THEOREM ApprovalsGateInOneHost ==
    OneHost /\ AsksOnce => (HarnessSpec => []ApprovalsGate)
<1> SUFFICES ASSUME OneHost, AsksOnce PROVE HarnessSpec => []ApprovalsGate
  OBVIOUS
<1>1. HarnessTypeInv /\ [HarnessNext]_harnessVars => HarnessTypeInv'
  BY TypeStep
<1>2. SessionInv /\ [HarnessNext]_harnessVars => SessionInv'
  BY SessionStep
<1>3. /\ HarnessTypeInv /\ HarnessTypeInv' /\ SessionInv /\ FollowInv
      /\ [HarnessNext]_harnessVars
      => FollowInv'
  BY FollowStep
<1>4. /\ HarnessTypeInv /\ SessionInv /\ FollowInv /\ GateInv
      /\ [HarnessNext]_harnessVars
      => GateInv'
  BY GateInvStep
<1>5. GateInv => ApprovalsGate
  BY DEF GateInv, Gate, Passes, ApprovalsGate
<1> QED
  BY <1>1, <1>2, <1>3, <1>4, <1>5, TypeInit, SessionInit, FollowInit,
     GateInit, PTL DEF HarnessSpec
=============================================================================
