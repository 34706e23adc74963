-------------------------- MODULE HarnessLifecycle --------------------------
(***************************************************************************)
(* The runs of a harness task: HarnessLifecycleStore, which starts a run,  *)
(* drains the signals of its adapter's session into a log, and lets people *)
(* pause, resume, stop, approve and hand over what runs.                   *)
(*                                                                         *)
(* A call reads and checks first and then changes the database in one      *)
(* transaction.  Nothing of the same host comes between the two, since     *)
(* neither awaits; a call of another host that shares the database may.  A *)
(* session awaits its adapter between two signals.                         *)
(***************************************************************************)
EXTENDS Integers, Sequences, SequencesExt

CONSTANTS
    Runs,        \* run ids
    Callers,     \* calls that are under way at the same time
    HostOf,      \* the process each call is in
    Scripts,     \* what an adapter may say, from its first signal to its last
    Ceiling,     \* the permissions of the task
    TokenBudget, \* the token budget of the task
    None,        \* no run
    MaxEpoch,    \* bound: dispatch epochs of a run
    MaxCrashes   \* bound: crashes of a host

VARIABLES
    run,         \* the row of each run
    log,         \* the lifecycle events of each run
    script,      \* what the adapter of a run says
    checkpoints, \* the ids of the checkpoints
    call,        \* where each call is, and what it read
    crashes

harnessVars == <<run, log, script, checkpoints, call, crashes>>

RunStates == {"none", "queued", "running", "awaiting-approval", "paused",
              "stopped", "completed", "failed"}

\* Mutant: a failed run can still be controlled.
FinalUnlessFailed == {"completed", "stopped"}

Final == {"completed", "failed", "stopped"}

AdapterKinds == {"delta", "usage", "checkpoint", "approval.requested",
                 "effect.requested", "run.completed", "run.failed"}
OwnKinds == {"run.paused", "run.stopped", "approval.resolved",
             "provider.failed"}

\* A signal: its kind, what it names (a permission, an approval, a
\* checkpoint or a decision), and the tokens it uses.
Signal(kind, about, tokens) ==
    [kind |-> kind, about |-> about, tokens |-> tokens]

ASSUME HarnessAssumption ==
    /\ TokenBudget \in Nat /\ MaxEpoch \in Nat \ {0} /\ MaxCrashes \in Nat
    /\ None \notin Runs
    /\ \A s \in Scripts :
          /\ s \in Seq(Range(s))
          /\ \A i \in DOMAIN s :
                /\ s[i].kind \in AdapterKinds
                /\ s[i].tokens \in IF s[i].kind = "usage" THEN Nat ELSE {0}

\* Where a call has checked and has not yet changed anything.
Checked == {"opening", "caught", "accepting", "failing", "resuming",
            "controlling", "resolving", "handing"}

NoRun == [state |-> "none", epoch |-> 1, cursor |-> 0, budget |-> 0,
          granted |-> 0, checkpoint |-> "none", parent |-> None]

Idle == [at |-> "idle", run |-> None, epoch |-> 0, pos |-> 0,
         target |-> "none", seen |-> NoRun]

RowOK(row) ==
    /\ DOMAIN row = DOMAIN NoRun
    /\ row.state \in RunStates
    /\ row.epoch \in 1..MaxEpoch
    /\ row.cursor \in Nat
    /\ row.budget \in 0..TokenBudget /\ row.granted \in 0..TokenBudget
    /\ row.checkpoint \in checkpoints \union {"none"}
    /\ row.parent \in Runs \union {None}

HarnessTypeOK ==
    /\ DOMAIN run = Runs /\ \A r \in Runs : RowOK(run[r])
    /\ DOMAIN log = Runs
    /\ \A r \in Runs : \A i \in DOMAIN log[r] :
          /\ log[r][i].epoch \in 1..run[r].epoch
          /\ log[r][i].signal.kind \in AdapterKinds \union OwnKinds
    /\ script \in [Runs -> Scripts \union {<<>>}]
    /\ DOMAIN call = Callers
    /\ \A k \in Callers :
          /\ DOMAIN call[k] = DOMAIN Idle
          /\ call[k].at \in Checked \union {"idle", "draining"}
          /\ call[k].at = "idle" <=> call[k].run = None
    /\ crashes \in 0..MaxCrashes

HarnessInit ==
    /\ run = [r \in Runs |-> NoRun]
    /\ log = [r \in Runs |-> <<>>]
    /\ script = [r \in Runs |-> <<>>]
    /\ checkpoints = {}
    /\ call = [k \in Callers |-> Idle]
    /\ crashes = 0

-----------------------------------------------------------------------------
(* What the log says.                                                      *)

Events(r) == {log[r][i].signal : i \in DOMAIN log[r]}

Kind(r, kind) == {s \in Events(r) : s.kind = kind}

Asks(r) ==
    {i \in DOMAIN log[r] : log[r][i].signal.kind = "approval.requested"}

\* latestApprovalRequest
LatestAsk(r) == {i \in Asks(r) : \A j \in Asks(r) : j <= i}

Resolved(r) == {s.about.id : s \in Kind(r, "approval.resolved")}

\* Mutant: the state is asked, and not the log.
AwaitsApproval(r) == run[r].state = "awaiting-approval"

\* hasUnresolvedApproval looks at the latest request only.
UnresolvedApproval(r) ==
    \E i \in LatestAsk(r) : log[r][i].signal.about.id \notin Resolved(r)

\* Of two requests of one id, the later says what is permitted.
ApprovedPermission(r, permission) ==
    \E i \in Asks(r), t \in Kind(r, "approval.resolved") :
        LET asked == log[r][i].signal.about IN
        /\ \A j \in Asks(r) : log[r][j].signal.about.id = asked.id => j <= i
        /\ permission \in asked.scopes
        /\ t.about.id = asked.id /\ t.about.approved

PendingEffect(r) == Kind(r, "effect.requested") # {}

\* append, in a transaction, which asserts the epoch first.
Appended(r, epoch, signal) ==
    log' = [log EXCEPT ![r] = Append(@, [epoch |-> epoch, signal |-> signal])]

-----------------------------------------------------------------------------
(* Calls.                                                                  *)

\* No other call of the same host is between its checks and its transaction.
Alone(k) ==
    \A j \in Callers \ {k} :
        HostOf[j] = HostOf[k] => call[j].at \notin Checked

Free(k) == Alone(k) /\ call[k].at = "idle"

At(k, where) == Alone(k) /\ call[k].at = where

Now(k, where) == call' = [call EXCEPT ![k].at = where, ![k].seen = NoRun]

\* Mutant: the run of the last call stays behind.
ReturnKeepsRun(k) == call' = [call EXCEPT ![k].at = "idle"]

Return(k) == call' = [call EXCEPT ![k] = Idle]

Begin(k, where, r, target) ==
    call' = [call EXCEPT ![k] = [Idle EXCEPT !.at = where, !.run = r,
                                             !.epoch = run[r].epoch,
                                             !.target = target]]

rows == <<run, log, script, checkpoints>>

\* An adapter is selected for the run.
Begins(r) == \E s \in Scripts : script' = [script EXCEPT ![r] = s]

Start(k, r) ==
    /\ Free(k)
    /\ run[r].state = "none"
    /\ run' = [run EXCEPT ![r] = [NoRun EXCEPT !.state = "running",
                                               !.budget = TokenBudget,
                                               !.granted = TokenBudget]]
    /\ Begins(r)
    /\ call' = [call EXCEPT ![k] = [Idle EXCEPT !.at = "opening", !.run = r,
                                                !.epoch = 1]]
    /\ UNCHANGED <<log, checkpoints, crashes>>

Resume(k, r) ==
    /\ Free(k)
    /\ run[r].state \in {"paused", "queued"}
    /\ ~ UnresolvedApproval(r)
    /\ ~ PendingEffect(r)
    /\ run[r].epoch < MaxEpoch
    /\ Begin(k, "resuming", r, "none")
    /\ UNCHANGED <<rows, crashes>>

\* The update names the epoch, so one of two resumptions loses.
Resumed(k) ==
    LET r == call[k].run IN
    /\ At(k, "resuming")
    /\ IF run[r].epoch = call[k].epoch /\ run[r].state \in {"paused", "queued"}
       THEN /\ run' = [run EXCEPT ![r].state = "running", ![r].epoch = @ + 1]
            /\ call' = [call EXCEPT ![k].at = "opening", ![k].epoch = @ + 1]
       ELSE Return(k) /\ UNCHANGED run
    /\ UNCHANGED <<log, script, checkpoints, crashes>>

\* pause and stop of a run whose epoch the client knows.
Control(k, r, target) ==
    /\ Free(k)
    /\ run[r].state \notin Final \union {"none", target}
    /\ Begin(k, "controlling", r, target)
    /\ UNCHANGED <<rows, crashes>>

Controls(target) == IF target = "paused" THEN "run.paused" ELSE "run.stopped"

Controlled(k) ==
    LET r == call[k].run IN
    /\ At(k, "controlling")
    /\ IF /\ run[r].epoch = call[k].epoch
          /\ run[r].state \notin Final \union {call[k].target}
       THEN /\ Appended(r, call[k].epoch,
                        Signal(Controls(call[k].target), "none", 0))
            /\ run' = [run EXCEPT ![r].state = call[k].target]
       ELSE UNCHANGED <<run, log>>
    /\ Return(k)
    /\ UNCHANGED <<script, checkpoints, crashes>>

ResolveApproval(k, r, decision) ==
    /\ Free(k)
    /\ run[r].state = "awaiting-approval"
    /\ UnresolvedApproval(r)
    /\ Begin(k, "resolving", r, decision)
    /\ UNCHANGED <<rows, crashes>>

Resolves(k, state) ==
    LET r == call[k].run IN
    /\ At(k, "resolving")
    /\ IF /\ run[r].epoch = call[k].epoch
          /\ run[r].state = "awaiting-approval"
       THEN /\ run' = [run EXCEPT ![r].state = state]
            /\ \E i \in LatestAsk(r) :
                  Appended(r, call[k].epoch,
                     Signal("approval.resolved",
                            [id |-> log[r][i].signal.about.id,
                             approved |-> call[k].target = "approved"], 0))
       ELSE UNCHANGED <<run, log>>
    /\ Return(k)
    /\ UNCHANGED <<script, checkpoints, crashes>>

ApprovalResolved(k) ==
    Resolves(k, IF call[k].target = "approved" THEN "paused" ELSE "stopped")

CreateHandoff(k, r) ==
    /\ Free(k)
    /\ run[r].state = "completed"
    /\ ~ UnresolvedApproval(r) /\ ~ PendingEffect(r)
    /\ run[r].checkpoint # "none"
    /\ call' = [call EXCEPT ![k] = [Idle EXCEPT !.at = "handing", !.run = r,
                                                !.seen = run[r]]]
    /\ UNCHANGED <<rows, crashes>>

\* The child gets what is left of the budget.  A completed run is compared
\* with what was read; the id of the child must be new.
HandedOver(k, child) ==
    LET r == call[k].run IN
    /\ At(k, "handing")
    /\ IF run[r] = call[k].seen /\ run[child].state = "none"
       THEN /\ run' = [run EXCEPT ![child] =
                         [NoRun EXCEPT !.state = "queued",
                                       !.budget = run[r].budget,
                                       !.granted = run[r].budget,
                                       !.checkpoint = run[r].checkpoint,
                                       !.parent = r]]
            /\ Begins(child)
       ELSE UNCHANGED <<run, script>>
    /\ Return(k)
    /\ UNCHANGED <<log, checkpoints, crashes>>

-----------------------------------------------------------------------------
(* The drain of an adapter's session.                                      *)

\* The adapter is asked for what comes after the cursor.
Open(k) ==
    /\ At(k, "opening")
    /\ call' = [call EXCEPT ![k].at = "draining",
                            ![k].pos = run[call[k].run].cursor]
    /\ UNCHANGED <<rows, crashes>>

Next1(k) == script[call[k].run][call[k].pos + 1]

\* The checks of acceptAdapterSignal, before its transaction.
Acceptable(r, s) ==
    CASE s.kind = "approval.requested" -> s.about.scopes \subseteq Ceiling
      [] s.kind = "effect.requested" ->
            s.about \in Ceiling /\ ApprovedPermission(r, s.about)
      [] s.kind = "usage" -> s.tokens <= run[r].budget
      [] OTHER -> TRUE

LiveSession(k) ==
    LET r == call[k].run IN
    run[r].epoch = call[k].epoch /\ run[r].state = "running"

Receive(k) ==
    /\ At(k, "draining")
    /\ call[k].pos < Len(script[call[k].run])
    /\ call' = [call EXCEPT
          ![k].pos = @ + 1,
          ![k].seen = run[call[k].run],
          ![k].at = IF LiveSession(k) /\ Acceptable(call[k].run, Next1(k))
                    THEN "accepting" ELSE "caught"]
    /\ UNCHANGED <<rows, crashes>>

SessionFails(k) ==
    /\ At(k, "draining")
    /\ Now(k, "caught")
    /\ UNCHANGED <<rows, crashes>>

\* The stream ends without a boundary, and the run is left running.
SessionEnds(k) ==
    /\ At(k, "draining")
    /\ call[k].pos = Len(script[call[k].run])
    /\ Return(k)
    /\ UNCHANGED <<rows, crashes>>

Boundary(s) ==
    CASE s.kind = "approval.requested" -> "awaiting-approval"
      [] s.kind = "effect.requested" -> "paused"
      [] s.kind = "run.completed" -> "completed"
      [] s.kind = "run.failed" -> "failed"
      [] OTHER -> "running"

\* Mutant: the cursor only counts the signals between boundaries.
CursorAfterBoundary(row, seen, s) ==
    IF row.state # "running" \/ row.epoch # seen.epoch THEN row
    ELSE [row EXCEPT
           !.state = Boundary(s),
           !.cursor = IF Boundary(s) = "running" THEN @ + 1 ELSE @,
           !.budget = seen.budget - s.tokens,
           !.checkpoint = IF s.kind = "checkpoint" THEN s.about ELSE @]

\* The row after a signal.  The update names the epoch and the state, and
\* nobody asks whether it changed a row.
After(row, seen, s) ==
    IF row.state # "running" \/ row.epoch # seen.epoch THEN row
    ELSE [row EXCEPT
           !.state = Boundary(s),
           !.cursor = @ + 1,
           !.budget = seen.budget - s.tokens,
           !.checkpoint = IF s.kind = "checkpoint" THEN s.about ELSE @]

\* The transaction fails when the epoch has moved on or a checkpoint of that
\* id exists, in any run.
Accept(k) ==
    LET r == call[k].run
        s == script[r][call[k].pos]
        again == s.kind = "checkpoint" /\ s.about \in checkpoints IN
    /\ At(k, "accepting")
    /\ IF run[r].epoch # call[k].epoch \/ again
       THEN Now(k, "caught") /\ UNCHANGED <<run, log, checkpoints>>
       ELSE /\ Appended(r, call[k].epoch, s)
            /\ run' = [run EXCEPT ![r] = After(@, call[k].seen, s)]
            /\ checkpoints' = IF s.kind = "checkpoint"
                              THEN checkpoints \union {s.about}
                              ELSE checkpoints
            /\ IF Boundary(s) # "running" THEN Return(k)
               ELSE Now(k, "draining")
    /\ UNCHANGED <<script, crashes>>

\* Only the session that is current may fail the run.
Catch(k) ==
    /\ At(k, "caught")
    /\ IF LiveSession(k) THEN Now(k, "failing") ELSE Return(k)
    /\ UNCHANGED <<rows, crashes>>

\* The append asserts the epoch; the update names only the run.
FailRun(k) ==
    LET r == call[k].run IN
    /\ At(k, "failing")
    /\ IF run[r].epoch = call[k].epoch
       THEN /\ Appended(r, call[k].epoch, Signal("provider.failed", "none", 0))
            /\ run' = [run EXCEPT ![r].state = "failed"]
       ELSE UNCHANGED <<run, log>>
    /\ Return(k)
    /\ UNCHANGED <<script, checkpoints, crashes>>

Drain(k) ==
    \/ Open(k) \/ Receive(k) \/ SessionFails(k) \/ SessionEnds(k)
    \/ Accept(k) \/ Catch(k) \/ FailRun(k)

\* A host dies, and what it had not committed is rolled back.
Crash(h) ==
    /\ crashes < MaxCrashes
    /\ crashes' = crashes + 1
    /\ call' = [k \in Callers |-> IF HostOf[k] = h THEN Idle ELSE call[k]]
    /\ UNCHANGED rows

-----------------------------------------------------------------------------
Call(k) ==
    \/ \E r \in Runs :
          \/ Start(k, r) \/ Resume(k, r) \/ CreateHandoff(k, r)
          \/ HandedOver(k, r)
          \/ \E target \in {"paused", "stopped"} : Control(k, r, target)
          \/ \E decision \in {"approved", "rejected"} :
                ResolveApproval(k, r, decision)
    \/ Resumed(k) \/ Controlled(k) \/ ApprovalResolved(k)
    \/ Drain(k)

HarnessNext ==
    \/ \E k \in Callers : Call(k)
    \/ \E h \in {HostOf[k] : k \in Callers} : Crash(h)

HarnessSpec == HarnessInit /\ [][HarnessNext]_harnessVars

-----------------------------------------------------------------------------
(* Properties.                                                             *)

\* What events add up to: the signals of the adapter, and the tokens used.
Counted(tally, signal) ==
    [signals |-> IF signal.kind \in AdapterKinds
                 THEN Append(tally.signals, signal) ELSE tally.signals,
     tokens |-> tally.tokens + signal.tokens]

Tally(events) ==
    LET upTo[i \in 0..Len(events)] ==
          IF i = 0 THEN [signals |-> <<>>, tokens |-> 0]
                   ELSE Counted(upTo[i - 1], events[i].signal)
    IN  upTo[Len(events)]

\* The row follows the log: each signal of the adapter was accepted once and
\* in its order, up to the cursor, although sessions overlap, fail and are
\* opened again; what it used was taken from the budget; and no session that
\* was replaced wrote after the one that replaced it.
RowFollowsLog ==
    \A r \in Runs :
        /\ Tally(log[r]).signals = SubSeq(script[r], 1, run[r].cursor)
        /\ run[r].budget + Tally(log[r]).tokens = run[r].granted
        /\ \A i, j \in DOMAIN log[r] :
              i < j => log[r][i].epoch <= log[r][j].epoch

\* Nothing bypasses an approval: a run goes on after a request only when it
\* was approved, and an effect is requested only when its permission was,
\* by a decision that came after the request for it.
ApprovalsGate ==
    \A r \in Runs : \A j \in DOMAIN log[r] :
        LET s == log[r][j].signal
            Approves(i, id) ==
                /\ log[r][i].signal.kind = "approval.resolved"
                /\ log[r][i].signal.about.id = id
                /\ log[r][i].signal.about.approved IN
        /\ s.kind \in AdapterKinds =>
              \A i \in 1..(j - 1) :
                 log[r][i].signal.kind = "approval.requested" =>
                    \E m \in i..j : Approves(m, log[r][i].signal.about.id)
        /\ s.kind = "effect.requested" =>
              \E i \in 1..(j - 1) : \E m \in i..(j - 1) :
                 /\ log[r][i].signal.kind = "approval.requested"
                 /\ s.about \in log[r][i].signal.about.scopes
                 /\ Approves(m, log[r][i].signal.about.id)

\* A run that is over stays as it is, whatever a late session or a late call
\* brings: neither its state nor its log moves.
OverIsOver ==
    [][\A r \in Runs : run[r].state \in {"completed", "failed", "stopped"} =>
          run'[r] = run[r] /\ log'[r] = log[r]]_harnessVars
=============================================================================
