----------------------------- MODULE CallAsync -----------------------------
(***************************************************************************)
(* CallAsync, PendingCall.Await and PendingCall.Cancel                     *)
(* (internal/instance/callasync.go), with what they share an instance with:*)
(* synchronous Call, Instance.Close, the scheduler that runs guest tasks,  *)
(* and AsyncCall.Resolve called by host goroutines at any time.            *)
(*                                                                         *)
(* A goroutine g executes one operation op[g] at a time; pc[g] is the      *)
(* point it has reached.  A section of the code under Instance.amu is one  *)
(* step.  Guest code is whatever the goroutine that runs it lets it do:    *)
(* call an async import, wait, wake another task, exit or trap.            *)
(***************************************************************************)
EXTENDS SeqOps, FiniteSets

CONSTANTS Procs,          \* host goroutines that use the instance
          AsyncTasks,     \* calls that may be made with CallAsync
          SyncTasks,      \* calls that may be made with Call
          StackTasks,     \* tasks whose park holds a goroutine
          AsyncCalls,     \* AsyncCall objects, one per async host import call
          Completers,     \* host goroutines that call AsyncCall.Resolve
          MaxSignals,     \* bound on the wake-ups guest tasks give each other
          CloseOverlaps,  \* may Close and CallAsync run at the same time?
          Deadlines,      \* operations whose context may end before they do
          NoTask, NoCall

Tasks == AsyncTasks \cup SyncTasks

ASSUME CallAsyncAssumption ==
  /\ NoTask \notin Tasks
  /\ NoCall \notin AsyncCalls
  /\ MaxSignals \in Nat
  /\ CloseOverlaps \in BOOLEAN
  /\ Deadlines \subseteq {"await", "cancel", "close"}

VARIABLES
  \* goroutines
  pc, op,
  on,              \* the call the operation is about
  run,             \* the task whose guest code the goroutine runs
  ret,             \* where a mailbox drain returns to
  batch,           \* the completions drainMailbox took
  arg,             \* the AsyncCall of the host import being executed
  outcome,         \* how the call ended
  ctx,             \* "live", "done", or "notified" after the watcher's Broadcast
  \* Instance
  locked,          \* syncCallMu
  pending, asyncActive, mailbox, poisoned,
  closing,         \* Close was called
  shut,            \* core modules and handle table closed
  \* PendingCall
  closed, lease, driver, cancelRequested, calls,
  handed,          \* calls whose PendingCall CallAsync returned
  overtaken,       \* a Close took the driver role before its CallAsync did
  \* sched and tasks
  runq, parked, task,
  event,           \* tasks that a wait would find an event for
  signals,         \* wake-ups between guest tasks so far
  \* AsyncCall
  state, owner,
  applied,         \* how often the completion was applied to the subtask
  stray,           \* AsyncCalls applied by a goroutine that is not the driver
  loaded           \* per completer: a Resolve that has read asyncActive

goVars    == <<pc, op, on, run, ret, batch, arg, outcome, ctx>>
instVars  == <<locked, pending, asyncActive, mailbox, poisoned, closing, shut>>
pendVars  == <<closed, lease, driver, cancelRequested, calls, handed, overtaken>>
schedVars == <<runq, parked, task, event, signals>>
acVars    == <<state, owner, applied, stray>>
resVars   == <<acVars, loaded>>
goAim     == <<op, on>>
schedTasks == <<runq, parked, task>>
pendRest  == <<cancelRequested, calls, handed, overtaken>>
resRest   == <<owner, applied, stray, loaded>>
goRest    == <<op, on, run, ret, batch, arg, outcome, ctx>>
instCtl   == <<poisoned, closing, shut>>
instRest  == <<pending, asyncActive, mailbox, instCtl>>
vars == <<goVars, instVars, pendVars, schedVars, acVars, loaded>>

Ops == {"none", "callasync", "call", "await", "cancel", "close"}
Labels == {"idle", "tryLock", "publish", "activate", "start", "claim", "drive",
           "resume", "hostfn", "drain", "apply", "finish", "reap", "unlease",
           "release", "await", "wait", "asleep", "cancel", "waitDone",
           "lockCall", "unlock", "lockClose", "closeReap", "closeTable"}

\* Labels at which a goroutine may read and write scheduler and guest state.
Driving == {"start", "drive", "resume", "hostfn", "apply", "reap", "closeReap",
            "closeTable"}

Init ==
  /\ pc = [g \in Procs |-> "idle"]
  /\ op = [g \in Procs |-> "none"]
  /\ on = [g \in Procs |-> NoTask]
  /\ run = [g \in Procs |-> NoTask]
  /\ ret = [g \in Procs |-> "drive"]
  /\ batch = [g \in Procs |-> <<>>]
  /\ arg = [g \in Procs |-> NoCall]
  /\ outcome = [g \in Procs |-> "ok"]
  /\ ctx = [g \in Procs |-> "live"]
  /\ locked = FALSE /\ pending = NoTask /\ asyncActive = FALSE
  /\ mailbox = <<>> /\ poisoned = FALSE /\ closing = FALSE /\ shut = FALSE
  /\ closed = [t \in Tasks |-> FALSE]
  /\ lease = [t \in Tasks |-> FALSE]
  /\ driver = [t \in Tasks |-> FALSE]
  /\ cancelRequested = [t \in Tasks |-> FALSE]
  /\ calls = [t \in Tasks |-> {}]
  /\ handed = {} /\ overtaken = FALSE
  /\ runq = <<>> /\ parked = <<>>
  /\ task = [t \in Tasks |-> "new"]
  /\ event = {} /\ signals = 0
  /\ state = [a \in AsyncCalls |-> "open"]
  /\ owner = [a \in AsyncCalls |-> NoTask]
  /\ applied = [a \in AsyncCalls |-> 0]
  /\ stray = {}
  /\ loaded = [c \in Completers |-> <<>>]

-----------------------------------------------------------------------------
(* Steps of control, and the condition variable. *)
Goto(g, l) == pc' = [pc EXCEPT ![g] = l]

\* acond.Broadcast by g, which goes on to l.
Broadcast(g, l) ==
  pc' = [h \in Procs |-> IF h = g THEN l
                         ELSE IF pc[h] = "asleep" THEN "wait" ELSE pc[h]]

\* acond.Signal: at most one goroutine is asleep.
SignalNone == pc' = pc                   \* mutant: nobody is woken
Signal ==
  pc' = [h \in Procs |-> IF pc[h] = "asleep" THEN "wait" ELSE pc[h]]

Begin(g, o, t, l) ==
  /\ pc[g] = "idle"
  /\ Goto(g, l)
  /\ op' = [op EXCEPT ![g] = o]
  /\ on' = [on EXCEPT ![g] = t]
  /\ outcome' = [outcome EXCEPT ![g] = "ok"]
  /\ ctx' = [ctx EXCEPT ![g] = "live"]
  /\ UNCHANGED <<run, ret, batch, arg, instVars, pendVars, schedVars, resVars>>

Fresh(t) == task[t] = "new" /\ \A g \in Procs : pc[g] # "idle" => on[g] # t

-----------------------------------------------------------------------------
(***************************************************************************)
(* Resolving an AsyncCall.                                                 *)
(***************************************************************************)
InCall(a) == \E g \in Procs : pc[g] = "hostfn" /\ arg[g] = a
Pumping == \E g \in Procs :
  pc[g] = "resume" \/ (pc[g] \in {"hostfn", "drain", "apply"} /\ ret[g] = "resume")

\* Instance.queueExternalCompletion
AnyState(a) == TRUE       \* mutant: no compare-and-swap
Unresolved(a) == state[a] = "open"

QueueExternalCompletion(a) ==
  IF pending = NoTask \/ closed[pending]
  THEN /\ state' = [state EXCEPT ![a] = "closed"]
       /\ UNCHANGED <<mailbox, pc>>
  ELSE IF Unresolved(a)
  THEN /\ state' = [state EXCEPT ![a] = "queued"]
       /\ mailbox' = Append(mailbox, a)
       /\ Signal
  ELSE UNCHANGED <<state, mailbox, pc>>

\* applyResolve and installParkedPendingEventIfNeeded: no event for a subtask
\* resolved before its host import returned.
Applied(a) ==
  /\ state' = [state EXCEPT ![a] = "applied"]
  /\ applied' = [applied EXCEPT ![a] = @ + 1]
  /\ event' = IF \E g \in Procs : arg[g] = a THEN event ELSE event \cup {owner[a]}

\* Resolve, when asyncActive was read as FALSE.
ResolveNow(a) ==
  IF ~Unresolved(a) THEN UNCHANGED <<state, applied, event>>
  ELSE IF InCall(a) \/ Pumping THEN Applied(a)
  ELSE /\ state' = [state EXCEPT ![a] = "closed"]
       /\ UNCHANGED <<applied, event>>

(* A host goroutine that was given the AsyncCall calls Resolve. *)
ResolveBegins(c) ==
  \E a \in AsyncCalls :
    /\ loaded[c] = <<>> /\ owner[a] # NoTask
    /\ loaded' = [loaded EXCEPT ![c] = <<a, asyncActive>>]
    /\ UNCHANGED <<goVars, instVars, pendVars, schedVars, acVars>>

ResolveQueues(c) ==
  /\ loaded[c] # <<>> /\ loaded[c][2]
  /\ QueueExternalCompletion(loaded[c][1])
  /\ loaded' = [loaded EXCEPT ![c] = <<>>]
  /\ UNCHANGED <<goRest, locked, pending, asyncActive, instCtl, pendVars,
                 schedVars, owner, applied, stray>>

ResolveApplies(c) ==
  /\ loaded[c] # <<>> /\ ~loaded[c][2]
  /\ ResolveNow(loaded[c][1])
  /\ stray' = IF applied' # applied THEN stray \cup {loaded[c][1]} ELSE stray
  /\ loaded' = [loaded EXCEPT ![c] = <<>>]
  /\ UNCHANGED <<goVars, instVars, pendVars, schedTasks, signals, owner>>

-----------------------------------------------------------------------------
(***************************************************************************)
(* Guest code of task run[g], from its start ("start") or when the         *)
(* scheduler resumes it ("resume").                                        *)
(***************************************************************************)
GuestRuns(g) == pc[g] \in {"start", "resume"}

\* After the first run of its own task CallAsync becomes the driver.
AfterGuest(g) == IF pc[g] = "start" /\ op[g] = "callasync" THEN "claim" ELSE "drive"

\* buildAsyncHostWrapper, up to the Go function; Instance.registerAsyncCall.
GuestImports(g) ==
  \E a \in AsyncCalls :
    /\ GuestRuns(g) /\ ~shut /\ owner[a] = NoTask
    /\ owner' = [owner EXCEPT ![a] = run[g]]
    /\ arg' = [arg EXCEPT ![g] = a]
    /\ ret' = [ret EXCEPT ![g] = pc[g]]
    /\ Goto(g, "hostfn")
    /\ IF ~asyncActive THEN UNCHANGED <<calls, state>>
       ELSE IF pending # NoTask /\ ~closed[pending]
       THEN calls' = [calls EXCEPT ![pending] = @ \cup {a}] /\ UNCHANGED state
       ELSE state' = [state EXCEPT ![a] = "closed"] /\ UNCHANGED calls
    /\ UNCHANGED <<goAim, run, batch, outcome, ctx, instVars, closed, lease,
                   driver, cancelRequested, handed, overtaken, schedVars, applied,
                   stray, loaded>>

\* The Go function of the import resolves the call, or defers a thunk that will.
HostResolves(g) ==
  /\ pc[g] = "hostfn"
  /\ IF asyncActive
     THEN /\ QueueExternalCompletion(arg[g])
          /\ UNCHANGED <<applied, event>>
     ELSE /\ ResolveNow(arg[g])
          /\ UNCHANGED <<mailbox, pc>>
  /\ UNCHANGED <<goRest, locked, pending, asyncActive, instCtl, pendVars,
                 schedTasks, signals, owner, stray, loaded>>

HostDefers(g) ==
  /\ pc[g] = "hostfn"
  /\ \A i \in DOMAIN runq : runq[i] # arg[g]
  /\ runq' = Append(runq, arg[g])
  /\ UNCHANGED <<goVars, instVars, pendVars, parked, task, event, signals,
                 resVars>>

HostReturns(g) ==
  /\ pc[g] = "hostfn"
  /\ IF asyncActive THEN Goto(g, "drain") /\ UNCHANGED arg
     ELSE Goto(g, ret[g]) /\ arg' = [arg EXCEPT ![g] = NoCall]
  /\ UNCHANGED <<goAim, run, ret, batch, outcome, ctx, instVars, pendVars,
                 schedVars, resVars>>

\* The task waits on a waitable set, or yields (event already there).
GuestWaits(g) ==
  /\ GuestRuns(g) /\ ~shut
  /\ parked' = Append(parked, run[g])
  /\ task' = [task EXCEPT ![run[g]] = "parked"]
  /\ run' = [run EXCEPT ![g] = NoTask]
  /\ Goto(g, AfterGuest(g))
  /\ UNCHANGED <<goAim, ret, batch, arg, outcome, ctx, instVars, pendVars, runq,
                 event, signals, resVars>>

\* It writes a stream, or joins a resolved waitable, that another task waits for.
GuestSignals(g) ==
  \E t \in Tasks :
    /\ GuestRuns(g) /\ ~shut /\ task[t] = "parked" /\ t \notin event
    /\ signals < MaxSignals
    /\ event' = event \cup {t}
    /\ signals' = signals + 1
    /\ UNCHANGED <<goVars, instVars, pendVars, schedTasks, resVars>>

GuestExits(g) ==
  /\ GuestRuns(g) /\ ~shut
  /\ task' = [task EXCEPT ![run[g]] = "exited"]
  /\ run' = [run EXCEPT ![g] = NoTask]
  /\ Goto(g, AfterGuest(g))
  /\ UNCHANGED <<goAim, ret, batch, arg, outcome, ctx, instVars, pendVars, runq,
                 parked, event, signals, resVars>>

\* The task fails: a core trap, an error of the Go function, or one of
\* drainMailbox inside the import wrapper poison the instance, a result of the
\* callback that makes no sense does not.  l is the phase it ends.
Fails(g, l, trap) ==
  /\ poisoned' = (poisoned \/ trap)
  /\ task' = [task EXCEPT ![run[g]] = "trapped"]
  /\ run' = [run EXCEPT ![g] = NoTask]
  /\ arg' = [arg EXCEPT ![g] = NoCall]
  /\ batch' = [batch EXCEPT ![g] = <<>>]
  /\ outcome' = [outcome EXCEPT ![g] =
                   IF l = "start" /\ op[g] = "callasync" THEN "start" ELSE "err"]
  /\ Goto(g, IF op[g] = "call" THEN "reap" ELSE "finish")
  /\ UNCHANGED <<goAim, ret, ctx, locked, pending, asyncActive, mailbox,
                 closing, shut, pendVars, runq, parked, event, signals, loaded>>

GuestTraps(g) ==
  /\ \/ GuestRuns(g) /\ \E trap \in BOOLEAN : Fails(g, pc[g], trap)
     \/ pc[g] = "hostfn" /\ Fails(g, ret[g], TRUE)
  /\ UNCHANGED acVars

-----------------------------------------------------------------------------
(***************************************************************************)
(* The scheduler loop: sched.driveToQuiescence for CallAsync and Await,    *)
(* sched.drive and drainReady for Call.                                    *)
(***************************************************************************)
ReadyIndexes == {i \in DOMAIN parked : parked[i] \in event}
First(S) == CHOOSE i \in S : \A j \in S : i <= j

\* driveToQuiescence tests the task before every step, drainReady never.
CallDone(g) == op[g] # "call" /\ task[on[g]] = "exited"

RunThunk(g) ==
  /\ pc[g] = "drive" /\ ~CallDone(g) /\ runq # <<>>
  /\ runq' = Tail(runq)
  /\ IF asyncActive
     THEN QueueExternalCompletion(Head(runq)) /\ UNCHANGED <<applied, event>>
     ELSE /\ IF Unresolved(Head(runq)) THEN Applied(Head(runq))
             ELSE UNCHANGED <<state, applied, event>>
          /\ UNCHANGED <<mailbox, pc>>
  /\ UNCHANGED <<goRest, locked, pending, asyncActive, instCtl, pendVars,
                 parked, task, signals, owner, stray, loaded>>

NoUnpark(i) == parked           \* mutant: the resumed task stays registered
Unpark(i) == Without(parked, i)

ResumeReady(g) ==
  /\ pc[g] = "drive" /\ ~CallDone(g) /\ runq = <<>> /\ ReadyIndexes # {}
  /\ LET i == First(ReadyIndexes) IN
       /\ parked' = Unpark(i)
       /\ event' = event \ {parked[i]}
       /\ task' = [task EXCEPT ![parked[i]] = "running"]
       /\ run' = [run EXCEPT ![g] = parked[i]]
  /\ Goto(g, "resume")
  /\ UNCHANGED <<goAim, ret, batch, arg, outcome, ctx, instVars, pendVars, runq,
                 signals, resVars>>

DriveEnds(g) ==
  /\ pc[g] = "drive"
  /\ \/ /\ CallDone(g) /\ Goto(g, "finish")
        /\ outcome' = [outcome EXCEPT ![g] = "ok"]
        /\ UNCHANGED ret
     \/ /\ ~CallDone(g) /\ runq = <<>> /\ ReadyIndexes = {}
        /\ IF op[g] # "call"
           THEN Goto(g, "drain") /\ ret' = [ret EXCEPT ![g] = "drive"]
           ELSE /\ Goto(g, IF task[on[g]] = "exited" THEN "unlock" ELSE "reap")
                /\ UNCHANGED ret
        /\ UNCHANGED outcome
  /\ UNCHANGED <<goAim, run, batch, arg, ctx, instVars, pendVars, schedVars,
                 resVars>>

\* drainMailbox.  With nothing to apply an import wrapper returns to the guest,
\* and pumpPending returns: Await waits again, CallAsync hands out the call.
DrainMailbox(g) ==
  /\ pc[g] = "drain"
  /\ batch' = [batch EXCEPT ![g] = mailbox]
  /\ mailbox' = <<>>
  /\ Goto(g, IF mailbox # <<>> THEN "apply"
             ELSE IF ret[g] # "drive" THEN ret[g]
             ELSE IF op[g] = "await" THEN "wait" ELSE "release")
  /\ arg' = IF mailbox = <<>> THEN [arg EXCEPT ![g] = NoCall] ELSE arg
  /\ UNCHANGED <<goAim, run, ret, outcome, ctx, locked, pending, asyncActive,
                 instCtl, pendVars, schedVars, resVars>>

\* applyQueued
ApplyOne(g) ==
  /\ pc[g] = "apply"
  /\ Applied(Head(batch[g]))
  /\ batch' = [batch EXCEPT ![g] = Tail(@)]
  /\ IF Tail(batch[g]) # <<>> THEN UNCHANGED <<pc, arg>>
     ELSE Goto(g, ret[g]) /\ arg' = [arg EXCEPT ![g] = NoCall]
  /\ UNCHANGED <<goAim, run, ret, outcome, ctx, instVars, pendVars, schedTasks,
                 signals, owner, stray, loaded>>

\* The results do not lower, or ResolveCancelled was not asked for: the rest of
\* the batch is dropped.
ApplyFails(g) ==
  /\ pc[g] = "apply"
  /\ IF ret[g] # "drive" THEN Fails(g, ret[g], TRUE)
     ELSE /\ batch' = [batch EXCEPT ![g] = <<>>]
          /\ outcome' = [outcome EXCEPT ![g] = "err"]
          /\ Goto(g, "finish")
          /\ UNCHANGED <<goAim, run, ret, arg, ctx, instVars, pendVars,
                         schedVars, loaded>>
  /\ UNCHANGED acVars

-----------------------------------------------------------------------------
(***************************************************************************)
(* CallAsync.                                                              *)
(***************************************************************************)
CloseRuns == \E g \in Procs : op[g] = "close" /\ pc[g] # "idle"
CallAsyncRuns == \E g \in Procs : op[g] = "callasync" /\ pc[g] # "idle"

BeginCallAsync(g) ==
  \E t \in AsyncTasks :
    /\ Fresh(t) /\ ~poisoned
    /\ CloseOverlaps \/ ~CloseRuns
    /\ Begin(g, "callasync", t, "tryLock")

\* claimAsyncExecution
TryLock(g) ==
  /\ pc[g] = "tryLock"
  /\ IF locked THEN Goto(g, "idle") /\ UNCHANGED <<locked, lease>>
     ELSE /\ locked' = TRUE
          /\ lease' = [lease EXCEPT ![on[g]] = TRUE]
          /\ Goto(g, "publish")
  /\ UNCHANGED <<goRest, instRest, closed, driver, pendRest, schedVars,
                 resVars>>

Publish(g) ==
  /\ pc[g] = "publish"
  /\ pending' = on[g]
  /\ mailbox' = <<>>
  /\ Goto(g, "activate")
  /\ UNCHANGED <<goRest, locked, asyncActive, instCtl, pendVars, schedVars,
                 resVars>>

Activate(g) ==
  /\ pc[g] = "activate"
  /\ asyncActive' = TRUE
  /\ task' = [task EXCEPT ![on[g]] = "running"]
  /\ run' = [run EXCEPT ![g] = on[g]]
  /\ Goto(g, "start")
  /\ UNCHANGED <<goAim, ret, batch, arg, outcome, ctx, locked, pending, mailbox,
                 instCtl, pendVars, runq, parked, event, signals, resVars>>

\* callasync.go:177, without amu.
ClaimUnshared(g) ==
  /\ pc[g] = "claim"
  /\ driver' = [driver EXCEPT ![on[g]] = TRUE]
  /\ Goto(g, "drive")
  /\ UNCHANGED <<goRest, instVars, closed, lease, pendRest, schedVars, resVars>>

KeptCalls(t) == state           \* mutant: outstanding AsyncCalls stay open
ClosedCalls(t) ==
  [a \in AsyncCalls |-> IF ~closed[t] /\ a \in calls[t] /\ state[a] # "applied"
                        THEN "closed" ELSE state[a]]

FinishAsync(g) ==
  /\ pc[g] = "finish"
  /\ closed' = [closed EXCEPT ![on[g]] = TRUE]
  /\ state' = ClosedCalls(on[g])
  /\ IF pending = on[g]
     THEN pending' = NoTask /\ mailbox' = <<>> /\ asyncActive' = FALSE
     ELSE UNCHANGED <<pending, mailbox, asyncActive>>
  /\ Broadcast(g, IF outcome[g] = "ok" THEN "unlease" ELSE "reap")
  /\ UNCHANGED <<goRest, locked, instCtl, lease, driver, pendRest, schedVars,
                 resRest>>

\* reapParkedGoroutines aborts the parked tasks that hold a goroutine.
Holds(t) == t \in StackTasks
ReapTasks ==
  /\ parked' = Filtered(parked, StackTasks)
  /\ task' = [t \in Tasks |->
                IF task[t] = "parked" /\ Holds(t) THEN "reaped" ELSE task[t]]

Reap(g) ==
  /\ pc[g] = "reap"
  /\ ReapTasks
  /\ Goto(g, IF op[g] = "call" THEN "unlock" ELSE "unlease")
  /\ UNCHANGED <<goRest, instVars, pendVars, runq, event, signals, resVars>>

LeaseKept(t) == lease           \* mutant: p.lease is not reset
LeaseReset(t) == [lease EXCEPT ![t] = FALSE]

ReleasePendingLease(g) ==
  /\ pc[g] = "unlease"
  /\ locked' = (locked /\ ~lease[on[g]])
  /\ lease' = LeaseReset(on[g])
  /\ Goto(g, IF outcome[g] = "start" THEN "idle" ELSE "release")
  /\ UNCHANGED <<goRest, instRest, closed, driver, pendRest, schedVars,
                 resVars>>

\* releaseDriver, and the return to the host.
ReleaseDriver(g) ==
  /\ pc[g] = "release"
  /\ driver' = [driver EXCEPT ![on[g]] = FALSE]
  /\ handed' = IF op[g] = "callasync" /\ outcome[g] = "ok" THEN handed \cup {on[g]}
               ELSE handed
  /\ Broadcast(g, IF op[g] = "close" THEN "lockClose" ELSE "idle")
  /\ UNCHANGED <<goRest, instVars, closed, lease, cancelRequested, calls,
                 overtaken, schedVars, resVars>>

-----------------------------------------------------------------------------
(***************************************************************************)
(* Await.                                                                  *)
(***************************************************************************)
BeginAwait(g) ==
  \E t \in handed : ~closed[t] /\ Begin(g, "await", t, "await")

NoDriverSeen(t) == FALSE        \* mutant: an active driver is not noticed
HasDriver(t) == driver[t]

ClaimDriver(g) ==
  /\ pc[g] = "await"
  /\ IF closed[on[g]] THEN Goto(g, "wait") /\ UNCHANGED driver
     ELSE IF HasDriver(on[g]) THEN Goto(g, "idle") /\ UNCHANGED driver
     ELSE driver' = [driver EXCEPT ![on[g]] = TRUE] /\ Goto(g, "wait")
  /\ UNCHANGED <<goRest, instVars, closed, lease, pendRest, schedVars, resVars>>

NothingToDo(g) ==
  mailbox = <<>> /\ ~closed[on[g]] /\ ~cancelRequested[on[g]] /\ ctx[g] = "live"

AwaitWaits(g) ==
  /\ pc[g] = "wait"
  /\ outcome' = [outcome EXCEPT ![g] =
                   IF cancelRequested[on[g]] /\ ~closed[on[g]] THEN "err" ELSE @]
  /\ Goto(g, IF NothingToDo(g) THEN "asleep"
             ELSE IF closed[on[g]] \/ ctx[g] # "live" THEN "release"
             ELSE IF cancelRequested[on[g]] THEN "finish" ELSE "drive")
  /\ UNCHANGED <<goAim, run, ret, batch, arg, ctx, instVars, pendVars,
                 schedVars, resVars>>

\* The context of an Await or of a Cancel that waits ends, and the watcher
\* goroutine of Await broadcasts.
ContextEnds(g) ==
  /\ pc[g] # "idle" /\ op[g] \in Deadlines /\ ctx[g] = "live"
  /\ ctx' = [ctx EXCEPT ![g] = "done"]
  /\ UNCHANGED <<pc, goAim, run, ret, batch, arg, outcome, instVars, pendVars,
                 schedVars, resVars>>

Watcher(g) ==
  /\ pc[g] # "idle" /\ op[g] = "await" /\ ctx[g] = "done"
  /\ ctx' = [ctx EXCEPT ![g] = "notified"]
  /\ pc' = [h \in Procs |-> IF pc[h] = "asleep" THEN "wait" ELSE pc[h]]
  /\ UNCHANGED <<goAim, run, ret, batch, arg, outcome, instVars, pendVars,
                 schedVars, resVars>>

-----------------------------------------------------------------------------
(***************************************************************************)
(* Cancel and Close.                                                       *)
(***************************************************************************)
BeginCancel(g) == \E t \in handed : Begin(g, "cancel", t, "cancel")

NoneToCancel == NoTask          \* mutant: the pending call is not cancelled
CallToCancel == pending

BeginClose(g) ==
  /\ ~closing
  /\ CloseOverlaps \/ ~CallAsyncRuns
  /\ pc[g] = "idle"
  /\ closing' = TRUE
  /\ op' = [op EXCEPT ![g] = "close"]
  /\ on' = [on EXCEPT ![g] = CallToCancel]
  /\ outcome' = [outcome EXCEPT ![g] = "ok"]
  /\ ctx' = [ctx EXCEPT ![g] = "live"]
  /\ Goto(g, IF CallToCancel = NoTask THEN "lockClose" ELSE "cancel")
  /\ UNCHANGED <<run, ret, batch, arg, locked, pending, asyncActive, mailbox,
                 poisoned, shut, pendVars, schedVars, resVars>>

AfterCancel(g) == IF op[g] = "close" THEN "lockClose" ELSE "idle"

\* A Close finds the call published and its driver flag still clear: CallAsync
\* is starting the guest and sets the flag later, without amu.
Overtakes(g) ==
  /\ ~driver[on[g]]
  /\ \E h \in Procs : pc[h] # "idle" /\ op[h] = "callasync" /\ on[h] = on[g]

TellNobody(g, l) == Goto(g, l)  \* mutant: the driver is not told
TellDriver(g, l) == Broadcast(g, l)

Cancel(g) ==
  /\ pc[g] = "cancel"
  /\ IF closed[on[g]]
     THEN Goto(g, AfterCancel(g)) /\ UNCHANGED <<cancelRequested, driver,
                                                 outcome, overtaken>>
     ELSE /\ cancelRequested' = [cancelRequested EXCEPT ![on[g]] = TRUE]
          /\ driver' = [driver EXCEPT ![on[g]] = TRUE]
          /\ overtaken' = (overtaken \/ Overtakes(g))
          /\ outcome' = [outcome EXCEPT ![g] = "err"]
          /\ TellDriver(g, IF driver[on[g]] THEN "waitDone" ELSE "finish")
  /\ UNCHANGED <<goAim, run, ret, batch, arg, ctx, instVars, closed, lease,
                 calls, handed, schedVars, resVars>>

\* Cancel waits for p.done; a Close whose context ends returns the error.
CancelReturns(g) ==
  /\ pc[g] = "waitDone"
  /\ \/ closed[on[g]] /\ Goto(g, AfterCancel(g))
     \/ ctx[g] # "live" /\ Goto(g, "idle")
  /\ UNCHANGED <<goRest, instVars, pendVars, schedVars, resVars>>

LockClose(g) ==
  /\ pc[g] = "lockClose" /\ ~locked
  /\ locked' = TRUE
  /\ Goto(g, "closeReap")
  /\ UNCHANGED <<goRest, instRest, pendVars, schedVars, resVars>>

CloseReap(g) ==
  /\ pc[g] = "closeReap"
  /\ ReapTasks
  /\ Goto(g, "closeTable")
  /\ UNCHANGED <<goRest, instVars, pendVars, runq, event, signals, resVars>>

CloseTable(g) ==
  /\ pc[g] = "closeTable"
  /\ shut' = TRUE
  /\ locked' = FALSE
  /\ Goto(g, "idle")
  /\ UNCHANGED <<goRest, pending, asyncActive, mailbox, poisoned, closing,
                 pendVars, schedVars, resVars>>

-----------------------------------------------------------------------------
(***************************************************************************)
(* The synchronous Call of an async export (Instance.invoke and            *)
(* invokeAsyncCallback).                                                   *)
(***************************************************************************)
BeginCall(g) == \E t \in SyncTasks : Fresh(t) /\ Begin(g, "call", t, "lockCall")

LockCall(g) ==
  /\ pc[g] = "lockCall" /\ ~locked
  /\ locked' = TRUE
  /\ IF poisoned THEN Goto(g, "unlock") /\ UNCHANGED <<task, run>>
     ELSE /\ task' = [task EXCEPT ![on[g]] = "running"]
          /\ run' = [run EXCEPT ![g] = on[g]]
          /\ Goto(g, "start")
  /\ UNCHANGED <<goAim, ret, batch, arg, outcome, ctx, instRest, pendVars, runq,
                 parked, event, signals, resVars>>

Unlock(g) ==
  /\ pc[g] = "unlock"
  /\ locked' = FALSE
  /\ Goto(g, "idle")
  /\ UNCHANGED <<goRest, instRest, pendVars, schedVars, resVars>>

-----------------------------------------------------------------------------
\* What the embedder starts, or what may never happen.
Embedder(g) ==
  \/ BeginCallAsync(g) \/ BeginAwait(g) \/ BeginCancel(g) \/ BeginClose(g)
  \/ BeginCall(g) \/ ContextEnds(g)

GuestOrHost(g) ==
  \/ GuestImports(g) \/ HostResolves(g) \/ HostDefers(g) \/ HostReturns(g)
  \/ GuestWaits(g) \/ GuestSignals(g) \/ GuestExits(g) \/ GuestTraps(g)

\* Steps of the runtime itself.
Locks(g) == LockClose(g) \/ LockCall(g)
Runtime(g) ==
  \/ RunThunk(g) \/ ResumeReady(g) \/ DriveEnds(g) \/ DrainMailbox(g)
  \/ ApplyOne(g) \/ ApplyFails(g)
  \/ TryLock(g) \/ Publish(g) \/ Activate(g) \/ ClaimUnshared(g) \/ FinishAsync(g)
  \/ Reap(g) \/ ReleasePendingLease(g) \/ ReleaseDriver(g)
  \/ ClaimDriver(g) \/ AwaitWaits(g) \/ Watcher(g) \/ Cancel(g)
  \/ CancelReturns(g) \/ CloseReap(g) \/ CloseTable(g) \/ Unlock(g)

Resolver(c) == ResolveBegins(c) \/ ResolveQueues(c) \/ ResolveApplies(c)

Next ==
  \/ \E g \in Procs : Embedder(g) \/ GuestOrHost(g) \/ Runtime(g) \/ Locks(g)
  \/ \E c \in Completers : Resolver(c)

\* Go schedules every goroutine, a blocked sync.Mutex.Lock is served in turn,
\* and guest code and Go functions do not run forever.  Nobody has to call
\* Await, Cancel or Resolve.
Fairness ==
  \A g \in Procs :
    /\ WF_vars(Runtime(g))
    /\ WF_vars(GuestOrHost(g))
    /\ SF_vars(Locks(g))

Spec == Init /\ [][Next]_vars
FairSpec == Spec /\ Fairness

-----------------------------------------------------------------------------
GoTypes ==
  /\ pc \in [Procs -> Labels] /\ op \in [Procs -> Ops]
  /\ on \in [Procs -> Tasks \cup {NoTask}] /\ run \in [Procs -> Tasks \cup {NoTask}]
  /\ ret \in [Procs -> {"start", "resume", "drive"}]
  /\ batch \in [Procs -> Seq(AsyncCalls)]
  /\ arg \in [Procs -> AsyncCalls \cup {NoCall}]
  /\ outcome \in [Procs -> {"ok", "err", "start"}]
  /\ ctx \in [Procs -> {"live", "done", "notified"}]
InstTypes ==
  /\ pending \in Tasks \cup {NoTask} /\ mailbox \in Seq(AsyncCalls)
  /\ locked \in BOOLEAN /\ asyncActive \in BOOLEAN
  /\ poisoned \in BOOLEAN /\ closing \in BOOLEAN /\ shut \in BOOLEAN
PendTypes ==
  /\ closed \in [Tasks -> BOOLEAN] /\ lease \in [Tasks -> BOOLEAN]
  /\ driver \in [Tasks -> BOOLEAN] /\ cancelRequested \in [Tasks -> BOOLEAN]
  /\ calls \in [Tasks -> SUBSET AsyncCalls] /\ handed \subseteq Tasks
  /\ overtaken \in BOOLEAN
TaskTypes ==
  /\ runq \in Seq(AsyncCalls) /\ parked \in Seq(Tasks)
  /\ task \in [Tasks -> {"new", "running", "parked", "exited", "trapped", "reaped"}]
  /\ event \subseteq Tasks /\ signals \in 0..MaxSignals
CallTypes ==
  /\ state \in [AsyncCalls -> {"open", "queued", "applied", "closed"}]
  /\ owner \in [AsyncCalls -> Tasks \cup {NoTask}]
  /\ applied \in [AsyncCalls -> Nat] /\ stray \subseteq AsyncCalls
  /\ loaded \in [Completers -> {<<>>} \cup (AsyncCalls \X BOOLEAN)]
Types == GoTypes /\ InstTypes /\ PendTypes /\ TaskTypes /\ CallTypes

\* A goroutine has a task to run exactly while it executes guest code or an
\* import of it.
InGuest(g) == \/ pc[g] \in {"start", "resume", "hostfn"}
              \/ pc[g] \in {"drain", "apply"} /\ ret[g] # "drive"

TypeOK ==
  /\ Types
  /\ \A g \in Procs : run[g] # NoTask <=> InGuest(g)
  /\ Len(parked) = Cardinality({t \in Tasks : task[t] = "parked"})
  /\ \A t \in Tasks : task[t] = "parked" => \E i \in DOMAIN parked : parked[i] = t

(* At most one goroutine executes scheduler or guest code, and only with the*)
(* execution lease held (callasync.go:23, :120, stackful_task.go:352), as   *)
(* long as no Close overtook the CallAsync it closes: the comment at        *)
(* callasync.go:177, that no competing driver can observe the call yet, is  *)
(* not so.                                                                  *)
OneGoroutineDrives ==
  overtaken \/ \A g \in Procs : pc[g] \in Driving =>
                  locked /\ \A h \in Procs \ {g} : pc[h] \notin Driving

(* The lease is held by exactly one of: a call made with CallAsync until it *)
(* settles, whoever drives it then; a Call; a Close.  So syncCallMu is never*)
(* unlocked twice, and never taken from a running call (callasync.go:268),  *)
(* with the same exception.                                                 *)
HeldByFrame == {g \in Procs :
  \/ pc[g] = "unlock" \/ pc[g] \in {"closeReap", "closeTable"}
  \/ op[g] = "call" /\ pc[g] \in Driving \cup {"drain"}}
HeldByCall == {t \in Tasks : lease[t]}
LeaseHasOneHolder ==
  overtaken \/
    /\ Cardinality(HeldByFrame) + Cardinality(HeldByCall) = (IF locked THEN 1 ELSE 0)
    /\ \A t \in HeldByCall : closed[t] =>
         \E g \in Procs : on[g] = t /\ pc[g] \in {"reap", "unlease"}

(* However many goroutines race to resolve it, a completion reaches its     *)
(* subtask at most once (callasync.go:49).                                  *)
AppliedAtMostOnce == \A a \in AsyncCalls : applied[a] <= 1

(* A completion of a call that has settled is never applied, not even by the*)
(* driver of a later call (callasync.go:250-254).                           *)
SettledCallsStaySilent ==
  [][\A a \in AsyncCalls, t \in Tasks :
       a \in calls[t] /\ closed[t] => applied'[a] = applied[a]]_vars

(* A goroutine asleep in Await has nothing to do, or the goroutine that will*)
(* wake it is on its way (callasync.go:53, :262, :297, :356).               *)
NoLostWakeup ==
  \A g \in Procs : pc[g] = "asleep" => NothingToDo(g) \/ ctx[g] = "done"

(* A completion that Resolve accepted is there for the driver to find, until*)
(* the call it belongs to settles and closes it (callasync.go:46-56).       *)
AcceptedIsNotLost ==
  \A a \in AsyncCalls : state[a] = "queued" =>
    \/ \E i \in DOMAIN mailbox : mailbox[i] = a
    \/ \E g \in Procs :
         \/ \E i \in DOMAIN batch[g] : batch[g][i] = a
         \/ pc[g] = "finish" /\ a \in calls[on[g]]

(* callasync.go:124: "Done is closed when the call resolves, fails, is      *)
(* cancelled, or the instance closes".  A Close that starts before the call *)
(* is published, or while CallAsync still pumps it, does not reach it.      *)
DoneWhenInstanceCloses == \A t \in Tasks : (closing /\ lease[t]) ~> closed[t]

(* Cancel settles the call whoever drives it (callasync.go:341-342).        *)
CancelSettles == \A t \in Tasks : cancelRequested[t] ~> closed[t]

(* Close gets past every call in progress and shuts the instance down       *)
(* (instance.go:2186).                                                      *)
CloseFinishes == closing ~> shut

-----------------------------------------------------------------------------
(* async_host_import.go:43-46: "they only enqueue immutable completion data,*)
(* and the sole scheduler driver applies it"; outside CallAsync a call from *)
(* another goroutine is told apart by sched.pumping (sched.go:27-30), which *)
(* says that a thunk runs, not who calls.                                   *)
OnlyTheDriverApplies == stray = {}

(* instance.go:1702-1709: a poisoned instance refuses entry outright.       *)
(* CallAsync tests poisoned before it claims the lease and not again.       *)
PoisonedIsNotEntered ==
  [][\A t \in Tasks : task[t] = "new" /\ task'[t] # "new" => ~poisoned]_vars
=============================================================================
