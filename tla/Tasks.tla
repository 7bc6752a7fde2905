------------------------------- MODULE Tasks -------------------------------
(***************************************************************************)
(* The guest tasks of a composition tree (i/task.go, i/guest_task.go,      *)
(* i/stackful_task.go), the scheduler they share (i/sched.go), the         *)
(* subtasks their callers hold (i/waitable.go) and the builtins that move  *)
(* them (i/async_builtins.go, i/async_lift.go).                            *)
(*                                                                         *)
(* One goroutine has the baton.  `stack' is what it is in the middle of:   *)
(* the head runs guest code, the frames below wait for it to return; an    *)
(* empty stack is the host's Call, which drives the scheduler until its    *)
(* task is done and nothing is ready.                                      *)
(*                                                                         *)
(* A task is a callback lift, a callback lift whose segments run on        *)
(* goroutines of their own ("promoted"), or a stackful lift.  Every        *)
(* instance has one waitable set.                                          *)
(***************************************************************************)
EXTENDS SeqOps, FiniteSets

CONSTANTS
    Tasks,              \* the tasks that may be started
    Insts,              \* component instances
    Lowers,             \* <<i, j>>: i imports the exports of j
    Exported,           \* instances whose exports the host may call
    NoTask, NoInst,
    Shapes,             \* of the exports: of {"callback", "stackful"}
    MayBlockSync,       \* instances whose callback tasks are promoted
    BackpressureLimit,  \* stands for 2^16, where the counter traps
    Uncancellable,      \* a blocking builtin may be uncancellable
    Faults,             \* of {"trap", "fail"}: what may go wrong
    Imports             \* the builtins that guest code imports

ASSUME TasksAssumption ==
    /\ NoTask \notin Tasks /\ NoInst \notin Insts
    /\ "set" \notin Tasks
    /\ Lowers \subseteq Insts \X Insts /\ Exported \subseteq Insts
    /\ Shapes \subseteq {"callback", "stackful"}
    /\ MayBlockSync \subseteq Insts
    /\ BackpressureLimit \in Nat \ {0}
    /\ Uncancellable \in BOOLEAN
    /\ Faults \subseteq {"trap", "fail"}
    /\ Imports \subseteq {"waitable-set", "subtask.cancel", "backpressure"}

VARIABLES
    task,       \* per task, see TaskRecord
    gate,       \* per instance, see GateRecord
    sub,        \* the subtask that a guest caller has for each callee
    parked,     \* sched.parked, in registration order
    stack,      \* frames, the running one first
    root        \* the task of the host's Call in progress, or NoTask

taskVars == <<task, gate, sub, parked, stack, root>>

TaskRecord == [inst : Insts \cup {NoInst}, shape : {"none", "callback", "promoted", "stackful"},
               caller : Tasks \cup {NoTask},
               state : {"fresh", "initial", "started", "pending", "delivered", "resolved"},
               park : {"none", "entry", "wait", "yield", "block"},
               cancellable : BOOLEAN, awaits : Tasks \cup {"set"}, done : BOOLEAN]

(* owner: exclusiveOwner; waiting: numWaitingToEnter; waiters: numWaiting  *)
(* of the waitable set.                                                    *)
GateRecord == [owner : Tasks \cup {NoTask}, mayEnter : BOOLEAN, waiting : Int,
               backpressure : -1..BackpressureLimit, poisoned : BOOLEAN, waiters : Nat]

SubRecord == [state : {"none", "starting", "started", "returned", "unstarted", "unreturned"},
              held : BOOLEAN, event : BOOLEAN, delivered : BOOLEAN, requested : BOOLEAN,
              joined : BOOLEAN, sleeper : BOOLEAN]

NoSubtask == [state |-> "none", held |-> FALSE, event |-> FALSE, delivered |-> FALSE,
              requested |-> FALSE, joined |-> FALSE, sleeper |-> FALSE]

(* via: how the task got the baton; mode: what its guest code is doing.    *)
Frame == [task : Tasks, via : {"start", "resume", "cancel"},
          mode : {"run", "drive", "cancel", "sync", "empty", "panic", "hung"},
          on : Tasks \cup {NoTask}, flag : BOOLEAN]

Running(t, via) == [task |-> t, via |-> via, mode |-> "run", on |-> NoTask, flag |-> FALSE]

Init ==
    /\ task = [t \in Tasks |-> [inst |-> NoInst, shape |-> "none", caller |-> NoTask,
                                state |-> "fresh", park |-> "none", cancellable |-> FALSE,
                                awaits |-> "set", done |-> FALSE]]
    /\ gate = [i \in Insts |-> [owner |-> NoTask, mayEnter |-> TRUE, waiting |-> 0,
                                backpressure |-> 0, poisoned |-> FALSE, waiters |-> 0]]
    /\ sub = [t \in Tasks |-> NoSubtask]
    /\ parked = <<>> /\ stack = <<>> /\ root = NoTask

-----------------------------------------------------------------------------
I(t) == task[t].inst
Top == Head(stack)
(* The task that holds the baton, when one does.                           *)
Baton == Top.task
Runs(t) == stack # <<>> /\ Top.task = t /\ Top.mode = "run"
IsParked(t) == \E k \in DOMAIN parked : parked[k] = t
Resolved(c) == sub[c].state \in {"returned", "unstarted", "unreturned"}

(* The instance whose table holds the subtask of c.                        *)
HeldBy(c, i) == sub[c].held /\ I(task[c].caller) = i

HasBackpressure(i) == gate[i].backpressure > 0 \/ gate[i].owner # NoTask
JumpsQueue(i) == ~HasBackpressure(i)
MayEnterNow(i) == ~HasBackpressure(i) /\ gate[i].waiting = 0
HeldByOther(t) == gate[I(t)].owner \notin {NoTask, t}
SetHasEvent(i) == \E c \in Tasks : HeldBy(c, i) /\ sub[c].joined /\ sub[c].event

(* What a builtin that blocks, or drives, waits for.                       *)
Awaited(t, on) == IF on = "set" THEN SetHasEvent(I(t)) ELSE sub[on].event

Ready(t) ==
    LET p == task[t].park IN
    \/ p = "entry" /\ ~HasBackpressure(I(t))
    \/ p = "wait" /\ ~HeldByOther(t) /\ (task[t].state = "pending" \/ SetHasEvent(I(t)))
    \/ p = "yield" /\ ~HeldByOther(t)
    \/ p = "block" /\ (task[t].state = "pending" \/ Awaited(t, task[t].awaits))

ReadyIndexes == {k \in DOMAIN parked : Ready(parked[k])}
FirstReady == parked[CHOOSE k \in ReadyIndexes : \A l \in ReadyIndexes : k <= l]

EnterRun(g, t) == [g EXCEPT ![I(t)].owner = t, ![I(t)].mayEnter = FALSE]
StaysClosed(g, i) == [g EXCEPT ![i].owner = NoTask]
LeaveRun(g, i) == [g EXCEPT ![i].owner = NoTask, ![i].mayEnter = TRUE]
ReleasesAll(g, i) == LeaveRun(g, i)
SuspendRun(g, i) == [g EXCEPT ![i].mayEnter = TRUE]

(* numWaiting of the set of i goes up and down with its waiters.           *)
Waits(g, i) == [g EXCEPT ![i].waiters = @ + 1]
UnwaitsTwice(g, i) == [g EXCEPT ![i].waiters = @ - 2]
KeepsWaiting(g, i) == g
Unwaits(g, i) == [g EXCEPT ![i].waiters = @ - 1]

(* The guest on top gives the baton back.  When it was started by a guest, *)
(* the caller's wrapper looks at the subtask: resolved, it is delivered at *)
(* once and never enters the table.                                        *)
NotSeen(c) == [sub EXCEPT ![c].held = TRUE]
SeenByCaller(c) == IF Resolved(c) THEN [sub EXCEPT ![c] = NoSubtask]
                   ELSE [sub EXCEPT ![c].held = TRUE]
Pop ==
    /\ stack' = Tail(stack)
    /\ sub' = IF Top.via = "start" /\ task[Top.task].caller # NoTask
              THEN SeenByCaller(Top.task) ELSE sub

(* The outcome of task c, a resolution of its subtask in the table sb.     *)
NeverStarted(c, how) == IF how = "returned" THEN "returned" ELSE "unstarted"
Outcome(c, how) ==
    IF how = "returned" THEN "returned"
    ELSE IF sub[c].state = "starting" THEN "unstarted" ELSE "unreturned"
Resolve(sb, c, how) ==
    IF task[c].caller = NoTask THEN sb
    ELSE [sb EXCEPT ![c].state = Outcome(c, how), ![c].event = sb[c].held]

(* getPendingEvent of a subtask.                                           *)
Deliver(sb, c) == [sb EXCEPT ![c].event = FALSE, ![c].delivered = TRUE]

-----------------------------------------------------------------------------
(* Starting a task on instance i for `caller' (NoTask: the host).          *)
Fresh(t, i, s, caller) ==
    [task[t] EXCEPT !.inst = i, !.shape = s, !.caller = caller]
CanStart(t, i) ==
    /\ task[t].state = "fresh"
    /\ ~gate[i].poisoned /\ gate[i].mayEnter

(* start: entry succeeds and the first segment runs.                       *)
Starts(t, i, s, caller) ==
    /\ CanStart(t, i) /\ MayEnterNow(i)
    /\ task' = [task EXCEPT ![t] = [Fresh(t, i, s, caller) EXCEPT !.state = "started"]]
    /\ gate' = [gate EXCEPT ![i].owner = t, ![i].mayEnter = FALSE]
    /\ sub' = IF caller = NoTask THEN sub ELSE [sub EXCEPT ![t].state = "started"]
    /\ stack' = <<Running(t, "start")>> \o stack
    /\ UNCHANGED parked

(* start: the task parks at entry, and a guest caller gets its subtask.    *)
ParksAtEntry(t, i, s, caller) ==
    /\ CanStart(t, i) /\ ~MayEnterNow(i)
    /\ task' = [task EXCEPT ![t] = [Fresh(t, i, s, caller) EXCEPT
                                       !.state = "initial", !.park = "entry",
                                       !.cancellable = TRUE]]
    /\ gate' = [gate EXCEPT ![i].waiting = @ + 1]
    /\ sub' = IF caller = NoTask THEN sub
              ELSE [sub EXCEPT ![t].state = "starting", ![t].held = TRUE]
    /\ parked' = Append(parked, t)
    /\ UNCHANGED stack

(* Call: invokeAsyncCallback or invokeStackful.                            *)
Call(t, i, s) ==
    /\ stack = <<>> /\ root = NoTask /\ i \in Exported
    /\ Starts(t, i, s, NoTask) \/ ParksAtEntry(t, i, s, NoTask)
    /\ root' = t

(* An async-lowered call of another export: startAsyncExportTask.          *)
CallExport(t, c, i, s) ==
    /\ Runs(t) /\ <<I(t), i>> \in Lowers
    /\ LET shape == IF s = "callback" /\ i \in MayBlockSync THEN "promoted" ELSE s
       IN Starts(c, i, shape, t) \/ ParksAtEntry(c, i, shape, t)
    /\ UNCHANGED root

-----------------------------------------------------------------------------
(* task.return.                                                            *)
TaskReturn(t) ==
    /\ Runs(t) /\ task[t].state # "resolved"
    /\ task' = [task EXCEPT ![t].state = "resolved"]
    /\ sub' = Resolve(sub, t, "returned")
    /\ UNCHANGED <<gate, parked, stack, root>>

(* task.cancel acknowledges a delivered cancellation.                      *)
TaskCancel(t) ==
    /\ Runs(t) /\ task[t].state = "delivered"
    /\ task' = [task EXCEPT ![t].state = "resolved"]
    /\ sub' = Resolve(sub, t, "cancelled")
    /\ UNCHANGED <<gate, parked, stack, root>>

(* The callback returns EXIT, or a stackful function returns.              *)
Exit(t) ==
    /\ Runs(t) /\ task[t].state = "resolved"
    /\ task' = [task EXCEPT ![t].done = TRUE]
    /\ gate' = LeaveRun(gate, I(t))
    /\ Pop
    /\ UNCHANGED <<parked, root>>

(* The callback returns WAIT or YIELD: the task parks without frames.      *)
CallbackParks(t, p) ==
    /\ Runs(t) /\ task[t].shape # "stackful"
    /\ p = "wait" => "waitable-set" \in Imports
    /\ task' = [task EXCEPT ![t].park = p, ![t].cancellable = TRUE]
    /\ gate' = LeaveRun(IF p = "wait" THEN Waits(gate, I(t)) ELSE gate, I(t))
    /\ parked' = Append(parked, t)
    /\ Pop
    /\ UNCHANGED root

(* block: the task parks with its frames and keeps the exclusive.          *)
Block(t, on, cancellable, g) ==
    /\ task' = [task EXCEPT ![t].park = "block", ![t].awaits = on,
                            ![t].cancellable = cancellable]
    /\ gate' = SuspendRun(g, I(t))
    /\ parked' = Append(parked, t)

(* The event, or the cancellation, that ends a wait for the set.           *)
TakeFromSet(i, sb) ==
    \E c \in Tasks : /\ HeldBy(c, i) /\ sub[c].joined /\ sub[c].event
                     /\ sub' = Deliver(sb, c)

(* waitable-set.wait: a cancellation is delivered at once.                 *)
MayWait(t) == Runs(t) /\ "waitable-set" \in Imports
WaitIsCancelled(t) ==
    /\ MayWait(t) /\ task[t].state = "pending"
    /\ task' = [task EXCEPT ![t].state = "delivered"]
    /\ UNCHANGED <<gate, sub, parked, stack, root>>

(* waitable-set.wait: a task with a goroutine of its own parks.            *)
WaitBlocks(t, cancellable) ==
    /\ MayWait(t) /\ task[t].shape # "callback"
    /\ ~(cancellable /\ task[t].state = "pending")
    /\ ~cancellable => Uncancellable
    /\ Block(t, "set", cancellable, Waits(gate, I(t)))
    /\ Pop
    /\ UNCHANGED root

(* waitable-set.wait: any other drives the scheduler where it is.          *)
WaitDrives(t, cancellable) ==
    /\ MayWait(t) /\ task[t].shape = "callback"
    /\ ~cancellable => Uncancellable
    /\ gate' = Waits(gate, I(t))
    /\ stack' = [stack EXCEPT ![1].mode = "drive", ![1].flag = cancellable]
    /\ UNCHANGED <<task, sub, parked, root>>

(* What a nested drive waits for, and what it does when it has it.         *)
DriveOver ==
    \/ Top.mode = "drive" /\ (\/ SetHasEvent(I(Top.task))
                              \/ Top.flag /\ task[Top.task].state = "pending")
    \/ Top.mode = "sync" /\ sub[Top.on].event

WaitReturns(t) ==
    /\ stack # <<>> /\ Top.task = t /\ Top.mode = "drive" /\ DriveOver
    /\ gate' = Unwaits(gate, I(t))
    /\ stack' = [stack EXCEPT ![1] = Running(t, Top.via)]
    /\ IF Top.flag /\ task[t].state = "pending"
       THEN task' = [task EXCEPT ![t].state = "delivered"] /\ sub' = sub
       ELSE task' = task /\ TakeFromSet(I(t), sub)
    /\ UNCHANGED <<parked, root>>

(* waitable-set.poll.                                                      *)
Poll(t) ==
    /\ MayWait(t) /\ SetHasEvent(I(t))
    /\ TakeFromSet(I(t), sub)
    /\ UNCHANGED <<task, gate, parked, stack, root>>

(* waitable.join: into the set or out of it.                               *)
Join(t, c) ==
    /\ MayWait(t) /\ HeldBy(c, I(t)) /\ ~sub[c].sleeper
    /\ sub' = [sub EXCEPT ![c].joined = ~@]
    /\ UNCHANGED <<task, gate, parked, stack, root>>

(* subtask.drop.                                                           *)
SubtaskDrop(t, c) ==
    /\ Runs(t) /\ HeldBy(c, I(t)) /\ sub[c].delivered
    /\ sub' = [sub EXCEPT ![c] = NoSubtask]
    /\ UNCHANGED <<task, gate, parked, stack, root>>

-----------------------------------------------------------------------------
(* resumeReady of the parked task c; `cancelled' when request_cancellation *)
(* resumes it.  s is the stack and sb the subtasks it finds.               *)
Unpark(c) == parked' = Filtered(parked, {c})

(* At entry: a cancelled task resolves without ever running.               *)
EntryCancelled(c, sb) ==
    /\ task' = [task EXCEPT ![c].state = "resolved", ![c].done = TRUE]
    /\ gate' = [gate EXCEPT ![I(c)].waiting = @ - 1]
    /\ sub' = Deliver(Resolve(sb, c, "cancelled"), c)

(* At entry: the first segment runs.                                       *)
UncountedTwice(g, i) == [g EXCEPT ![i].waiting = @ - 2]
Uncounted(g, i) == [g EXCEPT ![i].waiting = @ - 1]
ResumeEntry(c) ==
    /\ task[c].park = "entry"
    /\ task' = [task EXCEPT ![c].state = "started",
                            ![c].park = IF task[c].shape = "stackful" THEN "none" ELSE @]
    /\ gate' = EnterRun(Uncounted(gate, I(c)), c)
    /\ sub' = IF task[c].caller = NoTask THEN sub ELSE [sub EXCEPT ![c].state = "started"]
    /\ stack' = <<Running(c, "resume")>> \o stack

(* A cancellation reaches the task with this resume.                       *)
Cancels(c, cancelled) == cancelled \/ (task[c].cancellable /\ task[c].state = "pending")
StateAfter(c, cancelled) == IF Cancels(c, cancelled) THEN "delivered" ELSE task[c].state

(* At WAIT or YIELD: the callback runs again.  The park stays recorded.    *)
ResumeLoop(c, via, s, sb, cancelled) ==
    /\ task[c].park \in {"wait", "yield"}
    /\ task' = [task EXCEPT ![c].state = StateAfter(c, cancelled)]
    /\ gate' = EnterRun(IF task[c].park = "wait" THEN Unwaits(gate, I(c)) ELSE gate, c)
    /\ IF task[c].park = "wait" /\ ~Cancels(c, cancelled) THEN TakeFromSet(I(c), sb) ELSE sub' = sb
    /\ stack' = <<Running(c, via)>> \o s

(* In a builtin: it returns with the cancellation or with its event; the   *)
(* code panics when it finds neither.                                      *)
ResumeBlocked(c, via, s, sb, cancelled) ==
    /\ task[c].park = "block"
    /\ task' = [task EXCEPT ![c].state = StateAfter(c, cancelled), ![c].park = "none",
                            ![c].awaits = "set", ![c].cancellable = FALSE]
    /\ gate' = EnterRun(IF task[c].awaits = "set" THEN Unwaits(gate, I(c)) ELSE gate, c)
    /\ LET on == task[c].awaits
           woken == Awaited(c, on)
           run == [Running(c, via) EXCEPT !.mode = IF Cancels(c, cancelled) \/ woken
                                                   THEN "run" ELSE "empty"]
       IN /\ stack' = <<run>> \o s
          /\ IF Cancels(c, cancelled) \/ ~woken THEN sub' = sb
             ELSE IF on = "set" THEN TakeFromSet(I(c), sb)
             ELSE sub' = [Deliver(sb, on) EXCEPT ![on].sleeper = FALSE]

(* step: the first ready task is resumed, by the host's Call or by the     *)
(* builtin that drives.                                                    *)
Drives ==
    \/ stack = <<>> /\ root # NoTask
    \/ stack # <<>> /\ Top.mode \in {"drive", "sync"} /\ ~DriveOver
Step ==
    /\ Drives /\ ReadyIndexes # {}
    /\ \/ ResumeEntry(FirstReady)
       \/ ResumeLoop(FirstReady, "resume", stack, sub, FALSE)
       \/ ResumeBlocked(FirstReady, "resume", stack, sub, FALSE)
    /\ Unpark(FirstReady)
    /\ UNCHANGED root

(* The Call returns: its task is done and nothing is ready.                *)
CallReturns ==
    /\ stack = <<>> /\ root # NoTask /\ task[root].done /\ ReadyIndexes = {}
    /\ root' = NoTask
    /\ UNCHANGED <<task, gate, sub, parked, stack>>

-----------------------------------------------------------------------------
(* subtask.cancel by t for its subtask of c.                               *)
MayCancel(t, c) ==
    /\ "subtask.cancel" \in Imports /\ Runs(t) /\ HeldBy(c, I(t))
    /\ ~sub[c].delivered /\ ~sub[c].requested

(* request_cancellation resumes c at once.                                 *)
Inline(c) ==
    /\ task[c].state = "started" /\ task[c].cancellable /\ gate[I(c)].mayEnter
    /\ \/ task[c].park = "block" /\ ~HeldByOther(c)
       \/ task[c].shape # "stackful" /\ task[c].park \in {"entry", "wait", "yield"}
          /\ gate[I(c)].owner = NoTask

(* A subtask in a waitable set may not be waited for synchronously.        *)
BlocksOnAny(c, async) == TRUE
MayBlockOn(c, async) == sub[c].joined => async

Requested(c) == [sub EXCEPT ![c].requested = TRUE]

(* The call has resolved: its event is read.                               *)
CancelResolved(t, c) ==
    /\ MayCancel(t, c) /\ Resolved(c)
    /\ sub' = Deliver(sub, c)
    /\ UNCHANGED <<task, gate, parked, stack, root>>

(* The callee has not entered yet.                                         *)
CancelAtEntry(t, c) ==
    /\ MayCancel(t, c) /\ ~Resolved(c) /\ task[c].state = "initial" /\ IsParked(c)
    /\ EntryCancelled(c, Requested(c))
    /\ Unpark(c)
    /\ UNCHANGED <<stack, root>>

(* The callee is resumed with the cancellation, inside this builtin.       *)
CancelResumes(t, c, async) ==
    /\ MayCancel(t, c) /\ ~Resolved(c) /\ Inline(c) /\ IsParked(c)
    /\ MayBlockOn(c, async)
    /\ LET s == [stack EXCEPT ![1].mode = "cancel", ![1].on = c, ![1].flag = async]
       IN \/ ResumeLoop(c, "cancel", s, Requested(c), TRUE)
          \/ ResumeBlocked(c, "cancel", s, Requested(c), TRUE)
    /\ Unpark(c)
    /\ UNCHANGED root

(* The callee looks parked and is not: it failed, or the reaper took it,   *)
(* and its park was left as it was.  A stackful task's goroutine is gone   *)
(* and the builtin waits for it for ever; a waitable set or a segment is   *)
(* gone and the builtin panics; a callback is run again; a task that once  *)
(* parked at entry is taken out of the count a second time.                *)
CancelStale(t, c) ==
    /\ MayCancel(t, c) /\ ~Resolved(c) /\ ~IsParked(c)
    /\ task[c].state = "initial" \/ Inline(c)
    /\ \/ /\ task[c].park \in {"none", "wait", "block"}
          /\ stack' = [stack EXCEPT ![1].mode =
                           IF task[c].park = "block" /\ task[c].shape = "stackful"
                           THEN "hung" ELSE "panic"]
          /\ UNCHANGED <<task, gate, sub>>
       \/ /\ task[c].park = "entry"
          /\ EntryCancelled(c, Requested(c))
          /\ UNCHANGED stack
       \/ /\ task[c].park = "yield"
          /\ LET s == [stack EXCEPT ![1].mode = "cancel", ![1].on = c, ![1].flag = TRUE]
             IN ResumeLoop(c, "cancel", s, Requested(c), TRUE)
    /\ UNCHANGED <<parked, root>>

(* An unresolved callee after the request: an asynchronous cancel returns  *)
(* BLOCKED, a synchronous one parks or drives.                             *)
AwaitCancel(t, c, async, sb) ==
    \/ /\ async
       /\ stack' = [stack EXCEPT ![1] = Running(t, Top.via)]
       /\ sub' = sb
       /\ UNCHANGED <<gate, parked>>
    \/ /\ ~async /\ task[t].shape = "callback"
       /\ stack' = [stack EXCEPT ![1] = [Running(t, Top.via) EXCEPT !.mode = "sync", !.on = c]]
       /\ sub' = [sb EXCEPT ![c].sleeper = TRUE]
       /\ UNCHANGED <<gate, parked>>
    \/ /\ ~async /\ task[t].shape # "callback"
       /\ gate' = SuspendRun(gate, I(t))
       /\ parked' = Append(parked, t)
       /\ stack' = Tail(stack)
       /\ LET sleeping == [sb EXCEPT ![c].sleeper = TRUE]
          IN sub' = IF Top.via = "start" /\ task[t].caller # NoTask
                    THEN [sleeping EXCEPT ![t] = SeenByCaller(t)[t]] ELSE sleeping

Blocking(t, c, async, states) ==
    task' = IF async \/ task[t].shape = "callback" THEN states
            ELSE [states EXCEPT ![t].park = "block", ![t].awaits = c, ![t].cancellable = FALSE]

(* The callee can not be resumed now: PENDING_CANCEL.                      *)
CancelPends(t, c, async) ==
    /\ MayCancel(t, c) /\ ~Resolved(c) /\ task[c].state = "started" /\ ~Inline(c)
    /\ MayBlockOn(c, async)
    /\ Blocking(t, c, async, [task EXCEPT ![c].state = "pending"])
    /\ AwaitCancel(t, c, async, Requested(c))
    /\ UNCHANGED root

(* The callee that was resumed gave the baton back.                        *)
CancelContinues(t) ==
    /\ stack # <<>> /\ Top.task = t /\ Top.mode = "cancel"
    /\ LET c == Top.on IN
       \/ /\ Resolved(c)
          /\ sub' = Deliver(sub, c)
          /\ stack' = [stack EXCEPT ![1] = Running(t, Top.via)]
          /\ UNCHANGED <<task, gate, parked>>
       \/ /\ ~Resolved(c)
          /\ Blocking(t, c, Top.flag, task)
          /\ AwaitCancel(t, c, Top.flag, sub)
    /\ UNCHANGED root

(* A nested drive of a synchronous cancel has the event.                   *)
CancelReturns(t) ==
    /\ stack # <<>> /\ Top.task = t /\ Top.mode = "sync" /\ DriveOver
    /\ sub' = [Deliver(sub, Top.on) EXCEPT ![Top.on].sleeper = FALSE]
    /\ stack' = [stack EXCEPT ![1] = Running(t, Top.via)]
    /\ UNCHANGED <<task, gate, parked, root>>

-----------------------------------------------------------------------------
(* Errors.  A trap unwinds every frame down to the host's Call: each       *)
(* builtin below panics with the error of the one above.  `own' says       *)
(* whether the first frame's own guest code trapped.                       *)
OnStack == {stack[k].task : k \in DOMAIN stack}
Trapped(own) == {stack[k].task : k \in (IF own THEN 1 ELSE 2)..Len(stack)}

(* The reaper: goroutines are unwound, tasks without one are dropped or    *)
(* left where they are.                                                    *)
Reaped == {t \in Tasks : IsParked(t) /\ (\/ task[t].shape = "stackful"
                                         \/ task[t].park = "block")}
Aborted == {t \in Reaped : task[t].park = "block"}

Unwind(g, own) ==
    LET dead == OnStack \cup Aborted
        poison == Trapped(own) \cup Aborted
    IN /\ task' = [t \in Tasks |->
                      IF t \in Reaped \cup OnStack
                      THEN [task[t] EXCEPT !.done = TRUE,
                                           !.park = IF t \in Reaped \ Aborted THEN "none" ELSE @]
                      ELSE task[t]]
       /\ gate' = [i \in Insts |->
                      [g[i] EXCEPT !.owner = IF \E t \in dead : I(t) = i THEN NoTask ELSE @,
                                   !.mayEnter = @ \/ \E t \in dead : I(t) = i,
                                   !.poisoned = @ \/ \E t \in poison : I(t) = i]]
       /\ parked' = Filtered(parked, Reaped)
       /\ stack' = <<>> /\ root' = NoTask
       /\ sub' = sub

(* Guest code traps, or a builtin refuses it.                              *)
GuestTrap ==
    /\ stack # <<>>
    /\ Top.mode \in {"empty", "panic"} \/ (Top.mode = "run" /\ "trap" \in Faults)
    /\ Unwind(gate, TRUE)

(* EXIT before the task resolved, or arguments that do not lower.          *)
TaskFails == "fail" \in Faults /\ stack # <<>> /\ Top.mode = "run" /\ Unwind(gate, FALSE)

(* Nothing is ready: the driver reports a deadlock.  A nested drive panics *)
(* into the guest that called it.                                          *)
Deadlock ==
    /\ Drives /\ ReadyIndexes = {}
    /\ stack = <<>> => ~task[root].done
    /\ Unwind(gate, TRUE)

(* backpressure.inc and .dec: the counter is changed, then tested.  Bound: *)
(* an instance that trapped here already is not followed further.          *)
Backpressure(t, d) ==
    /\ "backpressure" \in Imports /\ Runs(t)
    /\ gate[I(t)].backpressure \in 0..(BackpressureLimit - 1)
    /\ LET g == [gate EXCEPT ![I(t)].backpressure = @ + d]
           n == g[I(t)].backpressure
       IN \/ /\ n \in 0..(BackpressureLimit - 1)
             /\ gate' = g
             /\ UNCHANGED <<task, sub, parked, stack, root>>
          \/ /\ n \notin 0..(BackpressureLimit - 1)
             /\ Unwind(g, TRUE)

Next ==
    \/ \E t \in Tasks, i \in Insts, s \in Shapes : Call(t, i, s)
    \/ \E c \in Tasks, i \in Insts, s \in Shapes : CallExport(Baton, c, i, s)
    \/ TaskReturn(Baton) \/ TaskCancel(Baton) \/ Exit(Baton)
    \/ \E p \in {"wait", "yield"} : CallbackParks(Baton, p)
    \/ WaitIsCancelled(Baton)
    \/ \E b \in BOOLEAN : WaitBlocks(Baton, b) \/ WaitDrives(Baton, b)
    \/ WaitReturns(Baton) \/ Poll(Baton)
    \/ Backpressure(Baton, 1) \/ Backpressure(Baton, -1)
    \/ CancelContinues(Baton) \/ CancelReturns(Baton)
    \/ \E c \in Tasks : \/ Join(Baton, c) \/ SubtaskDrop(Baton, c)
                        \/ CancelResolved(Baton, c) \/ CancelAtEntry(Baton, c)
                        \/ CancelStale(Baton, c)
                        \/ \E async \in BOOLEAN : CancelResumes(Baton, c, async)
                                                  \/ CancelPends(Baton, c, async)
    \/ Step \/ CallReturns
    \/ GuestTrap \/ TaskFails \/ Deadlock

Spec == Init /\ [][Next]_taskVars

-----------------------------------------------------------------------------
TypeOK ==
    /\ task \in [Tasks -> TaskRecord]
    /\ gate \in [Insts -> GateRecord]
    /\ sub \in [Tasks -> SubRecord]
    /\ parked \in Seq(Tasks) /\ stack \in Seq(Frame)
    /\ root \in Tasks \cup {NoTask}

(* A task with guest frames is on the stack or blocked in a builtin.       *)
HasFrames(t) == t \in OnStack \/ (IsParked(t) /\ task[t].park = "block")

(* Guest code of at most one task of an instance is in the middle of       *)
(* something, and that task owns the instance's exclusive (task.go:293-344).  *)
Exclusivity ==
    \A t \in Tasks : HasFrames(t) => gate[I(t)].owner = t

(* An instance refuses entry exactly while a frame of its own is on the    *)
(* stack (task.go:315-344): a trap, a cancellation or a nested drive that  *)
(* unwinds through it leaves no stale mayEnter.                            *)
EntryIsRefusedWhileRunning ==
    \A i \in Insts : gate[i].mayEnter <=> \A t \in OnStack : I(t) # i

ParkedAtEntry(i) == {t \in Tasks : IsParked(t) /\ task[t].park = "entry" /\ I(t) = i}

(* The two counters of the entry gate, in an instance that can still be    *)
(* entered: no task waiting to enter is forgotten by the count that keeps  *)
(* later callers behind it (task.go:301-313), and a backpressure.inc or    *)
(* .dec that was refused, which leaves the counter out of its range, left  *)
(* the instance poisoned too (async_builtins.go:646-668).                  *)
EntryCountersHold ==
    \A i \in Insts : ~gate[i].poisoned =>
        /\ gate[i].waiting >= Cardinality(ParkedAtEntry(i))
        /\ gate[i].backpressure \in 0..(BackpressureLimit - 1)

(* numWaiting of a waitable set is the number of tasks parked or driving   *)
(* on it, so that waitable-set.drop sees them (waitable.go:160-169).       *)
SetWaiters(i) ==
    {t \in Tasks : /\ I(t) = i
                   /\ \/ IsParked(t) /\ (\/ task[t].park = "wait"
                                         \/ task[t].park = "block" /\ task[t].awaits = "set")
                      \/ \E k \in DOMAIN stack : stack[k].task = t /\ stack[k].mode = "drive"}
SetWaitersAreCounted ==
    \A i \in Insts : ~gate[i].poisoned => gate[i].waiters = Cardinality(SetWaiters(i))

(* A resolution that the caller has not been told of is an event it will   *)
(* find (async_host_import.go:157-159, waitable.go:103-115).               *)
EveryResolutionIsSeen ==
    \A c \in Tasks : sub[c].held /\ Resolved(c) /\ ~sub[c].delivered => sub[c].event

(* A subtask that a synchronous cancel waits for has its waiter, a task of *)
(* the caller's instance, and is in no waitable set where another task     *)
(* would take its event; the waiter may have been woken before the event   *)
(* is there, as any sleeper may                                            *)
(* (async_builtins.go:324-326, :425-427, :455-473).                        *)
SyncWaiterIsWaiting ==
    \A c \in Tasks :
        sub[c].sleeper /\ ~gate[I(task[c].caller)].poisoned =>
            /\ ~sub[c].joined /\ ~sub[c].delivered
            /\ \/ \E k \in DOMAIN stack :
                      \/ stack[k].mode = "sync" /\ stack[k].on = c
                      \/ stack[k].mode = "empty" /\ I(stack[k].task) = I(task[c].caller)
               \/ \E t \in Tasks : IsParked(t) /\ task[t].park = "block" /\ task[t].awaits = c

(* The code resumes a finished task nowhere: "resumeReady is called only   *)
(* with st in sched.parked" (stackful_task.go:292-295).                    *)
ResumedIsParked ==
    \A k \in DOMAIN stack : stack[k].mode # "hung" /\ ~task[stack[k].task].done

(* A builtin is woken only when it has something to return.                *)
NoEmptyRead == \A k \in DOMAIN stack : stack[k].mode # "empty"

(* The callee's progress as its caller sees it only goes forward           *)
(* (waitable.go:233-242, async_host_import.go:386-430).                    *)
SubtaskOnlyAdvances ==
    [][\A c \in Tasks : sub[c].state # sub'[c].state =>
         \/ sub[c].state \in {"returned", "unstarted", "unreturned"} /\ sub'[c] = NoSubtask
         \/ sub[c].state = "none" /\ sub'[c].state \in {"starting", "started"}
         \/ sub[c].state = "starting" /\ sub'[c].state \in {"started", "unstarted"}
         \/ sub[c].state = "started" /\ sub'[c].state \in {"returned", "unreturned"}]_taskVars

(* Tasks of an instance enter in the order in which they were called       *)
(* (task.go:301-313): one that enters leaves no earlier one parked.        *)
EntryInOrder ==
    [][\A t \in Tasks :
         task[t].state # "started" /\ task'[t].state = "started" =>
            \A u \in ParkedAtEntry(task'[t].inst) :
               u = t \/ \E j, k \in DOMAIN parked : j < k /\ parked[j] = t /\ parked[k] = u]_taskVars

=============================================================================
