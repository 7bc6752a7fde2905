---------------------------- MODULE TasksProofs ----------------------------
(***************************************************************************)
(* Proofs about Tasks, for any number of tasks and any composition.        *)
(***************************************************************************)
EXTENDS Tasks, SeqFacts

-----------------------------------------------------------------------------
(* The inductive invariant.                                                *)

\* As GateRecord, before the waiters are known to be counted.
GateSet == [owner : Tasks \cup {NoTask}, mayEnter : BOOLEAN, waiting : Int,
            backpressure : -1..BackpressureLimit, poisoned : BOOLEAN, waiters : Int]

Types ==
  /\ task \in [Tasks -> TaskRecord]
  /\ gate \in [Insts -> GateSet]
  /\ sub \in [Tasks -> SubRecord]
  /\ parked \in Seq(Tasks) /\ stack \in Seq(Frame)
  /\ root \in Tasks \cup {NoTask}

\* No task has two frames.
Distinct == \A j, k \in DOMAIN stack : stack[j].task = stack[k].task => j = k

\* A task is in one place, once.
Placed ==
  /\ Once(parked)
  /\ Distinct
  /\ \A t \in Tasks : t \in OnStack => ~IsParked(t)

\* What the state and the park of a task say of it.
Life(t) ==
  /\ task[t].inst = NoInst <=> task[t].state = "fresh"
  /\ task[t].state = "fresh" =>
       /\ t \notin OnStack /\ ~IsParked(t) /\ task[t].park = "none"
       /\ task[t].caller = NoTask
  /\ task[t].state = "initial" => t \notin OnStack /\ task[t].park \in {"entry", "none"}
  /\ IsParked(t) /\ task[t].park = "entry" => task[t].state = "initial"
  /\ task[t].park \in {"wait", "yield"} => task[t].shape # "stackful"
  /\ task[t].caller # NoTask => task[task[t].caller].state # "fresh"

Located == Placed /\ Exclusivity /\ EntryIsRefusedWhileRunning /\ \A t \in Tasks : Life(t)

\* A builtin that waits for a subtask knows which, and it has a caller.
Knows(f) ==
  f.mode \in {"cancel", "sync"} => f.on \in Tasks /\ task[f.on].caller # NoTask
Names == \A k \in DOMAIN stack : Knows(stack[k])

\* The subtask follows its task, and has an event only of a resolution.
Follows(c) ==
  /\ task[c].caller = NoTask => sub[c] = NoSubtask
  /\ task[c].caller # NoTask =>
       /\ task[c].state = "initial" => sub[c].state = "starting"
       /\ task[c].state \in {"started", "pending", "delivered"} => sub[c].state = "started"
       /\ task[c].state = "resolved" => Resolved(c) \/ sub[c].state = "none"
  /\ sub[c].event \/ sub[c].delivered => Resolved(c)
  /\ sub[c].held /\ Resolved(c) /\ ~sub[c].delivered => sub[c].event

\* Tasks that wait for the set of their instance: parked, or in a nested drive.
Sitting(r) == r.park = "wait" \/ (r.park = "block" /\ r.awaits = "set")
Sits(t) == IsParked(t) /\ Sitting(task[t])
IsDriving(t) == \E k \in DOMAIN stack : stack[k].task = t /\ stack[k].mode = "drive"
IsWaiter(t) == Sits(t) \/ IsDriving(t)

\* Of a poisoned instance the reaper may have taken some that are counted.
WaitersAtLeast ==
  \A i \in Insts : /\ gate[i].waiters >= Cardinality(SetWaiters(i))
                   /\ ~gate[i].poisoned => gate[i].waiters = Cardinality(SetWaiters(i))

-----------------------------------------------------------------------------
(* What the operators on the gates and the stack do.                       *)

\* h is g with other values for instance i.
Turned(g, h, i, owner, mayEnter, waiting, waiters) ==
  /\ h \in [Insts -> GateSet]
  /\ \A j \in Insts \ {i} : h[j] = g[j]
  /\ h[i].owner = owner /\ h[i].mayEnter = mayEnter
  /\ h[i].waiting = g[i].waiting + waiting
  /\ h[i].waiters = g[i].waiters + waiters
  /\ h[i].backpressure = g[i].backpressure
  /\ h[i].poisoned = g[i].poisoned

\* Only the counts change.
Counted(g, h, i, a, b) == Turned(g, h, i, g[i].owner, g[i].mayEnter, a, b)

\* The exclusive changes hands, and the instance opens or closes.
LEMMA OwnerTurns ==
  ASSUME NEW g \in [Insts -> GateSet], NEW i \in Insts, NEW o \in Tasks \cup {NoTask},
         NEW m \in BOOLEAN
  PROVE  Turned(g, [g EXCEPT ![i].owner = o, ![i].mayEnter = m], i, o, m, 0, 0)
<1> DEFINE h == [g EXCEPT ![i].owner = o, ![i].mayEnter = m]
<1>1. /\ h[i] = [[g[i] EXCEPT !.owner = o] EXCEPT !.mayEnter = m]
      /\ \A j \in Insts \ {i} : h[j] = g[j]
  OBVIOUS
<1>2. h \in [Insts -> GateSet]
  BY DEF GateSet
<1> HIDE DEF h
<1>3. g[i] \in GateSet
  OBVIOUS
<1>4. /\ h[i].owner = o /\ h[i].waiting = g[i].waiting /\ h[i].waiters = g[i].waiters
      /\ h[i].backpressure = g[i].backpressure /\ h[i].poisoned = g[i].poisoned
  BY <1>1, <1>3 DEF GateSet
<1>5. h[i].mayEnter = m
  BY <1>1, <1>3 DEF GateSet
<1>6. g[i].waiting + 0 = g[i].waiting /\ g[i].waiters + 0 = g[i].waiters
  BY <1>3 DEF GateSet
<1> QED
  BY <1>1, <1>2, <1>4, <1>5, <1>6 DEF Turned, h

\* A segment ends, and a segment begins.
LEMMA RunTurns ==
  ASSUME NEW g \in [Insts -> GateSet]
  PROVE  /\ \A i \in Insts : Turned(g, LeaveRun(g, i), i, NoTask, TRUE, 0, 0)
         /\ \A t \in Tasks : I(t) \in Insts => Turned(g, EnterRun(g, t), I(t), t, FALSE, 0, 0)
BY OwnerTurns DEF LeaveRun, EnterRun

\* A task parks with its frames.
LEMMA SuspendTurns ==
  ASSUME NEW g \in [Insts -> GateSet], NEW i \in Insts
  PROVE  Turned(g, SuspendRun(g, i), i, g[i].owner, TRUE, 0, 0)
<1> DEFINE h == SuspendRun(g, i)
<1>1. h[i] = [g[i] EXCEPT !.mayEnter = TRUE] /\ \A j \in Insts \ {i} : h[j] = g[j]
  BY DEF SuspendRun
<1>2. h \in [Insts -> GateSet]
  BY DEF SuspendRun, GateSet
<1> HIDE DEF h
<1>3. g[i] \in GateSet
  OBVIOUS
<1>4. /\ h[i].owner = g[i].owner /\ h[i].waiting = g[i].waiting /\ h[i].waiters = g[i].waiters
      /\ h[i].backpressure = g[i].backpressure /\ h[i].poisoned = g[i].poisoned
  BY <1>1, <1>3 DEF GateSet
<1>5. h[i].mayEnter = TRUE
  BY <1>1, <1>3 DEF GateSet
<1>6. g[i].waiting + 0 = g[i].waiting /\ g[i].waiters + 0 = g[i].waiters
  BY <1>3 DEF GateSet
<1> QED
  BY <1>1, <1>2, <1>4, <1>5, <1>6 DEF Turned, h

\* Waiters and tasks that wait to enter are counted.
LEMMA WaitsTurns ==
  ASSUME NEW g \in [Insts -> GateSet], NEW i \in Insts
  PROVE  Counted(g, Waits(g, i), i, 0, 1)
BY DEF Waits, Counted, GateSet, Turned

\* A waiter leaves.
LEMMA UnwaitsTurns ==
  ASSUME NEW g \in [Insts -> GateSet], NEW i \in Insts
  PROVE  Counted(g, Unwaits(g, i), i, 0, -1)
BY DEF Unwaits, Counted, GateSet, Turned

\* A task is counted at the gate, or is counted no more.
LEMMA CountTurns ==
  ASSUME NEW g \in [Insts -> GateSet], NEW i \in Insts
  PROVE  /\ Counted(g, [g EXCEPT ![i].waiting = @ + 1], i, 1, 0)
         /\ Counted(g, [g EXCEPT ![i].waiting = @ - 1], i, -1, 0)
         /\ Counted(g, Uncounted(g, i), i, -1, 0)
BY DEF Uncounted, Counted, GateSet, Turned

\* Nothing changes.
LEMMA SameTurns ==
  ASSUME NEW g \in [Insts -> GateSet], NEW i \in Insts
  PROVE  Counted(g, g, i, 0, 0)
BY DEF GateSet, Turned, Counted

\* Counting, and then a change of hands.
LEMMA TurnsCompose ==
  ASSUME NEW g \in [Insts -> GateSet], NEW h, NEW l, NEW i \in Insts,
         NEW a \in Int, NEW b \in Int, Counted(g, h, i, a, b)
  PROVE  /\ \A o : Turned(h, l, i, o, TRUE, 0, 0) => Turned(g, l, i, o, TRUE, a, b)
         /\ \A o : Turned(h, l, i, o, FALSE, 0, 0) => Turned(g, l, i, o, FALSE, a, b)
<1>1. /\ h[i].waiting = g[i].waiting + a /\ h[i].waiters = g[i].waiters + b
      /\ h[i].backpressure = g[i].backpressure /\ h[i].poisoned = g[i].poisoned
      /\ \A j \in Insts \ {i} : h[j] = g[j]
      /\ g[i].waiting \in Int /\ g[i].waiters \in Int
  BY DEF Turned, Counted, GateSet
<1> QED
  BY <1>1 DEF Turned

\* The owner stays what it was.
LEMMA CountKeepsOwner ==
  ASSUME NEW g, NEW h, NEW i, NEW a, NEW b, Counted(g, h, i, a, b)
  PROVE  h \in [Insts -> GateSet] /\ h[i].owner = g[i].owner
BY DEF Turned, Counted

\* The frames stay, whatever the running one does.
SameFrames(s) ==
  /\ s \in Seq(Frame) /\ DOMAIN s = DOMAIN stack
  /\ \A k \in DOMAIN stack : s[k].task = stack[k].task /\ s[k].via = stack[k].via
  /\ \A k \in DOMAIN stack \ {1} : s[k] = stack[k]

\* The running task gives the baton back.
LEMMA PopFacts ==
  ASSUME Types, stack # <<>>, stack' = Tail(stack)
  PROVE  /\ stack' \in Seq(Frame) /\ Top = stack[1] /\ Top \in Frame /\ 1 \in DOMAIN stack
         /\ \A k \in DOMAIN stack' : k + 1 \in DOMAIN stack /\ k + 1 # 1 /\ stack'[k] = stack[k + 1]
         /\ \A k \in DOMAIN stack \ {1} : k - 1 \in DOMAIN stack' /\ stack'[k - 1] = stack[k]
<1>1. /\ Len(stack) \in Nat \ {0} /\ DOMAIN stack = 1..Len(stack) /\ Head(stack) = stack[1]
      /\ stack' \in Seq(Frame) /\ Len(stack') = Len(stack) - 1 /\ DOMAIN stack' = 1..(Len(stack) - 1)
      /\ \A k \in 1..(Len(stack) - 1) : stack'[k] = stack[k + 1]
  BY DEF Types
<1>2. stack[1] \in Frame
  BY <1>1 DEF Types
<1> QED
  BY <1>1, <1>2 DEF Top

\* A task gets the baton.
LEMMA PushFacts ==
  ASSUME Types, NEW f \in Frame, NEW s \in Seq(Frame), stack' = <<f>> \o s
  PROVE  /\ stack' \in Seq(Frame) /\ 1 \in DOMAIN stack' /\ stack'[1] = f
         /\ \A k \in DOMAIN s : k + 1 \in DOMAIN stack' /\ stack'[k + 1] = s[k]
         /\ \A k \in DOMAIN stack' \ {1} : k - 1 \in DOMAIN s /\ stack'[k] = s[k - 1]
<1>1. /\ stack' \in Seq(Frame) /\ Len(stack') = Len(s) + 1 /\ Len(s) \in Nat
      /\ DOMAIN stack' = 1..(Len(s) + 1) /\ DOMAIN s = 1..Len(s)
      /\ stack'[1] = f /\ \A k \in 1..Len(s) : stack'[k + 1] = s[k]
  OBVIOUS
<1> QED
  BY <1>1

\* The running frame changes.
LEMMA TopChanges ==
  ASSUME Types, stack # <<>>, NEW f \in Frame, f.task = Top.task, f.via = Top.via
  PROVE  /\ SameFrames([stack EXCEPT ![1] = f]) /\ [stack EXCEPT ![1] = f][1] = f
         /\ 1 \in DOMAIN stack /\ Top = stack[1] /\ Top \in Frame
<1>1. Len(stack) \in Nat \ {0} /\ DOMAIN stack = 1..Len(stack) /\ Head(stack) = stack[1]
  BY DEF Types
<1> QED
  BY <1>1 DEF SameFrames, Top, Types

\* What is on top.
LEMMA TopIs ==
  ASSUME Types, stack # <<>>
  PROVE  /\ 1 \in DOMAIN stack /\ Top = stack[1] /\ Top \in Frame /\ Top.task \in Tasks
         /\ Top.task \in OnStack
         /\ OnStack = {Top.task} \cup {stack[k].task : k \in DOMAIN stack \ {1}}
<1>1. Len(stack) \in Nat \ {0} /\ DOMAIN stack = 1..Len(stack) /\ Head(stack) = stack[1]
  BY DEF Types
<1>2. stack[1] \in Frame
  BY <1>1 DEF Types
<1> QED
  BY <1>1, <1>2 DEF Top, OnStack, Frame

-----------------------------------------------------------------------------
(* Where the tasks are.                                                    *)

\* The frames of the stack stay.
LEMMA StackStays ==
  ASSUME Types, Distinct, SameFrames(stack')
  PROVE  OnStack' = OnStack /\ Distinct' /\ stack' \in Seq(Frame)
BY DEF SameFrames, OnStack, Distinct

\* A task gets the baton over frames that stay.
LEMMA StackPush ==
  ASSUME Types, Distinct, NEW f \in Frame, NEW s, SameFrames(s), stack' = <<f>> \o s,
         f.task \notin OnStack
  PROVE  OnStack' = OnStack \cup {f.task} /\ Distinct' /\ stack' \in Seq(Frame)
<1>1. s \in Seq(Frame) /\ DOMAIN s = DOMAIN stack /\ \A k \in DOMAIN s : s[k].task = stack[k].task
  BY DEF SameFrames
<1>2. /\ stack' \in Seq(Frame) /\ 1 \in DOMAIN stack' /\ stack'[1] = f
      /\ \A k \in DOMAIN s : k + 1 \in DOMAIN stack' /\ stack'[k + 1] = s[k]
      /\ \A k \in DOMAIN stack' \ {1} : k - 1 \in DOMAIN s /\ stack'[k] = s[k - 1]
  BY <1>1, PushFacts
<1>3. /\ \A k \in DOMAIN stack : k + 1 \in DOMAIN stack' /\ stack'[k + 1].task = stack[k].task
      /\ \A k \in DOMAIN stack' \ {1} : k - 1 \in DOMAIN stack /\ stack'[k].task = stack[k - 1].task
  BY <1>1, <1>2
<1>4. OnStack' = OnStack \cup {f.task}
  <2>1. ASSUME NEW k \in DOMAIN stack' PROVE stack'[k].task \in OnStack \cup {f.task}
    <3>1. CASE k = 1
      BY <3>1, <1>2
    <3>2. CASE k # 1
      BY <3>2, <1>3 DEF OnStack
    <3> QED
      BY <3>1, <3>2
  <2>2. OnStack' \subseteq OnStack \cup {f.task}
    BY <2>1 DEF OnStack
  <2>3. f.task \in OnStack'
    BY <1>2 DEF OnStack
  <2>4. \A k \in DOMAIN stack : stack[k].task \in OnStack'
    BY <1>3 DEF OnStack
  <2>5. OnStack \subseteq OnStack'
    BY <2>4 DEF OnStack
  <2> QED
    BY <2>2, <2>3, <2>5
<1>5. DOMAIN stack' \subseteq Int
  BY <1>2
<1>6. ASSUME NEW j \in DOMAIN stack', NEW k \in DOMAIN stack', stack'[j].task = stack'[k].task
      PROVE  j = k
  <2>1. ASSUME NEW l \in DOMAIN stack' \ {1} PROVE stack'[l].task # f.task
    BY <1>3, <2>1 DEF OnStack
  <2>2. CASE j = 1 \/ k = 1
    BY <2>1, <2>2, <1>2, <1>6
  <2>3. CASE j # 1 /\ k # 1
    <3>1. j - 1 \in DOMAIN stack /\ k - 1 \in DOMAIN stack /\ stack[j - 1].task = stack[k - 1].task
      BY <2>3, <1>3, <1>6
    <3> QED
      BY <3>1, <1>5 DEF Distinct
  <2> QED
    BY <2>2, <2>3
<1> QED
  BY <1>2, <1>4, <1>6 DEF Distinct

\* The running task gives the baton back.
LEMMA StackPop ==
  ASSUME Types, Distinct, stack # <<>>, stack' = Tail(stack)
  PROVE  OnStack' = OnStack \ {Top.task} /\ Distinct' /\ stack' \in Seq(Frame)
<1>1. /\ stack' \in Seq(Frame) /\ Top = stack[1] /\ Top \in Frame /\ 1 \in DOMAIN stack
      /\ \A k \in DOMAIN stack' : k + 1 \in DOMAIN stack /\ k + 1 # 1 /\ stack'[k] = stack[k + 1]
      /\ \A k \in DOMAIN stack \ {1} : k - 1 \in DOMAIN stack' /\ stack'[k - 1] = stack[k]
  BY PopFacts
<1>2. DOMAIN stack' \subseteq Int
  BY <1>1
<1>3. \A k \in DOMAIN stack \ {1} : stack[k].task # Top.task
  BY <1>1 DEF Distinct
<1>4. OnStack' = OnStack \ {Top.task}
  <2>1. OnStack' \subseteq OnStack \ {Top.task}
    BY <1>1, <1>3 DEF OnStack
  <2>2. OnStack \ {Top.task} \subseteq OnStack'
    <3>1. ASSUME NEW k \in DOMAIN stack, stack[k].task # Top.task
          PROVE  stack[k].task \in OnStack'
      <4>1. k \in DOMAIN stack \ {1}
        BY <3>1, <1>1
      <4>2. k - 1 \in DOMAIN stack' /\ stack'[k - 1].task = stack[k].task
        BY <4>1, <1>1
      <4> QED
        BY <4>2 DEF OnStack
    <3> QED
      BY <3>1 DEF OnStack
  <2> QED
    BY <2>1, <2>2
<1>5. Distinct'
  BY <1>1, <1>2 DEF Distinct
<1> QED
  BY <1>1, <1>4, <1>5

\* What IsParked says of the slice.
LEMMA ParkedIs ==
  /\ \A t \in Tasks : IsParked(t) <=> t \in Elems(parked)
  /\ \A t \in Tasks : IsParked(t)' <=> t \in Elems(parked')
BY DEF IsParked, Elems

\* A task parks.
LEMMA Parks ==
  ASSUME Types, Once(parked), NEW t \in Tasks, ~IsParked(t), parked' = Append(parked, t)
  PROVE  /\ parked' \in Seq(Tasks) /\ Once(parked')
         /\ \A u \in Tasks : IsParked(u)' <=> IsParked(u) \/ u = t
<1>1. parked \in Seq(Tasks)
  BY DEF Types
<1>2. /\ Append(parked, t) \in Seq(Tasks) /\ Elems(Append(parked, t)) = Elems(parked) \cup {t}
      /\ Once(parked) /\ t \notin Elems(parked) => Once(Append(parked, t))
  BY <1>1, ElemsAppend
<1> QED
  BY <1>2, ParkedIs

\* Parked tasks are taken out.
LEMMA Unparks ==
  ASSUME Types, Once(parked), NEW H, parked' = Filtered(parked, H)
  PROVE  /\ parked' \in Seq(Tasks) /\ Once(parked')
         /\ \A u \in Tasks : IsParked(u)' <=> IsParked(u) /\ u \notin H
<1>1. parked \in Seq(Tasks)
  BY DEF Types
<1>2. /\ Filtered(parked, H) \in Seq(Tasks) /\ Elems(Filtered(parked, H)) = Elems(parked) \ H
      /\ Once(parked) => Once(Filtered(parked, H))
  BY <1>1, FilteredFacts
<1> QED
  BY <1>2, ParkedIs

\* What a step leaves of every other task.
Others(c) ==
  \A u \in Tasks \ {c} : /\ task'[u].inst = task[u].inst /\ task'[u].park = task[u].park
                         /\ IsParked(u)' <=> IsParked(u)

\* Frames are of tasks.
LEMMA StackedAreTasks ==
  ASSUME Types
  PROVE  OnStack \subseteq Tasks
<1>1. \A k \in DOMAIN stack : stack[k] \in Frame
  BY DEF Types
<1> QED
  BY <1>1 DEF OnStack, Frame

\* The instances of the tasks that are somewhere.
LEMMA Somewhere ==
  ASSUME Types, Located, NEW t \in Tasks
  PROVE  /\ t \in OnStack \/ IsParked(t) => I(t) \in Insts /\ task[t].state # "fresh"
         /\ I(t) \in Insts <=> task[t].state # "fresh"
         /\ I(t) \in Insts <=> I(t) # NoInst
<1>1. task[t].inst \in Insts \cup {NoInst} /\ NoInst \notin Insts
  BY TasksAssumption DEF Types, TaskRecord
<1>2. Life(t)
  BY DEF Located
<1> QED
  BY <1>1, <1>2 DEF Life, I

\* No task changes place, instance or kind of park.
LEMMA NoneMoves ==
  ASSUME Types, Located, OnStack' = OnStack,
         \A u \in Tasks : /\ task'[u].inst = task[u].inst /\ task'[u].park = task[u].park
                          /\ IsParked(u)' <=> IsParked(u),
         \A i \in Insts : gate'[i].owner = gate[i].owner /\ gate'[i].mayEnter = gate[i].mayEnter
  PROVE  Exclusivity' /\ EntryIsRefusedWhileRunning'
<1>1. ASSUME NEW u \in Tasks, HasFrames(u)' PROVE gate'[I(u)'].owner = u
  <2>1. HasFrames(u) /\ I(u)' = I(u)
    BY <1>1 DEF HasFrames, I
  <2>2. I(u) \in Insts
    BY <2>1, Somewhere DEF HasFrames
  <2> QED
    BY <2>1, <2>2 DEF Located, Exclusivity
<1>2. \A t \in OnStack : I(t)' = I(t)
  BY StackedAreTasks DEF I
<1>3. EntryIsRefusedWhileRunning'
  BY <1>2 DEF Located, EntryIsRefusedWhileRunning
<1> QED
  BY <1>1, <1>3 DEF Exclusivity

\* c gets the baton, and the exclusive of its instance.
LEMMA GetsBaton ==
  ASSUME Types, Located, NEW c \in Tasks, NEW i \in Insts,
         c \notin OnStack, OnStack' = OnStack \cup {c}, ~IsParked(c)', task'[c].inst = i, Others(c),
         gate[i].owner \in {NoTask, c}, gate'[i].owner = c, gate'[i].mayEnter = FALSE,
         \A j \in Insts \ {i} : gate'[j] = gate[j]
  PROVE  Exclusivity' /\ EntryIsRefusedWhileRunning'
<1>0. c # NoTask /\ NoTask \notin Tasks
  BY TasksAssumption
<1>1. ASSUME NEW u \in Tasks, HasFrames(u)' PROVE gate'[I(u)'].owner = u
  <2>1. CASE u = c
    BY <2>1 DEF I
  <2>2. CASE u # c
    <3>1. HasFrames(u) /\ I(u)' = I(u)
      BY <1>1, <2>2 DEF HasFrames, I, Others
    <3>2. I(u) \in Insts
      BY <3>1, Somewhere DEF HasFrames
    <3>3. gate[I(u)].owner = u
      BY <3>1 DEF Located, Exclusivity
    <3>4. I(u) # i
      BY <3>3, <2>2, <1>0
    <3> QED
      BY <3>1, <3>2, <3>3, <3>4
  <2> QED
    BY <2>1, <2>2
<1>2. \A t \in OnStack \ {c} : I(t)' = I(t)
  BY StackedAreTasks DEF I, Others
<1>3. ASSUME NEW j \in Insts PROVE gate'[j].mayEnter <=> \A t \in OnStack' : I(t)' # j
  <2>1. CASE j = i
    BY <2>1 DEF I
  <2>2. CASE j # i
    <3>1. gate'[j].mayEnter <=> \A t \in OnStack : I(t) # j
      BY <2>2 DEF Located, EntryIsRefusedWhileRunning
    <3>2. I(c)' = i
      BY DEF I
    <3> QED
      BY <3>1, <3>2, <1>2, <2>2
  <2> QED
    BY <2>1, <2>2
<1> QED
  BY <1>1, <1>3 DEF Exclusivity, EntryIsRefusedWhileRunning

\* t gives the baton back, and the exclusive of its instance unless it keeps frames.
LEMMA GivesBaton ==
  ASSUME Types, Located, NEW t \in OnStack,
         OnStack' = OnStack \ {t}, task'[t].inst = I(t), Others(t),
         gate'[I(t)].owner = t \/ (IsParked(t)' => task'[t].park # "block"),
         gate'[I(t)].mayEnter = TRUE,
         \A j \in Insts \ {I(t)} : gate'[j] = gate[j]
  PROVE  Exclusivity' /\ EntryIsRefusedWhileRunning'
<1>0. t \in Tasks /\ I(t) \in Insts /\ gate[I(t)].owner = t
  BY StackedAreTasks, Somewhere DEF Located, Exclusivity, HasFrames
<1>1. ASSUME NEW u \in Tasks, HasFrames(u)' PROVE gate'[I(u)'].owner = u
  <2>1. CASE u = t
    BY <2>1, <1>1 DEF I, HasFrames
  <2>2. CASE u # t
    <3>1. HasFrames(u) /\ I(u)' = I(u)
      BY <1>1, <2>2 DEF HasFrames, I, Others
    <3>2. I(u) \in Insts
      BY <3>1, Somewhere DEF HasFrames
    <3>3. gate[I(u)].owner = u
      BY <3>1 DEF Located, Exclusivity
    <3> QED
      BY <3>1, <3>2, <3>3, <2>2, <1>0
  <2> QED
    BY <2>1, <2>2
<1>2. ASSUME NEW u \in OnStack, u # t
      PROVE  u \in Tasks /\ I(u)' = I(u) /\ I(u) # I(t)
  <2>1. u \in Tasks
    BY StackedAreTasks, <1>2
  <2>2. gate[I(u)].owner = u
    BY <2>1, <1>2 DEF Located, Exclusivity, HasFrames
  <2> QED
    BY <2>1, <2>2, <1>0, <1>2 DEF I, Others
<1>3. ASSUME NEW j \in Insts PROVE gate'[j].mayEnter <=> \A u \in OnStack' : I(u)' # j
  <2>1. CASE j = I(t)
    BY <2>1, <1>2
  <2>2. CASE j # I(t)
    <3>1. gate'[j].mayEnter <=> \A u \in OnStack : I(u) # j
      BY <2>2 DEF Located, EntryIsRefusedWhileRunning
    <3> QED
      BY <3>1, <1>2, <2>2
  <2> QED
    BY <2>1, <2>2
<1> QED
  BY <1>1, <1>3 DEF Exclusivity, EntryIsRefusedWhileRunning

\* No task is forgotten.
NoneFresh == \A w \in Tasks : task[w].state # "fresh" => task'[w].state # "fresh"

\* A task that stays as it is.
LEMMA LifeStays ==
  ASSUME Types, Located, NEW u \in Tasks, task'[u] = task[u], NoneFresh,
         u \in OnStack' => u \in OnStack, IsParked(u)' => IsParked(u)
  PROVE  Life(u)'
<1>1. Life(u)
  BY DEF Located
<1>2. task[u] \in TaskRecord
  BY DEF Types
<1>3. task[u].caller # NoTask => task[u].caller \in Tasks
  BY <1>2 DEF TaskRecord
<1> QED
  BY <1>1, <1>3 DEF Life, NoneFresh

\* A task that has started, whatever it does.
LEMMA LifeGoesOn ==
  ASSUME Types, Located, NEW u \in Tasks, NoneFresh, task[u].state # "fresh",
         task'[u].inst = task[u].inst, task'[u].caller = task[u].caller,
         task'[u].shape = task[u].shape,
         task'[u].state \notin {"fresh", "initial"},
         task'[u].park \in {"wait", "yield"} =>
           task[u].park = task'[u].park \/ task[u].shape # "stackful",
         IsParked(u)' => task'[u].park # "entry"
  PROVE  Life(u)'
<1>1. Life(u)
  BY DEF Located
<1>2. task[u] \in TaskRecord
  BY DEF Types
<1>3. task[u].caller # NoTask => task[u].caller \in Tasks
  BY <1>2 DEF TaskRecord
<1> QED
  BY <1>1, <1>3 DEF Life, NoneFresh

\* The tasks stay where they are; one may change its state.
Renews(t) ==
  /\ task' \in [Tasks -> TaskRecord]
  /\ \A u \in Tasks \ {t} : task'[u] = task[u]
  /\ \/ task'[t] = task[t]
     \/ /\ task[t].state \notin {"fresh", "initial"} /\ task'[t].state \notin {"fresh", "initial"}
        /\ task'[t].inst = task[t].inst /\ task'[t].park = task[t].park
        /\ task'[t].shape = task[t].shape /\ task'[t].caller = task[t].caller
        /\ task'[t].awaits = task[t].awaits

SameGates ==
  \A i \in Insts : gate'[i].owner = gate[i].owner /\ gate'[i].mayEnter = gate[i].mayEnter

\* Then every task is where it was.
LEMMA AllStay ==
  ASSUME Types, Located, NEW t \in Tasks, Renews(t), SameFrames(stack'), parked' = parked, SameGates
  PROVE  Located'
<1>1. OnStack' = OnStack /\ Distinct'
  BY StackStays DEF Located, Placed
<1>2. \A u \in Tasks : IsParked(u)' <=> IsParked(u)
  BY DEF IsParked
<1>3. \A u \in Tasks : task'[u].inst = task[u].inst /\ task'[u].park = task[u].park
  BY DEF Renews
<1>4. Exclusivity' /\ EntryIsRefusedWhileRunning'
  BY <1>1, <1>2, <1>3, NoneMoves DEF SameGates
<1>5. Placed'
  BY <1>1, <1>2 DEF Located, Placed
<1>6. NoneFresh
  BY DEF NoneFresh, Renews
<1>7. ASSUME NEW u \in Tasks PROVE Life(u)'
  <2>1. CASE task'[u] = task[u]
    BY <2>1, <1>1, <1>2, <1>6, LifeStays
  <2>2. CASE task'[u] # task[u]
    <3>1. u = t
      BY <2>2 DEF Renews
    <3>2. IsParked(t)' => task'[t].park # "entry"
      BY <3>1, <2>2, <1>2 DEF Renews, Located, Life
    <3> QED
      BY <3>1, <3>2, <2>2, <1>6, LifeGoesOn DEF Renews
  <2> QED
    BY <2>1, <2>2
<1> QED
  BY <1>4, <1>5, <1>7 DEF Located

-----------------------------------------------------------------------------
(* What becomes of the subtasks.                                           *)

Mid == {"started", "pending", "delivered"}

\* The property SubtaskOnlyAdvances, of one subtask.
Advances(c) ==
  sub[c].state # sub'[c].state =>
    \/ sub[c].state \in {"returned", "unstarted", "unreturned"} /\ sub'[c] = NoSubtask
    \/ sub[c].state = "none" /\ sub'[c].state \in {"starting", "started"}
    \/ sub[c].state = "starting" /\ sub'[c].state \in {"started", "unstarted"}
    \/ sub[c].state = "started" /\ sub'[c].state \in {"returned", "unreturned"}

GoesOn(c) ==
  /\ task'[c].caller = task[c].caller
  /\ task'[c].state = task[c].state \/ (task[c].state \in Mid /\ task'[c].state \in Mid)

\* Nothing is resolved, told or forgotten.
Keeps(c) ==
  /\ GoesOn(c)
  /\ sub'[c].state = sub[c].state /\ sub'[c].event = sub[c].event
  /\ sub'[c].delivered = sub[c].delivered
  /\ sub'[c].held => sub[c].held \/ ~Resolved(c)
  /\ task[c].caller = NoTask => sub'[c] = sub[c]

\* The caller is told.
Told(c) ==
  /\ GoesOn(c) /\ Resolved(c)
  /\ sub'[c].state = sub[c].state /\ ~sub'[c].event /\ sub'[c].delivered

\* The caller sees that it has resolved, or drops it.
Forgotten(c) == GoesOn(c) /\ Resolved(c) /\ sub'[c] = NoSubtask

\* The call resolves.
Resolves(c) ==
  /\ task'[c].caller = task[c].caller /\ task'[c].state = "resolved"
  /\ task[c].state \in Mid \cup {"initial"}
  /\ task[c].caller = NoTask => sub'[c] = sub[c]
  /\ task[c].caller # NoTask =>
       /\ sub'[c].state \in IF sub[c].state = "starting" THEN {"unstarted"}
                            ELSE {"returned", "unreturned"}
       /\ sub'[c].held = sub[c].held /\ (sub'[c].event = sub[c].held \/ sub'[c].delivered)

\* The task enters.
Enters(c) ==
  /\ task'[c].caller = task[c].caller /\ task'[c].state = "started"
  /\ task[c].state = "initial"
  /\ task[c].caller = NoTask => sub'[c] = sub[c]
  /\ task[c].caller # NoTask =>
       sub'[c].state = "started" /\ ~sub'[c].event /\ ~sub'[c].delivered

\* The task is started.
Begins(c) ==
  /\ task[c].state = "fresh"
  /\ \/ task'[c].caller = NoTask /\ sub'[c] = sub[c]
     \/ /\ task'[c].caller # NoTask /\ ~sub'[c].event /\ ~sub'[c].delivered
        /\ \/ task'[c].state = "initial" /\ sub'[c].state = "starting"
           \/ task'[c].state = "started" /\ sub'[c].state = "started"

SubStep(c) ==
  Keeps(c) \/ Told(c) \/ Forgotten(c) \/ Resolves(c) \/ Enters(c) \/ Begins(c)

\* The subtask follows its task in each of these.
LEMMA SubFollows ==
  ASSUME Types, Located, NEW c \in Tasks, Follows(c), SubStep(c), sub' \in [Tasks -> SubRecord]
  PROVE  Follows(c)' /\ Advances(c)
<1>1. /\ task[c].state \in {"fresh", "initial", "started", "pending", "delivered", "resolved"}
      /\ sub[c] \in SubRecord /\ sub'[c] \in SubRecord
  BY DEF Types, TaskRecord
<1>2. task[c].state = "fresh" => task[c].caller = NoTask
  BY DEF Located, Life
<1>3. sub[c] = NoSubtask => sub[c].state = "none" /\ ~sub[c].event /\ ~sub[c].delivered
  BY DEF NoSubtask
<1>4. sub'[c] = NoSubtask => sub'[c].state = "none" /\ ~sub'[c].event /\ ~sub'[c].delivered
                             /\ ~sub'[c].held
  BY DEF NoSubtask
<1>5. CASE Keeps(c)
  BY <1>1, <1>2, <1>3, <1>5 DEF Keeps, GoesOn, Mid, Follows, Advances, Resolved
<1>6. CASE Told(c)
  BY <1>1, <1>2, <1>3, <1>6 DEF Told, GoesOn, Mid, Follows, Advances, Resolved
<1>7. CASE Forgotten(c)
  BY <1>1, <1>2, <1>3, <1>4, <1>7 DEF Forgotten, GoesOn, Mid, Follows, Advances, Resolved
<1>8. CASE Resolves(c)
  BY <1>1, <1>2, <1>3, <1>8 DEF Resolves, Mid, Follows, Advances, Resolved
<1>9. CASE Enters(c)
  BY <1>1, <1>2, <1>3, <1>9 DEF Enters, Mid, Follows, Advances, Resolved
<1>10. CASE Begins(c)
  BY <1>1, <1>2, <1>3, <1>10 DEF Begins, Mid, Follows, Advances, Resolved
<1> QED
  BY <1>5, <1>6, <1>7, <1>8, <1>9, <1>10 DEF SubStep

\* getPendingEvent.
LEMMA DeliverFacts ==
  ASSUME NEW sb \in [Tasks -> SubRecord], NEW c \in Tasks
  PROVE  /\ Deliver(sb, c) \in [Tasks -> SubRecord]
         /\ \A d \in Tasks \ {c} : Deliver(sb, c)[d] = sb[d]
         /\ Deliver(sb, c)[c].state = sb[c].state /\ Deliver(sb, c)[c].held = sb[c].held
         /\ Deliver(sb, c)[c].event = FALSE /\ Deliver(sb, c)[c].delivered = TRUE
         /\ Deliver(sb, c)[c].joined = sb[c].joined /\ Deliver(sb, c)[c].sleeper = sb[c].sleeper
<1> DEFINE h == Deliver(sb, c)
<1>1. /\ h[c] = [[sb[c] EXCEPT !.event = FALSE] EXCEPT !.delivered = TRUE]
      /\ \A d \in Tasks \ {c} : h[d] = sb[d]
  BY DEF Deliver
<1>2. h \in [Tasks -> SubRecord]
  BY DEF Deliver, SubRecord
<1> HIDE DEF h
<1>3. sb[c] \in SubRecord
  OBVIOUS
<1>4. h[c].state = sb[c].state /\ h[c].held = sb[c].held
  BY <1>1, <1>3 DEF SubRecord
<1>5. h[c].event = FALSE /\ h[c].delivered = TRUE
  BY <1>1, <1>3 DEF SubRecord
<1>6. h[c].joined = sb[c].joined /\ h[c].sleeper = sb[c].sleeper
  BY <1>1, <1>3 DEF SubRecord
<1> QED
  BY <1>1, <1>2, <1>4, <1>5, <1>6 DEF h

\* A subtask resolves.
LEMMA ResolveFacts ==
  ASSUME NEW sb \in [Tasks -> SubRecord], NEW c \in Tasks, NEW how
  PROVE  /\ Resolve(sb, c, how) \in [Tasks -> SubRecord]
         /\ \A d \in Tasks \ {c} : Resolve(sb, c, how)[d] = sb[d]
         /\ task[c].caller = NoTask => Resolve(sb, c, how) = sb
         /\ task[c].caller # NoTask =>
              /\ Resolve(sb, c, how)[c].state = Outcome(c, how)
              /\ Resolve(sb, c, how)[c].event = sb[c].held
         /\ Resolve(sb, c, how)[c].held = sb[c].held
         /\ Resolve(sb, c, how)[c].delivered = sb[c].delivered
         /\ Resolve(sb, c, how)[c].joined = sb[c].joined
         /\ Resolve(sb, c, how)[c].sleeper = sb[c].sleeper
<1> DEFINE h == [sb EXCEPT ![c].state = Outcome(c, how), ![c].event = sb[c].held]
<1>0. Outcome(c, how) \in {"returned", "unstarted", "unreturned"}
  BY DEF Outcome
<1>1. /\ h[c] = [[sb[c] EXCEPT !.state = Outcome(c, how)] EXCEPT !.event = sb[c].held]
      /\ \A d \in Tasks \ {c} : h[d] = sb[d]
  OBVIOUS
<1>2. h \in [Tasks -> SubRecord]
  BY <1>0 DEF SubRecord
<1>3. Resolve(sb, c, how) = IF task[c].caller = NoTask THEN sb ELSE h
  BY DEF Resolve
<1> HIDE DEF h
<1>4. sb[c] \in SubRecord
  OBVIOUS
<1>5. h[c].state = Outcome(c, how) /\ h[c].event = sb[c].held
  BY <1>1, <1>4 DEF SubRecord
<1>6. h[c].held = sb[c].held /\ h[c].delivered = sb[c].delivered
  BY <1>1, <1>4 DEF SubRecord
<1>7. h[c].joined = sb[c].joined /\ h[c].sleeper = sb[c].sleeper
  BY <1>1, <1>4 DEF SubRecord
<1> QED
  BY <1>1, <1>2, <1>3, <1>5, <1>6, <1>7

\* The caller of the task that gives the baton back looks at its subtask.
LEMMA SeenFacts ==
  ASSUME Types, NEW c \in Tasks
  PROVE  /\ SeenByCaller(c) \in [Tasks -> SubRecord]
         /\ \A d \in Tasks \ {c} : SeenByCaller(c)[d] = sub[d]
         /\ Resolved(c) => SeenByCaller(c)[c] = NoSubtask
         /\ ~Resolved(c) =>
              /\ SeenByCaller(c)[c].held = TRUE
              /\ SeenByCaller(c)[c].state = sub[c].state
              /\ SeenByCaller(c)[c].event = sub[c].event
              /\ SeenByCaller(c)[c].delivered = sub[c].delivered
              /\ SeenByCaller(c)[c].joined = sub[c].joined
              /\ SeenByCaller(c)[c].sleeper = sub[c].sleeper
<1> DEFINE h == [sub EXCEPT ![c] = NoSubtask]
           k == [sub EXCEPT ![c].held = TRUE]
<1>1. sub \in [Tasks -> SubRecord] /\ sub[c] \in SubRecord
  BY DEF Types
<1>2. NoSubtask \in SubRecord
  BY DEF NoSubtask, SubRecord
<1>3. h \in [Tasks -> SubRecord] /\ h[c] = NoSubtask /\ \A d \in Tasks \ {c} : h[d] = sub[d]
  BY <1>1, <1>2
<1>4. k[c] = [sub[c] EXCEPT !.held = TRUE] /\ \A d \in Tasks \ {c} : k[d] = sub[d]
  BY <1>1
<1>5. k \in [Tasks -> SubRecord]
  BY <1>1 DEF SubRecord
<1>6. SeenByCaller(c) = IF Resolved(c) THEN h ELSE k
  BY DEF SeenByCaller
<1> HIDE DEF h, k
<1>7. /\ k[c].held = TRUE
      /\ k[c].state = sub[c].state /\ k[c].event = sub[c].event
      /\ k[c].delivered = sub[c].delivered
      /\ k[c].joined = sub[c].joined /\ k[c].sleeper = sub[c].sleeper
  BY <1>1, <1>4 DEF SubRecord
<1> QED
  BY <1>3, <1>4, <1>5, <1>6, <1>7

\* Nothing happens to the subtask of c.
LEMMA Untouched ==
  ASSUME NEW c \in Tasks, GoesOn(c), sub'[c] = sub[c]
  PROVE  SubStep(c)
BY DEF SubStep, Keeps

CallersStay ==
  \A u \in Tasks : task[u].caller # NoTask => task'[u].caller # NoTask

\* Frames that know what they wait for still do.
LEMMA NamesLater ==
  ASSUME CallersStay, \A k \in DOMAIN stack' : Knows(stack'[k])
  PROVE  Names'
BY DEF Names, Knows, CallersStay

\* A frame that stays on top of the same frames.
LEMMA NamesStay ==
  ASSUME Types, Names, CallersStay, SameFrames(stack'), 1 \in DOMAIN stack' => Knows(stack'[1])
  PROVE  Names'
<1>1. \A k \in DOMAIN stack' : Knows(stack'[k])
  BY DEF SameFrames, Names
<1> QED
  BY <1>1, NamesLater

\* The stack does not change.
LEMMA StackUnchanged ==
  ASSUME Types, Names, stack' = stack
  PROVE  SameFrames(stack') /\ (1 \in DOMAIN stack' => Knows(stack'[1]))
BY DEF SameFrames, Types, Names

\* The inductive invariant, its first part.
Core == Types /\ Located /\ Names /\ (\A c \in Tasks : Follows(c)) /\ WaitersAtLeast

\* What a step must do.
Fine == Types' /\ Located' /\ Names' /\ (\A c \in Tasks : SubStep(c)) /\ WaitersAtLeast'

\* Then the invariant holds again and every subtask advances.
LEMMA FineIsEnough ==
  ASSUME Core, Fine
  PROVE  Core' /\ \A c \in Tasks : Advances(c)
<1>1. ASSUME NEW c \in Tasks PROVE Follows(c)' /\ Advances(c)
  <2>1. Types /\ Located /\ Follows(c) /\ SubStep(c) /\ sub' \in [Tasks -> SubRecord]
    BY DEF Core, Fine, Types
  <2> QED
    BY <2>1, SubFollows
<1> QED
  BY <1>1 DEF Core, Fine

\* Who runs.
LEMMA Runner ==
  ASSUME Core, NEW t, stack # <<>>, Top.task = t
  PROVE  /\ t \in Tasks /\ t \in OnStack /\ ~IsParked(t) /\ I(t) \in Insts
         /\ task[t].state \notin {"fresh", "initial"}
         /\ 1 \in DOMAIN stack /\ Top = stack[1] /\ Top \in Frame
<1>1. /\ t \in Tasks /\ t \in OnStack
      /\ 1 \in DOMAIN stack /\ Top = stack[1] /\ Top \in Frame
  BY TopIs DEF Core
<1>2. ~IsParked(t) /\ Life(t)
  BY <1>1 DEF Core, Located, Placed
<1> QED
  BY <1>1, <1>2, Somewhere DEF Core, Life

-----------------------------------------------------------------------------
(* The waiters of the sets, and their count.                               *)

\* They are the tasks of the instance that wait.
LEMMA WaitersAre ==
  /\ \A i : SetWaiters(i) = {t \in Tasks : I(t) = i /\ IsWaiter(t)}
  /\ \A i : SetWaiters(i)' = {t \in Tasks : I(t)' = i /\ IsWaiter(t)'}
BY DEF SetWaiters, IsWaiter, Sits, Sitting, IsDriving

\* There are finitely many.
LEMMA WaitersFinite ==
  ASSUME Types, NEW i
  PROVE  IsFiniteSet(SetWaiters(i))
<1> DEFINE P == {parked[k] : k \in DOMAIN parked}
           S == {stack[k].task : k \in DOMAIN stack}
           f == [k \in DOMAIN stack |-> stack[k].task]
<1>1. IsFiniteSet(DOMAIN parked) /\ IsFiniteSet(DOMAIN stack)
  <2>1. /\ DOMAIN parked = 1..Len(parked) /\ Len(parked) \in Nat
        /\ DOMAIN stack = 1..Len(stack) /\ Len(stack) \in Nat
    BY DEF Types
  <2> QED
    BY <2>1, FS_Interval
<1>2. IsFiniteSet(P) /\ IsFiniteSet(S)
  <2>1. parked \in Surjection(DOMAIN parked, P)
    BY DEF Types, Surjection
  <2>2. f \in Surjection(DOMAIN stack, S)
    BY DEF Surjection
  <2> QED
    BY <1>1, <2>1, <2>2, FS_Surjection
<1>3. SetWaiters(i) \subseteq P \cup S
  BY DEF SetWaiters, IsParked
<1> QED
  BY <1>2, <1>3, FS_Union, FS_Subset

\* What a step does to the waiters: t joins, leaves or stays, and is counted.
Tally(i, t, b) ==
  /\ \A j \in Insts :
       /\ gate'[j].poisoned = gate[j].poisoned
       /\ gate'[j].waiters = IF j = i THEN gate[j].waiters + b ELSE gate[j].waiters
  /\ \A u \in Tasks \ {t} : (IsWaiter(u)' <=> IsWaiter(u)) /\ (IsWaiter(u) => I(u)' = I(u))
  /\ \/ b = 0 /\ (IsWaiter(t)' <=> IsWaiter(t)) /\ (IsWaiter(t) => I(t)' = I(t))
     \/ b = 1 /\ ~IsWaiter(t) /\ IsWaiter(t)' /\ I(t)' = i
     \/ b = -1 /\ IsWaiter(t) /\ ~IsWaiter(t)' /\ I(t) = i

\* Then the count is right again.
LEMMA CountFollows ==
  ASSUME Types, WaitersAtLeast, NEW i, NEW t \in Tasks, NEW b, Tally(i, t, b)
  PROVE  WaitersAtLeast'
<1> SUFFICES ASSUME NEW j \in Insts
             PROVE  /\ gate'[j].waiters >= Cardinality(SetWaiters(j)')
                    /\ ~gate'[j].poisoned => gate'[j].waiters = Cardinality(SetWaiters(j)')
  BY DEF WaitersAtLeast
<1> DEFINE S == SetWaiters(j)
           T == SetWaiters(j)'
           n == gate[j].waiters
           m == gate'[j].waiters
<1>1. IsFiniteSet(S) /\ Cardinality(S) \in Nat
  BY WaitersFinite, FS_CardinalityType
<1>2. n >= Cardinality(S) /\ (~gate[j].poisoned => n = Cardinality(S)) /\ n \in Int
  BY DEF WaitersAtLeast, Types, GateSet
<1>3. gate'[j].poisoned = gate[j].poisoned /\ m = IF j = i THEN n + b ELSE n
  BY DEF Tally
<1>4. /\ S = {u \in Tasks : I(u) = j /\ IsWaiter(u)}
      /\ T = {u \in Tasks : I(u)' = j /\ IsWaiter(u)'}
  BY WaitersAre
<1>5. \A u \in Tasks \ {t} : u \in T <=> u \in S
  BY <1>4 DEF Tally
<1> HIDE DEF S, T, n, m
<1>6. CASE T = S /\ m = n
  BY <1>2, <1>3, <1>6 DEF S, T, n, m
<1>7. CASE t \notin S /\ T = S \cup {t} /\ m = n + 1
  <2>1. Cardinality(T) = Cardinality(S) + 1
    BY <1>1, <1>7, FS_AddElement
  <2> QED
    BY <1>1, <1>2, <1>3, <1>7, <2>1 DEF S, T, n, m
<1>8. CASE t \in S /\ T = S \ {t} /\ m = n - 1
  <2>1. Cardinality(T) = Cardinality(S) - 1
    BY <1>1, <1>8, FS_RemoveElement
  <2> QED
    BY <1>1, <1>2, <1>3, <1>8, <2>1 DEF S, T, n, m
<1>9. S \subseteq Tasks /\ T \subseteq Tasks
  BY <1>4
<1>10. CASE b = 0
  <2>1. t \in T <=> t \in S
    BY <1>4, <1>10 DEF Tally
  <2> QED
    BY <1>2, <1>3, <1>5, <1>6, <1>9, <1>10, <2>1
<1>11. CASE b = 1
  <2>1. t \notin S /\ (t \in T <=> j = i)
    BY <1>4, <1>11 DEF Tally
  <2> QED
    BY <1>2, <1>3, <1>5, <1>6, <1>7, <1>9, <1>11, <2>1
<1>12. CASE b = -1
  <2>1. t \notin T /\ (t \in S <=> j = i)
    BY <1>4, <1>12 DEF Tally
  <2>2. CASE j = i
    <3>1. t \in S /\ T = S \ {t} /\ m = n - 1
      BY <1>2, <1>3, <1>5, <1>9, <1>12, <2>1, <2>2 DEF n
    <3> QED
      BY <1>8, <3>1
  <2>3. CASE j # i
    <3>1. T = S /\ m = n
      BY <1>3, <1>5, <1>9, <2>1, <2>3
    <3> QED
      BY <1>6, <3>1
  <2> QED
    BY <2>2, <2>3
<1> QED
  BY <1>10, <1>11, <1>12 DEF Tally

\* Nobody starts or ends a nested drive for a set.
SameDrives(s) ==
  SameFrames(s) /\ \A k \in DOMAIN stack : s[k].mode = "drive" <=> stack[k].mode = "drive"

\* Who drives when the frames stay.
LEMMA DrivesStay ==
  ASSUME Types, SameFrames(stack')
  PROVE  /\ SameDrives(stack') => \A u : IsDriving(u)' <=> IsDriving(u)
         /\ stack # <<>> /\ Distinct =>
              /\ \A u : u # Top.task => (IsDriving(u)' <=> IsDriving(u))
              /\ \A u : u = Top.task => /\ IsDriving(u) <=> Top.mode = "drive"
                                        /\ IsDriving(u)' <=> stack'[1].mode = "drive"
<1>1. SameDrives(stack') => \A u : IsDriving(u)' <=> IsDriving(u)
  BY DEF SameDrives, SameFrames, IsDriving
<1>2. ASSUME stack # <<>>, Distinct
      PROVE  /\ \A u : u # Top.task => (IsDriving(u)' <=> IsDriving(u))
             /\ \A u : u = Top.task => /\ IsDriving(u) <=> Top.mode = "drive"
                                       /\ IsDriving(u)' <=> stack'[1].mode = "drive"
  <2>1. 1 \in DOMAIN stack /\ Top = stack[1]
    BY <1>2, TopIs
  <2>2. \A k \in DOMAIN stack \ {1} : stack[k].task # Top.task
    BY <1>2, <2>1 DEF Distinct
  <2> QED
    BY <2>1, <2>2 DEF SameFrames, IsDriving
<1> QED
  BY <1>1, <1>2

\* Who drives when the running task gives the baton back.
LEMMA PopDrives ==
  ASSUME Types, Distinct, stack # <<>>, stack' = Tail(stack)
  PROVE  /\ \A u : u # Top.task => (IsDriving(u)' <=> IsDriving(u))
         /\ \A u : u = Top.task => ~IsDriving(u)'
         /\ IsDriving(Top.task) <=> Top.mode = "drive"
<1>1. /\ 1 \in DOMAIN stack /\ Top = stack[1]
      /\ \A k \in DOMAIN stack' : k + 1 \in DOMAIN stack /\ k + 1 # 1 /\ stack'[k] = stack[k + 1]
      /\ \A k \in DOMAIN stack \ {1} : k - 1 \in DOMAIN stack' /\ stack'[k - 1] = stack[k]
  BY PopFacts
<1>2. \A k \in DOMAIN stack \ {1} : stack[k].task # Top.task
  BY <1>1 DEF Distinct
<1>3. IsDriving(Top.task) <=> Top.mode = "drive"
  BY <1>1, <1>2 DEF IsDriving
<1>4. \A u : IsDriving(u)' => IsDriving(u) /\ u # Top.task
  BY <1>1, <1>2 DEF IsDriving
<1>5. \A u : u # Top.task /\ IsDriving(u) => IsDriving(u)'
  BY <1>1 DEF IsDriving
<1> QED
  BY <1>3, <1>4, <1>5

\* Who drives when a task gets the baton.
LEMMA PushDrives ==
  ASSUME Types, NEW f \in Frame, f.mode # "drive", NEW s, SameDrives(s), stack' = <<f>> \o s
  PROVE  \A u : IsDriving(u)' <=> IsDriving(u)
<1>1. /\ s \in Seq(Frame) /\ DOMAIN s = DOMAIN stack
      /\ \A k \in DOMAIN stack : /\ s[k].task = stack[k].task
                                 /\ s[k].mode = "drive" <=> stack[k].mode = "drive"
  BY DEF SameDrives, SameFrames
<1>2. /\ 1 \in DOMAIN stack' /\ stack'[1] = f
      /\ \A k \in DOMAIN s : k + 1 \in DOMAIN stack' /\ stack'[k + 1] = s[k]
      /\ \A k \in DOMAIN stack' \ {1} : k - 1 \in DOMAIN s /\ stack'[k] = s[k - 1]
  BY <1>1, PushFacts
<1>3. \A u : IsDriving(u)' => IsDriving(u)
  BY <1>1, <1>2 DEF IsDriving
<1>4. \A u : IsDriving(u) => IsDriving(u)'
  BY <1>1, <1>2 DEF IsDriving
<1> QED
  BY <1>3, <1>4

SameCounts ==
  \A i \in Insts : gate'[i].waiters = gate[i].waiters /\ gate'[i].poisoned = gate[i].poisoned

\* Nobody joins and nobody leaves.
LEMMA StayCounts ==
  ASSUME Core, NEW t \in Tasks, Renews(t), parked' = parked, SameDrives(stack'), SameCounts
  PROVE  WaitersAtLeast'
<1>1. Types /\ WaitersAtLeast /\ SameFrames(stack')
  BY DEF Core, SameDrives
<1>2. \A u \in Tasks : /\ task'[u].park = task[u].park /\ task'[u].awaits = task[u].awaits
                       /\ task'[u].inst = task[u].inst
  BY DEF Renews
<1>3. \A u \in Tasks : IsParked(u)' <=> IsParked(u)
  BY DEF IsParked
<1>4. \A u \in Tasks : Sits(u)' <=> Sits(u)
  BY <1>2, <1>3 DEF Sits, Sitting
<1>5. \A u : IsDriving(u)' <=> IsDriving(u)
  BY <1>1, DrivesStay
<1>6. \A u \in Tasks : (IsWaiter(u)' <=> IsWaiter(u)) /\ I(u)' = I(u)
  BY <1>2, <1>4, <1>5 DEF IsWaiter, I
<1> DEFINE z == 0
<1>7. Tally(NoInst, t, z)
  <2>1. NoInst \notin Insts
    BY TasksAssumption
  <2> QED
    BY <1>6, <2>1 DEF Tally, SameCounts
<1> HIDE DEF z
<1> QED
  BY <1>1, <1>7, CountFollows

\* The running task starts or ends a nested drive for the set.
LEMMA DriveCounts ==
  ASSUME Core, NEW t, stack # <<>>, Top.task = t, Renews(t), parked' = parked,
         SameFrames(stack'), NEW b, Counted(gate, gate', I(t), 0, b),
         \/ b = 1 /\ Top.mode # "drive" /\ stack'[1].mode = "drive"
         \/ b = -1 /\ Top.mode = "drive" /\ stack'[1].mode # "drive"
  PROVE  WaitersAtLeast'
<1>1. Types /\ WaitersAtLeast /\ Distinct
  BY DEF Core, Located, Placed
<1>2. t \in Tasks /\ ~IsParked(t)
  BY Runner
<1>3. \A u \in Tasks : /\ task'[u].park = task[u].park /\ task'[u].awaits = task[u].awaits
                       /\ task'[u].inst = task[u].inst
  BY DEF Renews
<1>4. \A u \in Tasks : IsParked(u)' <=> IsParked(u)
  BY DEF IsParked
<1>5. \A u \in Tasks : (Sits(u)' <=> Sits(u)) /\ I(u)' = I(u)
  BY <1>3, <1>4 DEF Sits, Sitting, I
<1>6. ~Sits(t)
  BY <1>2 DEF Sits
<1>7. /\ \A u : u # t => (IsDriving(u)' <=> IsDriving(u))
      /\ IsDriving(t) <=> Top.mode = "drive"
      /\ IsDriving(t)' <=> stack'[1].mode = "drive"
  BY <1>1, DrivesStay
<1>8. \A j \in Insts : /\ gate'[j].poisoned = gate[j].poisoned
                       /\ gate'[j].waiters = IF j = I(t) THEN gate[j].waiters + b ELSE gate[j].waiters
  BY DEF Counted, Turned
<1>9. Tally(I(t), t, b)
  BY <1>2, <1>5, <1>6, <1>7, <1>8 DEF Tally, IsWaiter
<1> QED
  BY <1>1, <1>2, <1>9, CountFollows

\* Neither a task, a frame nor a gate.
LEMMA QuietCounts ==
  ASSUME Core, NEW t \in Tasks, Renews(t), parked' = parked, stack' = stack, gate' = gate
  PROVE  WaitersAtLeast'
<1>1. SameDrives(stack') /\ SameCounts
  BY StackUnchanged DEF SameDrives, SameCounts, Core
<1> QED
  BY <1>1, StayCounts

\* The running frame does not drive for a set, before or after.
LEMMA TopSameDrives ==
  ASSUME Types, stack # <<>>, NEW s, SameFrames(s), Top.mode # "drive", s[1].mode # "drive"
  PROVE  SameDrives(s)
<1>1. Top = stack[1]
  BY TopIs
<1> QED
  BY <1>1 DEF SameDrives, SameFrames

\* The running task gives the baton back and sits down, or not.
LEMMA PopCounts ==
  ASSUME Core, NEW t, stack # <<>>, Top.task = t, Top.mode # "drive", stack' = Tail(stack),
         \A u \in Tasks : task'[u].inst = task[u].inst,
         \A u \in Tasks \ {t} : /\ task'[u].park = task[u].park /\ task'[u].awaits = task[u].awaits
                                /\ IsParked(u)' <=> IsParked(u),
         NEW o, NEW m, NEW a, NEW b, Turned(gate, gate', I(t), o, m, a, b),
         Sits(t)' => b = 1, ~Sits(t)' => b = 0
  PROVE  WaitersAtLeast'
<1>1. Types /\ WaitersAtLeast /\ Distinct
  BY DEF Core, Located, Placed
<1>2. t \in Tasks /\ ~IsParked(t)
  BY Runner
<1>3. /\ \A u : u # t => (IsDriving(u)' <=> IsDriving(u))
      /\ ~IsDriving(t)' /\ ~IsDriving(t)
  BY <1>1, PopDrives
<1>4. \A u \in Tasks \ {t} : Sits(u)' <=> Sits(u)
  BY DEF Sits, Sitting
<1>5. \A u \in Tasks : I(u)' = I(u)
  BY DEF I
<1>6. ~IsWaiter(t) /\ (IsWaiter(t)' <=> Sits(t)')
  BY <1>2, <1>3 DEF IsWaiter, Sits
<1>7. \A u \in Tasks \ {t} : IsWaiter(u)' <=> IsWaiter(u)
  BY <1>3, <1>4 DEF IsWaiter
<1>8. \A j \in Insts : /\ gate'[j].poisoned = gate[j].poisoned
                       /\ gate'[j].waiters = IF j = I(t) THEN gate[j].waiters + b ELSE gate[j].waiters
  BY DEF Turned
<1>9. Tally(I(t), t, b)
  BY <1>2, <1>5, <1>6, <1>7, <1>8 DEF Tally
<1> QED
  BY <1>1, <1>2, <1>9, CountFollows

\* Every other task keeps its record and its place.
Besides(c) ==
  \A u \in Tasks \ {c} : task'[u] = task[u] /\ (IsParked(u)' <=> IsParked(u))

\* A task gets the baton, and no longer sits.
LEMMA PushCounts ==
  ASSUME Core, NEW c \in Tasks, NEW f \in Frame, f.mode # "drive", NEW s, SameDrives(s),
         stack' = <<f>> \o s, c \notin OnStack, ~IsParked(c)', Besides(c),
         NEW i, NEW o, NEW m, NEW a, NEW b, Turned(gate, gate', i, o, m, a, b),
         Sits(c) => b = -1 /\ I(c) = i, ~Sits(c) => b = 0
  PROVE  WaitersAtLeast'
<1>1. Types /\ WaitersAtLeast
  BY DEF Core
<1>2. \A u : IsDriving(u)' <=> IsDriving(u)
  BY <1>1, PushDrives
<1>3. ~IsDriving(c)
  BY DEF IsDriving, OnStack
<1>4. \A u \in Tasks \ {c} : (Sits(u)' <=> Sits(u)) /\ I(u)' = I(u)
  BY DEF Besides, Sits, I
<1>5. (IsWaiter(c) <=> Sits(c)) /\ ~IsWaiter(c)'
  BY <1>2, <1>3 DEF IsWaiter, Sits
<1>6. \A u \in Tasks \ {c} : (IsWaiter(u)' <=> IsWaiter(u)) /\ I(u)' = I(u)
  BY <1>2, <1>4 DEF IsWaiter
<1>7. \A j \in Insts : /\ gate'[j].poisoned = gate[j].poisoned
                       /\ gate'[j].waiters = IF j = i THEN gate[j].waiters + b ELSE gate[j].waiters
  BY DEF Turned
<1>8. Tally(i, c, b)
  BY <1>5, <1>6, <1>7 DEF Tally
<1> QED
  BY <1>1, <1>8, CountFollows

\* A task without frames comes or goes, and does not sit.
LEMMA RestCounts ==
  ASSUME Core, NEW c \in Tasks, c \notin OnStack, stack' = stack, Besides(c), ~Sits(c), ~Sits(c)',
         NEW i, NEW a, NEW b, Counted(gate, gate', i, a, b), b = 0
  PROVE  WaitersAtLeast'
<1>1. Types /\ WaitersAtLeast
  BY DEF Core
<1>2. \A u : IsDriving(u)' <=> IsDriving(u)
  BY DEF IsDriving
<1>3. ~IsDriving(c)
  BY DEF IsDriving, OnStack
<1>4. \A u \in Tasks \ {c} : (Sits(u)' <=> Sits(u)) /\ I(u)' = I(u)
  BY DEF Besides, Sits, I
<1>5. ~IsWaiter(c) /\ ~IsWaiter(c)'
  BY <1>2, <1>3 DEF IsWaiter
<1>6. \A u \in Tasks \ {c} : (IsWaiter(u)' <=> IsWaiter(u)) /\ I(u)' = I(u)
  BY <1>2, <1>4 DEF IsWaiter
<1>7. \A j \in Insts : /\ gate'[j].poisoned = gate[j].poisoned
                       /\ gate'[j].waiters = IF j = i THEN gate[j].waiters + b ELSE gate[j].waiters
  BY DEF Turned, Counted
<1>8. Tally(i, c, b)
  BY <1>5, <1>6, <1>7 DEF Tally
<1> QED
  BY <1>1, <1>8, CountFollows

-----------------------------------------------------------------------------
(* The builtins after which the same task runs.                            *)

\* A frame whose guest code runs.
LEMMA RunningFacts ==
  ASSUME NEW t \in Tasks, NEW via \in {"start", "resume", "cancel"}
  PROVE  /\ Running(t, via) \in Frame /\ Running(t, via).task = t /\ Running(t, via).via = via
         /\ Running(t, via).mode = "run" /\ Running(t, via).on = NoTask
         /\ ~Running(t, via).flag
BY DEF Running, Frame

\* One whose builtin has nothing to return, and one that waits for c.
Woken(t, via, m) == [Running(t, via) EXCEPT !.mode = m]
Syncs(t, via, c) == [Running(t, via) EXCEPT !.mode = "sync", !.on = c]

\* They are frames.
LEMMA WokenFacts ==
  ASSUME NEW t \in Tasks, NEW via \in {"start", "resume", "cancel"}, NEW m \in {"run", "empty"}
  PROVE  /\ Woken(t, via, m) \in Frame /\ Woken(t, via, m).task = t
         /\ Woken(t, via, m).via = via /\ Woken(t, via, m).mode = m
BY DEF Running, Frame, Woken

\* The same of a frame that waits for c.
LEMMA SyncsFacts ==
  ASSUME NEW t \in Tasks, NEW via \in {"start", "resume", "cancel"}, NEW c \in Tasks
  PROVE  /\ Syncs(t, via, c) \in Frame /\ Syncs(t, via, c).task = t
         /\ Syncs(t, via, c).via = via /\ Syncs(t, via, c).mode = "sync"
         /\ Syncs(t, via, c).on = c
BY DEF Running, Frame, Syncs

\* The running frame is marked.
Marks(s, m, o, b) ==
  \/ s = [stack EXCEPT ![1].mode = m] /\ o = Top.on /\ b = Top.flag
  \/ s = [stack EXCEPT ![1].mode = m, ![1].flag = b] /\ o = Top.on
  \/ s = [stack EXCEPT ![1].mode = m, ![1].on = o, ![1].flag = b]

\* The others stay.
LEMMA TopMarked ==
  ASSUME Types, stack # <<>>, NEW s,
         NEW m \in {"run", "drive", "cancel", "sync", "empty", "panic", "hung"},
         NEW o \in Tasks \cup {NoTask}, NEW b \in BOOLEAN, Marks(s, m, o, b)
  PROVE  /\ SameFrames(s) /\ 1 \in DOMAIN s
         /\ s[1].mode = m /\ s[1].on = o /\ s[1].flag = b
<1>1. 1 \in DOMAIN stack /\ Top = stack[1] /\ Top \in Frame /\ stack \in Seq(Frame)
  BY TopIs DEF Types
<1>2. /\ DOMAIN s = DOMAIN stack /\ \A k \in DOMAIN stack \ {1} : s[k] = stack[k]
      /\ \/ s[1] = [stack[1] EXCEPT !.mode = m] /\ o = Top.on /\ b = Top.flag
         \/ s[1] = [[stack[1] EXCEPT !.mode = m] EXCEPT !.flag = b] /\ o = Top.on
         \/ s[1] = [[[stack[1] EXCEPT !.mode = m] EXCEPT !.on = o] EXCEPT !.flag = b]
  BY <1>1 DEF Marks
<1>3. /\ s[1] \in Frame
      /\ s[1].task = Top.task /\ s[1].via = Top.via
      /\ s[1].mode = m /\ s[1].on = o /\ s[1].flag = b
  <2>1. CASE s[1] = [stack[1] EXCEPT !.mode = m] /\ o = Top.on /\ b = Top.flag
    BY <1>1, <2>1 DEF Frame
  <2>2. CASE s[1] = [[stack[1] EXCEPT !.mode = m] EXCEPT !.flag = b] /\ o = Top.on
    BY <1>1, <2>2 DEF Frame
  <2>3. CASE s[1] = [[[stack[1] EXCEPT !.mode = m] EXCEPT !.on = o] EXCEPT !.flag = b]
    BY <1>1, <2>3 DEF Frame
  <2> QED
    BY <1>2, <2>1, <2>2, <2>3
<1>4. \A k \in DOMAIN s : s[k] \in Frame
  BY <1>1, <1>2, <1>3
<1>5. \E n \in Nat : DOMAIN s = 1..n
  BY <1>1, <1>2
<1>6. s = [k \in DOMAIN s |-> s[k]]
  BY <1>1 DEF Marks
<1>7. s \in Seq(Frame)
  BY <1>4, <1>5, <1>6
<1> QED
  BY <1>1, <1>2, <1>3, <1>7 DEF SameFrames

\* The state of a task changes.
WithState(h, t, x) == [h EXCEPT ![t].state = x]

\* That is all that changes.
LEMMA StateChanges ==
  ASSUME NEW h \in [Tasks -> TaskRecord], NEW t \in Tasks,
         NEW x \in {"fresh", "initial", "started", "pending", "delivered", "resolved"},
         NEW l, l = WithState(h, t, x)
  PROVE  /\ l \in [Tasks -> TaskRecord] /\ \A u \in Tasks \ {t} : l[u] = h[u]
         /\ l[t].state = x
         /\ l[t].inst = h[t].inst /\ l[t].shape = h[t].shape /\ l[t].caller = h[t].caller
         /\ l[t].park = h[t].park /\ l[t].cancellable = h[t].cancellable
         /\ l[t].awaits = h[t].awaits /\ l[t].done = h[t].done
<1>1. /\ l[t] = [h[t] EXCEPT !.state = x] /\ \A u \in Tasks \ {t} : l[u] = h[u]
      /\ l = [u \in Tasks |-> l[u]]
  BY DEF WithState
<1>2. h[t] \in TaskRecord
  OBVIOUS
<1>3. l[t] \in TaskRecord
  BY <1>1, <1>2 DEF TaskRecord
<1>4. l \in [Tasks -> TaskRecord]
  BY <1>1, <1>3
<1>5. /\ l[t].state = x
      /\ l[t].inst = h[t].inst /\ l[t].shape = h[t].shape /\ l[t].caller = h[t].caller
      /\ l[t].park = h[t].park /\ l[t].cancellable = h[t].cancellable
      /\ l[t].awaits = h[t].awaits /\ l[t].done = h[t].done
  BY <1>1, <1>2 DEF TaskRecord
<1> QED
  BY <1>1, <1>4, <1>5

\* task.return, task.cancel
LEMMA ResolveFine ==
  ASSUME Core, NEW t \in Tasks, Runs(t), task[t].state # "resolved",
         NEW how \in {"returned", "cancelled"},
         task' = WithState(task, t, "resolved"), sub' = Resolve(sub, t, how),
         UNCHANGED <<gate, parked, stack, root>>
  PROVE  Fine
<1>1. Types /\ Located /\ Names
  BY DEF Core
<1>2. stack # <<>> /\ Top.task = t
  BY DEF Runs
<1>3. t \in OnStack /\ ~IsParked(t) /\ task[t].state \notin {"fresh", "initial"}
  BY <1>2, Runner
<1>4. task' \in [Tasks -> TaskRecord] /\ task[t] \in TaskRecord
  BY <1>1, StateChanges DEF Types
<1>5. Renews(t) /\ task'[t].state = "resolved"
  BY <1>1, <1>3, StateChanges DEF Renews, Types
<1>a. CallersStay
  BY <1>5 DEF CallersStay, Renews
<1>6. SameFrames(stack') /\ Names'
  BY <1>1, <1>a, StackUnchanged, NamesStay
<1>7. Located'
  BY <1>1, <1>5, <1>6, AllStay DEF SameGates
<1>8. sub \in [Tasks -> SubRecord]
  BY <1>1 DEF Types
<1>9. /\ sub' \in [Tasks -> SubRecord]
      /\ \A d \in Tasks \ {t} : sub'[d] = sub[d]
      /\ task[t].caller = NoTask => sub' = sub
      /\ task[t].caller # NoTask => sub'[t].state = Outcome(t, how) /\ sub'[t].event = sub[t].held
      /\ sub'[t].held = sub[t].held
  BY <1>8, ResolveFacts
<1>10. Types'
  BY <1>1, <1>4, <1>9 DEF Types
<1>11. Resolves(t)
  <2>1. task[t].state \in Mid
    BY <1>3, <1>4 DEF Mid, TaskRecord
  <2>2. task[t].caller # NoTask => sub[t].state = "started"
    BY <2>1 DEF Core, Follows, Mid
  <2>3. Outcome(t, how) \in {"returned", "unreturned"} \/ sub[t].state = "starting"
    BY DEF Outcome
  <2> QED
    BY <1>5, <1>9, <2>1, <2>2, <2>3 DEF Resolves, Renews
<1>12. \A c \in Tasks \ {t} : GoesOn(c) /\ sub'[c] = sub[c]
  BY <1>5, <1>9 DEF GoesOn, Renews
<1>13. WaitersAtLeast'
  BY <1>5, QuietCounts
<1> QED
  BY <1>1, <1>6, <1>7, <1>10, <1>11, <1>12, <1>13, Untouched DEF Fine, SubStep

\* The same frames, the same places, and only one task changes its state.
LEMMA StayFine ==
  ASSUME Core, NEW t \in Tasks, Renews(t), task'[t].state # task[t].state =>
           task[t].state \in Mid /\ task'[t].state \in Mid,
         SameFrames(stack'),
         1 \in DOMAIN stack' => Knows(stack'[1]),
         gate' \in [Insts -> GateSet], SameGates, parked' = parked, WaitersAtLeast',
         root' \in Tasks \cup {NoTask},
         sub' \in [Tasks -> SubRecord],
         \A c \in Tasks : GoesOn(c) => SubStep(c)
  PROVE  Fine
<1>1. Types /\ Located /\ Names
  BY DEF Core
<1>a. CallersStay
  BY DEF CallersStay, Renews
<1>2. Located' /\ Names'
  BY <1>1, <1>a, AllStay, NamesStay
<1>3. Types'
  BY <1>1 DEF Types, Renews, SameFrames
<1>4. \A c \in Tasks : GoesOn(c)
  BY DEF GoesOn, Renews
<1> QED
  BY <1>2, <1>3, <1>4 DEF Fine

\* An event is taken: the only one that is told is the one that has it.
LEMMA TakeTells ==
  ASSUME Core, NEW c \in Tasks, sub[c].event, NEW sb \in [Tasks -> SubRecord],
         \A d \in Tasks : /\ sb[d].state = sub[d].state /\ sb[d].event = sub[d].event
                          /\ sb[d].delivered = sub[d].delivered /\ sb[d].held = sub[d].held
                          /\ task[d].caller = NoTask => sb[d] = sub[d],
         sub' \in [Tasks -> SubRecord],
         \A d \in Tasks \ {c} : sub'[d] = sb[d],
         sub'[c].state = sb[c].state, sub'[c].event = FALSE, sub'[c].delivered = TRUE
  PROVE  \A d \in Tasks : GoesOn(d) => SubStep(d)
<1>1. Resolved(c)
  BY DEF Core, Follows
<1> QED
  BY <1>1 DEF SubStep, Told, Keeps

\* A flag of a subtask that nobody is told by.
Sleeps(sb, c, b) == [sb EXCEPT ![c].sleeper = b]
Joins(c) == [sub EXCEPT ![c].joined = ~@]

LikeBut(h, sb, c) ==
  /\ h \in [Tasks -> SubRecord] /\ \A d \in Tasks \ {c} : h[d] = sb[d]
  /\ h[c].state = sb[c].state /\ h[c].held = sb[c].held
  /\ h[c].event = sb[c].event /\ h[c].delivered = sb[c].delivered

\* Nothing else changes with it.
LEMMA FlagFacts ==
  ASSUME NEW sb \in [Tasks -> SubRecord], NEW c \in Tasks
  PROVE  /\ \A b \in BOOLEAN : /\ LikeBut(Sleeps(sb, c, b), sb, c)
                               /\ Sleeps(sb, c, b)[c].joined = sb[c].joined
                               /\ Sleeps(sb, c, b)[c].sleeper = b
         /\ sb = sub => /\ LikeBut(Requested(c), sub, c)
                        /\ Requested(c)[c].joined = sub[c].joined
                        /\ Requested(c)[c].sleeper = sub[c].sleeper
         /\ sb = sub => /\ LikeBut(Joins(c), sub, c)
                        /\ Joins(c)[c].joined = ~sub[c].joined
                        /\ Joins(c)[c].sleeper = sub[c].sleeper
<1>1. sb[c] \in SubRecord
  OBVIOUS
<1>2. ASSUME NEW b \in BOOLEAN
      PROVE  /\ LikeBut(Sleeps(sb, c, b), sb, c)
             /\ Sleeps(sb, c, b)[c].joined = sb[c].joined /\ Sleeps(sb, c, b)[c].sleeper = b
  <2> DEFINE h == Sleeps(sb, c, b)
  <2>1. h[c] = [sb[c] EXCEPT !.sleeper = b] /\ \A d \in Tasks \ {c} : h[d] = sb[d]
    BY DEF Sleeps
  <2>2. h \in [Tasks -> SubRecord]
    BY DEF Sleeps, SubRecord
  <2> HIDE DEF h
  <2>3. /\ h[c].state = sb[c].state /\ h[c].held = sb[c].held
        /\ h[c].event = sb[c].event /\ h[c].delivered = sb[c].delivered
        /\ h[c].joined = sb[c].joined
    BY <1>1, <2>1 DEF SubRecord
  <2>4. h[c].sleeper = b
    BY <1>1, <2>1 DEF SubRecord
  <2> QED
    BY <2>1, <2>2, <2>3, <2>4 DEF h, LikeBut
<1>3. ASSUME sb = sub
      PROVE  /\ LikeBut(Requested(c), sub, c)
             /\ Requested(c)[c].joined = sub[c].joined
             /\ Requested(c)[c].sleeper = sub[c].sleeper
  <2> DEFINE h == Requested(c)
  <2>1. h[c] = [sub[c] EXCEPT !.requested = TRUE] /\ \A d \in Tasks \ {c} : h[d] = sub[d]
    BY <1>3 DEF Requested
  <2>2. h \in [Tasks -> SubRecord]
    BY <1>3 DEF Requested, SubRecord
  <2> HIDE DEF h
  <2>3. /\ h[c].state = sub[c].state /\ h[c].held = sub[c].held
        /\ h[c].event = sub[c].event /\ h[c].delivered = sub[c].delivered
        /\ h[c].joined = sub[c].joined /\ h[c].sleeper = sub[c].sleeper
    BY <1>1, <1>3, <2>1 DEF SubRecord
  <2> QED
    BY <2>1, <2>2, <2>3 DEF h, LikeBut
<1>4. ASSUME sb = sub
      PROVE  /\ LikeBut(Joins(c), sub, c)
             /\ Joins(c)[c].joined = ~sub[c].joined
             /\ Joins(c)[c].sleeper = sub[c].sleeper
  <2> DEFINE h == Joins(c)
  <2>1. h[c] = [sub[c] EXCEPT !.joined = ~sub[c].joined] /\ \A d \in Tasks \ {c} : h[d] = sub[d]
    BY <1>4 DEF Joins
  <2>2. h \in [Tasks -> SubRecord]
    <3>1. [sub[c] EXCEPT !.joined = ~sub[c].joined] \in SubRecord
      BY <1>1, <1>4 DEF SubRecord
    <3>2. h = [d \in Tasks |-> h[d]]
      BY <1>4 DEF Joins
    <3> HIDE DEF h
    <3> QED
      BY <2>1, <3>1, <3>2, <1>4
  <2> HIDE DEF h
  <2>3. /\ h[c].state = sub[c].state /\ h[c].held = sub[c].held
        /\ h[c].event = sub[c].event /\ h[c].delivered = sub[c].delivered
        /\ h[c].sleeper = sub[c].sleeper
    BY <1>1, <1>4, <2>1 DEF SubRecord
  <2>4. h[c].joined = ~sub[c].joined
    BY <1>1, <1>4, <2>1 DEF SubRecord
  <2> QED
    BY <2>1, <2>2, <2>3, <2>4 DEF h, LikeBut
<1> QED
  BY <1>2, <1>3, <1>4

\* A subtask that is held, or that something was said of, has a caller.
LEMMA HasCaller ==
  ASSUME Core, NEW c \in Tasks,
         sub[c].held \/ sub[c].event \/ sub[c].delivered \/ Resolved(c)
  PROVE  task[c].caller # NoTask
<1>1. Follows(c)
  BY DEF Core
<1> QED
  BY <1>1 DEF Follows, NoSubtask, Resolved

\* A flag changes nothing that the subtask's caller was promised.
LEMMA FlagKeeps ==
  ASSUME Core, NEW c \in Tasks, task[c].caller # NoTask, LikeBut(sub', sub, c)
  PROVE  \A d \in Tasks : GoesOn(d) => SubStep(d)
BY DEF LikeBut, SubStep, Keeps

\* A task that only counts its waiting leaves the gates as they are.
LEMMA GatesStay ==
  ASSUME Types, NEW i \in Insts, NEW a, NEW b, Counted(gate, gate', i, a, b)
  PROVE  gate' \in [Insts -> GateSet] /\ SameGates
BY DEF Turned, Counted, SameGates

\* No task changes.
LEMMA TaskStays ==
  ASSUME Types, NEW t \in Tasks, task' = task
  PROVE  Renews(t) /\ task'[t].state = task[t].state
BY DEF Renews, Types

\* No gate and no frame changes.
LEMMA NothingMoves ==
  ASSUME Types, Names, gate' = gate, stack' = stack
  PROVE  /\ gate' \in [Insts -> GateSet] /\ SameGates /\ SameFrames(stack')
         /\ 1 \in DOMAIN stack' => Knows(stack'[1])
BY StackUnchanged DEF Types, SameGates, Names

\* waitable-set.wait that is cancelled at once
LEMMA WaitIsCancelledFine ==
  ASSUME Core, NEW t, WaitIsCancelled(t)
  PROVE  Fine
<1>1. Types /\ Names
  BY DEF Core
<1>2. stack # <<>> /\ Top.task = t /\ task[t].state = "pending"
  BY DEF WaitIsCancelled, MayWait, Runs
<1>3. t \in Tasks
  BY <1>2, Runner
<1>4. task' = WithState(task, t, "delivered") /\ gate' = gate /\ sub' = sub /\ parked' = parked
      /\ stack' = stack /\ root' = root
  BY DEF WaitIsCancelled, WithState
<1>5. Renews(t) /\ task'[t].state = "delivered"
  BY <1>1, <1>2, <1>3, <1>4, StateChanges DEF Renews, Types
<1>6. \A c \in Tasks : GoesOn(c) => SubStep(c)
  BY <1>4, Untouched
<1>7. sub' \in [Tasks -> SubRecord] /\ root' \in Tasks \cup {NoTask}
  BY <1>1, <1>4 DEF Types
<1> HIDE DEF Mid
<1>8. "pending" \in Mid /\ "delivered" \in Mid
  BY DEF Mid
<1>9. WaitersAtLeast'
  BY <1>3, <1>4, <1>5, QuietCounts
<1> QED
  BY <1>1, <1>2, <1>3, <1>4, <1>5, <1>6, <1>7, <1>8, <1>9, NothingMoves, StayFine

\* Only subtasks change.
LEMMA SubOnly ==
  ASSUME Core, UNCHANGED <<task, gate, parked, stack, root>>, sub' \in [Tasks -> SubRecord],
         NEW t \in Tasks, \A d \in Tasks : GoesOn(d) => SubStep(d)
  PROVE  Fine
<1>1. Types /\ Names /\ task' = task /\ gate' = gate /\ parked' = parked /\ stack' = stack
      /\ root' = root
  BY DEF Core
<1>2. Renews(t) /\ task'[t].state = task[t].state
  BY <1>1, TaskStays
<1>3. root' \in Tasks \cup {NoTask}
  BY <1>1 DEF Types
<1>4. /\ gate' \in [Insts -> GateSet] /\ SameGates /\ SameFrames(stack')
      /\ 1 \in DOMAIN stack' => Knows(stack'[1])
  BY <1>1, NothingMoves
<1>5. WaitersAtLeast'
  BY <1>1, <1>2, QuietCounts
<1> QED
  BY <1>1, <1>2, <1>3, <1>4, <1>5, StayFine

\* waitable-set.poll
LEMMA PollFine ==
  ASSUME Core, NEW t, Poll(t)
  PROVE  Fine
<1>1. PICK c \in Tasks : sub[c].event /\ sub' = Deliver(sub, c)
  BY DEF Poll, TakeFromSet
<1>2. sub \in [Tasks -> SubRecord]
  BY DEF Core, Types
<1>3. \A d \in Tasks : GoesOn(d) => SubStep(d)
  BY <1>1, <1>2, DeliverFacts, TakeTells
<1> QED
  BY <1>1, <1>2, <1>3, DeliverFacts, SubOnly DEF Poll

\* waitable.join
LEMMA JoinFine ==
  ASSUME Core, NEW t, NEW c \in Tasks, Join(t, c)
  PROVE  Fine
<1>1. sub[c].held /\ sub' = Joins(c) /\ sub \in [Tasks -> SubRecord]
  BY DEF Join, HeldBy, Joins, Core, Types
<1>2. task[c].caller # NoTask
  BY <1>1, HasCaller
<1>3. LikeBut(sub', sub, c)
  BY <1>1, FlagFacts
<1>4. \A d \in Tasks : GoesOn(d) => SubStep(d)
  BY <1>2, <1>3, FlagKeeps
<1> QED
  BY <1>3, <1>4, SubOnly DEF Join, LikeBut

\* subtask.drop
LEMMA SubtaskDropFine ==
  ASSUME Core, NEW t, NEW c \in Tasks, SubtaskDrop(t, c)
  PROVE  Fine
<1>1. /\ sub[c].delivered /\ sub \in [Tasks -> SubRecord] /\ NoSubtask \in SubRecord
      /\ sub' = [sub EXCEPT ![c] = NoSubtask]
  BY DEF SubtaskDrop, Core, Types, NoSubtask, SubRecord
<1>2. Resolved(c)
  BY <1>1 DEF Core, Follows
<1>3. sub' \in [Tasks -> SubRecord] /\ sub'[c] = NoSubtask /\ \A d \in Tasks \ {c} : sub'[d] = sub[d]
  BY <1>1
<1>4. \A d \in Tasks : GoesOn(d) => SubStep(d)
  BY <1>2, <1>3, Untouched DEF SubStep, Forgotten
<1> QED
  BY <1>3, <1>4, SubOnly DEF SubtaskDrop

\* Telling the caller what is resolved.
LEMMA ToldFine ==
  ASSUME Core, NEW c \in Tasks, Resolved(c), NEW sb \in [Tasks -> SubRecord],
         \/ sb = Deliver(sub, c)
         \/ sb = Sleeps(Deliver(sub, c), c, FALSE),
         sub' = sb
  PROVE  \A d \in Tasks : GoesOn(d) => SubStep(d)
<1>1. sub \in [Tasks -> SubRecord]
  BY DEF Core, Types
<1> DEFINE h == Deliver(sub, c)
<1>2. /\ h \in [Tasks -> SubRecord]
      /\ \A d \in Tasks \ {c} : h[d] = sub[d]
      /\ h[c].state = sub[c].state /\ h[c].event = FALSE /\ h[c].delivered = TRUE
  BY <1>1, DeliverFacts
<1> HIDE DEF h
<1>3. CASE sb = h
  BY <1>2, <1>3, Untouched DEF SubStep, Told
<1>4. CASE sb = Sleeps(h, c, FALSE)
  <2>1. LikeBut(sb, h, c)
    BY <1>2, <1>4, FlagFacts
  <2> QED
    BY <1>2, <2>1, Untouched DEF SubStep, Told, LikeBut
<1> QED
  BY <1>3, <1>4 DEF h

\* subtask.cancel of a call that has resolved
LEMMA CancelResolvedFine ==
  ASSUME Core, NEW t, NEW c \in Tasks, CancelResolved(t, c)
  PROVE  Fine
<1>1. Resolved(c) /\ sub' = Deliver(sub, c) /\ sub \in [Tasks -> SubRecord]
  BY DEF CancelResolved, Core, Types
<1>2. sub' \in [Tasks -> SubRecord]
  BY <1>1, DeliverFacts
<1>3. \A d \in Tasks : GoesOn(d) => SubStep(d)
  BY <1>1, <1>2, ToldFine
<1> QED
  BY <1>2, <1>3, SubOnly DEF CancelResolved

\* The Call returns.
LEMMA CallReturnsFine ==
  ASSUME Core, CallReturns
  PROVE  Fine
<1>1. /\ Types /\ Names /\ task' = task /\ gate' = gate /\ parked' = parked /\ stack' = stack
      /\ sub' = sub /\ root' = NoTask
  BY DEF Core, CallReturns
<1>2. PICK t \in Tasks : t = root
  BY <1>1 DEF Types, CallReturns
<1>3. Renews(t) /\ task'[t].state = task[t].state
  BY <1>1, TaskStays
<1>4. \A d \in Tasks : GoesOn(d) => SubStep(d)
  BY <1>1, Untouched
<1>5. sub' \in [Tasks -> SubRecord] /\ root' \in Tasks \cup {NoTask}
  BY <1>1 DEF Types
<1>6. /\ gate' \in [Insts -> GateSet] /\ SameGates /\ SameFrames(stack')
      /\ 1 \in DOMAIN stack' => Knows(stack'[1])
  BY <1>1, NothingMoves
<1>7. WaitersAtLeast'
  BY <1>1, <1>3, QuietCounts
<1> QED
  BY <1>1, <1>3, <1>4, <1>5, <1>6, <1>7, StayFine

\* waitable-set.wait that drives
LEMMA WaitDrivesFine ==
  ASSUME Core, NEW t, NEW b \in BOOLEAN, WaitDrives(t, b)
  PROVE  Fine
<1>1. /\ Types /\ Names /\ task' = task /\ parked' = parked /\ sub' = sub /\ root' = root
      /\ gate' = Waits(gate, I(t)) /\ stack # <<>> /\ Top.task = t /\ Top.mode = "run"
      /\ stack' = [stack EXCEPT ![1].mode = "drive", ![1].flag = b]
  BY DEF Core, WaitDrives, MayWait, Runs
<1>2. t \in Tasks /\ I(t) \in Insts /\ Top \in Frame
  BY <1>1, Runner
<1>3. Top.on \in Tasks \cup {NoTask}
  BY <1>2 DEF Frame
<1>4. SameFrames(stack') /\ Knows(stack'[1]) /\ stack'[1].mode = "drive"
  <2>1. Marks(stack', "drive", Top.on, b)
    BY <1>1 DEF Marks
  <2>2. SameFrames(stack') /\ stack'[1].mode = "drive"
    BY <1>1, <1>3, <2>1, TopMarked
  <2> QED
    BY <2>2 DEF Knows
<1>5. gate' \in [Insts -> GateSet] /\ SameGates
  BY <1>1, <1>2, WaitsTurns, GatesStay DEF Types
<1>6. Renews(t) /\ task'[t].state = task[t].state
  BY <1>1, <1>2, TaskStays
<1>7. sub' \in [Tasks -> SubRecord] /\ root' \in Tasks \cup {NoTask}
  BY <1>1 DEF Types
<1>8. \A c \in Tasks : GoesOn(c) => SubStep(c)
  BY <1>1, Untouched
<1>9. WaitersAtLeast'
  <2> DEFINE n == 1
  <2>1. Counted(gate, gate', I(t), 0, n)
    BY <1>1, <1>2, WaitsTurns DEF Types
  <2>2. n = 1 /\ Top.mode # "drive"
    BY <1>1
  <2> HIDE DEF n
  <2> QED
    BY <1>1, <1>4, <1>6, <2>1, <2>2, DriveCounts
<1> QED
  BY <1>1, <1>2, <1>4, <1>5, <1>6, <1>7, <1>8, <1>9, StayFine

\* backpressure.inc and .dec within range
LEMMA CountedFine ==
  ASSUME Core, NEW t \in Tasks, I(t) \in Insts, NEW n \in 0..(BackpressureLimit - 1),
         gate' = [gate EXCEPT ![I(t)].backpressure = n], UNCHANGED <<task, sub, parked, stack, root>>
  PROVE  Fine
<1>1. Types /\ Names /\ task' = task /\ sub' = sub /\ parked' = parked /\ stack' = stack /\ root' = root
  BY DEF Core
<1>2. gate \in [Insts -> GateSet] /\ gate[I(t)] \in GateSet
  BY <1>1 DEF Types
<1>3. /\ gate'[I(t)] = [gate[I(t)] EXCEPT !.backpressure = n]
      /\ \A j \in Insts \ {I(t)} : gate'[j] = gate[j]
      /\ gate' = [j \in Insts |-> gate'[j]]
  BY <1>2
<1>4. n \in -1..BackpressureLimit
  BY TasksAssumption
<1>5. gate'[I(t)] \in GateSet
  BY <1>2, <1>3, <1>4 DEF GateSet
<1>6. gate' \in [Insts -> GateSet]
  BY <1>2, <1>3, <1>5
<1>7. /\ gate'[I(t)].owner = gate[I(t)].owner /\ gate'[I(t)].mayEnter = gate[I(t)].mayEnter
      /\ gate'[I(t)].waiters = gate[I(t)].waiters /\ gate'[I(t)].poisoned = gate[I(t)].poisoned
  BY <1>2, <1>3 DEF GateSet
<1>8. SameGates
  BY <1>3, <1>7 DEF SameGates
<1>9. Renews(t) /\ task'[t].state = task[t].state
  BY <1>1, TaskStays
<1>10. sub' \in [Tasks -> SubRecord] /\ root' \in Tasks \cup {NoTask}
  BY <1>1 DEF Types
<1>11. SameFrames(stack')
  BY <1>1, StackUnchanged
<1>12. 1 \in DOMAIN stack' => Knows(stack'[1])
  BY <1>1 DEF Names
<1>13. \A d \in Tasks : GoesOn(d) => SubStep(d)
  BY <1>1, Untouched
<1>14. WaitersAtLeast'
  <2>1. SameCounts
    BY <1>3, <1>7 DEF SameCounts
  <2>2. SameDrives(stack')
    BY <1>1, <1>11 DEF SameDrives
  <2> QED
    BY <1>1, <1>9, <2>1, <2>2, StayCounts
<1> QED
  BY <1>1, <1>6, <1>8, <1>9, <1>10, <1>11, <1>12, <1>13, <1>14, StayFine

-----------------------------------------------------------------------------
(* The baton changes hands.                                                *)

\* No task becomes another; the state goes on.
Continue ==
  /\ task' \in [Tasks -> TaskRecord]
  /\ \A u \in Tasks : /\ task'[u].inst = task[u].inst /\ task'[u].shape = task[u].shape
                      /\ task'[u].caller = task[u].caller
                      /\ \/ task'[u].state = task[u].state
                         \/ task[u].state \in Mid /\ task'[u].state \in Mid

\* The running task gives the baton back: it is done, it parks without
\* frames, or it parks with them and keeps the exclusive.
LEMMA PopFine ==
  ASSUME Core, NEW t, stack # <<>>, Top.task = t, Top.mode # "drive", stack' = Tail(stack), Continue,
         \A u \in Tasks \ {t} : task'[u].park = task[u].park /\ task'[u].awaits = task[u].awaits,
         NEW o, NEW a, NEW b, Turned(gate, gate', I(t), o, TRUE, a, b),
         \/ parked' = parked /\ task'[t].park = task[t].park /\ b = 0
         \/ /\ parked' = Append(parked, t) /\ task'[t].park \in {"wait", "yield", "block"}
            /\ task'[t].park # "block" => task[t].shape # "stackful"
            /\ (Sitting(task'[t]) => b = 1) /\ (~Sitting(task'[t]) => b = 0),
         o = gate[I(t)].owner \/ parked' = parked \/ task'[t].park # "block",
         sub' \in [Tasks -> SubRecord], root' \in Tasks \cup {NoTask},
         \A c \in Tasks : GoesOn(c) => SubStep(c)
  PROVE  Fine
<1>1. Types /\ Located /\ Names
  BY DEF Core
<1>2. /\ t \in Tasks /\ t \in OnStack /\ ~IsParked(t) /\ I(t) \in Insts
      /\ task[t].state \notin {"fresh", "initial"}
  BY Runner
<1>3. OnStack' = OnStack \ {t} /\ Distinct' /\ stack' \in Seq(Frame)
  BY <1>1, StackPop DEF Located, Placed
<1>4. /\ parked' \in Seq(Tasks) /\ Once(parked')
      /\ \A u \in Tasks \ {t} : IsParked(u)' <=> IsParked(u)
      /\ parked' = parked => ~IsParked(t)'
  <2>1. CASE parked' = parked
    BY <1>1, <1>2, <2>1 DEF Types, Located, Placed, IsParked
  <2>2. CASE parked' = Append(parked, t) /\ parked' # parked
    BY <1>1, <1>2, <2>2, Parks DEF Located, Placed
  <2> QED
    BY <2>1, <2>2
<1>5. gate' \in [Insts -> GateSet] /\ gate'[I(t)].owner = o /\ gate'[I(t)].mayEnter = TRUE
      /\ \A j \in Insts \ {I(t)} : gate'[j] = gate[j]
  BY DEF Turned
<1>6. Types'
  BY <1>1, <1>3, <1>4, <1>5 DEF Types, Continue
<1>7. Exclusivity' /\ EntryIsRefusedWhileRunning'
  <2>1. gate[I(t)].owner = t
    BY <1>1, <1>2 DEF Located, Exclusivity, HasFrames
  <2>2. Others(t)
    BY <1>4 DEF Others, Continue
  <2>3. gate'[I(t)].owner = t \/ (IsParked(t)' => task'[t].park # "block")
    BY <1>4, <1>5, <2>1
  <2>4. task'[t].inst = I(t)
    BY <1>2 DEF Continue, I
  <2> QED
    BY <1>1, <1>2, <1>3, <1>5, <2>2, <2>3, <2>4, GivesBaton
<1>8. Placed'
  BY <1>1, <1>3, <1>4 DEF Located, Placed
<1>9. NoneFresh
  BY DEF NoneFresh, Continue, Mid
<1>10. ASSUME NEW u \in Tasks PROVE Life(u)'
  <2>1. Life(u)
    BY <1>1 DEF Located
  <2>2. task[u] \in TaskRecord /\ (task[u].caller # NoTask => task[u].caller \in Tasks)
    BY <1>1 DEF Types, TaskRecord
  <2>3. CASE u = t
    <3>1. task'[t].state \notin {"fresh", "initial"}
      BY <1>2 DEF Continue, Mid
    <3>2. task'[t].inst = task[t].inst /\ task'[t].caller = task[t].caller
          /\ task'[t].shape = task[t].shape
      BY <1>2 DEF Continue
    <3>3. IsParked(t)' => task'[t].park # "entry"
      BY <1>4
    <3> QED
      BY <1>1, <1>2, <1>9, <2>3, <3>1, <3>2, <3>3, LifeGoesOn
  <2>4. CASE u # t
    <3>1. /\ task'[u].inst = task[u].inst /\ task'[u].shape = task[u].shape
          /\ task'[u].caller = task[u].caller /\ task'[u].park = task[u].park
          /\ u \in OnStack' <=> u \in OnStack
          /\ IsParked(u)' <=> IsParked(u)
          /\ \/ task'[u].state = task[u].state
             \/ task[u].state \in Mid /\ task'[u].state \in Mid
      BY <1>3, <1>4, <2>4 DEF Continue
    <3> QED
      BY <1>9, <2>1, <2>2, <3>1 DEF Life, NoneFresh, Mid
  <2> QED
    BY <2>3, <2>4
<1>11. Names'
  <2>1. CallersStay
    BY DEF CallersStay, Continue
  <2>2. \A k \in DOMAIN stack' : Knows(stack'[k])
    BY <1>1, PopFacts DEF Names
  <2> QED
    BY <2>1, <2>2, NamesLater
<1>12. \A c \in Tasks : GoesOn(c)
  BY DEF Continue, GoesOn
<1>13. WaitersAtLeast'
  <2>1. (Sits(t)' => b = 1) /\ (~Sits(t)' => b = 0)
    <3>1. CASE parked' = parked /\ task'[t].park = task[t].park /\ b = 0
      BY <1>4, <3>1 DEF Sits
    <3>2. CASE parked' = Append(parked, t) /\ (Sitting(task'[t]) => b = 1)
               /\ (~Sitting(task'[t]) => b = 0)
      <4>1. IsParked(t)'
        BY <1>1, <1>2, <3>2, Parks DEF Located, Placed
      <4> QED
        BY <3>2, <4>1 DEF Sits
    <3> QED
      BY <3>1, <3>2
  <2>2. \A u \in Tasks : task'[u].inst = task[u].inst
    BY DEF Continue
  <2> QED
    BY <1>4, <2>1, <2>2, PopCounts
<1> QED
  BY <1>6, <1>7, <1>8, <1>10, <1>11, <1>12, <1>13 DEF Fine, Located

\* c gets the baton.
LEMMA PushFine ==
  ASSUME Core, NEW c \in Tasks, NEW f \in Frame, f.task = c, f.mode \in {"run", "empty"},
         NEW s, SameDrives(s), stack' = <<f>> \o s,
         1 \in DOMAIN s => Knows(s[1]),
         c \notin OnStack, ~IsParked(c)', parked' \in Seq(Tasks), Once(parked'),
         \A u \in Tasks \ {c} : IsParked(u)' <=> IsParked(u),
         task' \in [Tasks -> TaskRecord], \A u \in Tasks \ {c} : task'[u] = task[u],
         NEW i \in Insts, task'[c].inst = i, NoneFresh, Life(c)',
         task[c].caller # NoTask => task'[c].caller # NoTask,
         gate[i].owner \in {NoTask, c},
         NEW a, NEW b, Turned(gate, gate', i, c, FALSE, a, b),
         Sits(c) => b = -1 /\ I(c) = i, ~Sits(c) => b = 0,
         sub' \in [Tasks -> SubRecord], root' \in Tasks \cup {NoTask},
         \A d \in Tasks : SubStep(d)
  PROVE  Fine
<1>1. Types /\ Located /\ Names /\ SameFrames(s)
  BY DEF Core, SameDrives
<1>2. OnStack' = OnStack \cup {c} /\ Distinct' /\ stack' \in Seq(Frame)
  BY <1>1, StackPush DEF Located, Placed
<1>3. gate' \in [Insts -> GateSet] /\ gate'[i].owner = c /\ gate'[i].mayEnter = FALSE
      /\ \A j \in Insts \ {i} : gate'[j] = gate[j]
  BY DEF Turned
<1>4. Types'
  BY <1>1, <1>2, <1>3 DEF Types
<1>5. Others(c)
  BY DEF Others
<1>6. Exclusivity' /\ EntryIsRefusedWhileRunning'
  BY <1>1, <1>2, <1>3, <1>5, GetsBaton
<1>7. Placed'
  BY <1>1, <1>2 DEF Located, Placed
<1>8. ASSUME NEW u \in Tasks PROVE Life(u)'
  <2>1. CASE u # c
    BY <1>1, <1>2, <2>1, LifeStays
  <2> QED
    BY <2>1
<1>9. Names'
  <2>1. s \in Seq(Frame) /\ DOMAIN s = DOMAIN stack /\ \A k \in DOMAIN stack \ {1} : s[k] = stack[k]
    BY <1>1 DEF SameFrames
  <2>2. \A k \in DOMAIN s : Knows(s[k])
    BY <1>1, <2>1 DEF Names
  <2>3. /\ stack'[1] = f
        /\ \A k \in DOMAIN stack' \ {1} : k - 1 \in DOMAIN s /\ stack'[k] = s[k - 1]
    BY <1>1, <2>1, PushFacts
  <2>4. \A k \in DOMAIN stack' : Knows(stack'[k])
    <3>1. Knows(f)
      BY DEF Knows
    <3> QED
      BY <2>2, <2>3, <3>1
  <2>5. CallersStay
    <3>1. task[c].caller # NoTask => task'[c].caller # NoTask
      OBVIOUS
    <3> QED
      BY <3>1 DEF CallersStay
  <2> QED
    BY <2>4, <2>5, NamesLater
<1>10. WaitersAtLeast'
  <2>1. Besides(c) /\ f.mode # "drive"
    BY DEF Besides
  <2> QED
    BY <2>1, PushCounts
<1> QED
  BY <1>4, <1>6, <1>7, <1>8, <1>9, <1>10 DEF Fine, Located

\* The builtin returns to the guest.
LEMMA RunsAgain ==
  ASSUME Types, stack # <<>>, NEW t, Top.task = t, stack' = [stack EXCEPT ![1] = Running(t, Top.via)]
  PROVE  /\ SameFrames(stack') /\ 1 \in DOMAIN stack' /\ stack'[1] = Running(t, Top.via)
         /\ stack'[1].mode = "run" /\ Knows(stack'[1]) /\ stack'[1].via = Top.via
<1> DEFINE f == Running(t, Top.via)
<1>1. t \in Tasks /\ Top \in Frame /\ Top.via \in {"start", "resume", "cancel"}
  BY TopIs DEF Frame
<1> HIDE DEF f
<1>2. f \in Frame /\ f.task = Top.task /\ f.via = Top.via /\ f.mode = "run"
  <2>1. \A v \in {"start", "resume", "cancel"} :
          /\ Running(t, v) \in Frame /\ Running(t, v).task = t
          /\ Running(t, v).via = v /\ Running(t, v).mode = "run"
    BY <1>1, RunningFacts
  <2> QED
    BY <1>1, <2>1 DEF f
<1>3. /\ SameFrames([stack EXCEPT ![1] = f]) /\ [stack EXCEPT ![1] = f][1] = f
      /\ 1 \in DOMAIN stack
  BY <1>2, TopChanges
<1>4. stack' = [stack EXCEPT ![1] = f]
  BY DEF f
<1>5. SameFrames(stack') /\ 1 \in DOMAIN stack' /\ stack'[1] = f
  BY <1>3, <1>4 DEF SameFrames
<1> QED
  BY <1>2, <1>5 DEF f, Knows

\* A nested drive for the set returns.
LEMMA WaitReturnsFine ==
  ASSUME Core, NEW t, WaitReturns(t)
  PROVE  Fine
<1>1. /\ Types /\ Names /\ stack # <<>> /\ Top.task = t /\ Top.mode = "drive" /\ parked' = parked /\ root' = root
      /\ gate' = Unwaits(gate, I(t)) /\ stack' = [stack EXCEPT ![1] = Running(t, Top.via)]
  BY DEF Core, WaitReturns
<1>2. t \in Tasks /\ I(t) \in Insts /\ sub \in [Tasks -> SubRecord]
  BY <1>1, Runner DEF Types
<1>3. SameFrames(stack') /\ Knows(stack'[1])
  BY <1>1, RunsAgain
<1>4. gate' \in [Insts -> GateSet] /\ SameGates
  BY <1>1, <1>2, UnwaitsTurns, GatesStay DEF Types
<1>5. root' \in Tasks \cup {NoTask}
  BY <1>1 DEF Types
<1>a. Renews(t) => WaitersAtLeast'
  <2> DEFINE n == -1
  <2>1. Counted(gate, gate', I(t), 0, n)
    BY <1>1, <1>2, UnwaitsTurns DEF Types
  <2>2. n = -1 /\ stack'[1].mode # "drive"
    BY <1>1, RunsAgain
  <2> HIDE DEF n
  <2> QED
    BY <1>1, <1>3, <2>1, <2>2, DriveCounts
<1>6. CASE Top.flag /\ task[t].state = "pending"
  <2>1. task' = WithState(task, t, "delivered") /\ sub' = sub
    BY <1>6 DEF WaitReturns, WithState
  <2>2. Renews(t) /\ task'[t].state = "delivered"
    BY <1>1, <1>2, <1>6, <2>1, StateChanges DEF Renews, Types
  <2>3. \A c \in Tasks : GoesOn(c) => SubStep(c)
    BY <2>1, Untouched
  <2>4. "pending" \in Mid /\ "delivered" \in Mid
    BY DEF Mid
  <2> HIDE DEF Mid
  <2> QED
    BY <1>1, <1>2, <1>3, <1>4, <1>5, <1>6, <1>a, <2>1, <2>2, <2>3, <2>4, StayFine
<1>7. CASE ~(Top.flag /\ task[t].state = "pending")
  <2>1. task' = task /\ TakeFromSet(I(t), sub)
    BY <1>7 DEF WaitReturns
  <2>2. PICK c \in Tasks : sub[c].event /\ sub' = Deliver(sub, c)
    BY <2>1 DEF TakeFromSet
  <2>3. \A d \in Tasks : GoesOn(d) => SubStep(d)
    BY <2>2, <1>2, DeliverFacts, TakeTells
  <2>4. Renews(t) /\ task'[t].state = task[t].state
    BY <1>1, <1>2, <2>1, TaskStays
  <2>5. sub' \in [Tasks -> SubRecord]
    BY <2>2, <1>2, DeliverFacts
  <2> QED
    BY <1>1, <1>2, <1>3, <1>4, <1>5, <1>a, <2>3, <2>4, <2>5, StayFine
<1> QED
  BY <1>6, <1>7

\* The running frame is all that changes of the tasks.
LEMMA SubAndTop ==
  ASSUME Core, UNCHANGED <<task, gate, parked, root>>, sub' \in [Tasks -> SubRecord],
         NEW t \in Tasks, \A d \in Tasks : GoesOn(d) => SubStep(d),
         SameDrives(stack'),
         1 \in DOMAIN stack' => Knows(stack'[1])
  PROVE  Fine
<1>1. Types /\ task' = task /\ gate' = gate /\ parked' = parked /\ root' = root
  BY DEF Core
<1>2. Renews(t) /\ task'[t].state = task[t].state
  BY <1>1, TaskStays
<1>3. root' \in Tasks \cup {NoTask} /\ gate' \in [Insts -> GateSet] /\ SameGates
  BY <1>1 DEF Types, SameGates
<1>4. SameFrames(stack') /\ WaitersAtLeast'
  BY <1>1, <1>2, StayCounts DEF SameDrives, SameCounts
<1> QED
  BY <1>1, <1>2, <1>3, <1>4, StayFine

\* A nested drive of a synchronous cancel returns.
LEMMA CancelReturnsFine ==
  ASSUME Core, NEW t, CancelReturns(t)
  PROVE  Fine
<1>1. /\ Types /\ Names /\ stack # <<>> /\ Top.task = t /\ Top.mode = "sync" /\ DriveOver
      /\ stack' = [stack EXCEPT ![1] = Running(t, Top.via)]
      /\ UNCHANGED <<task, gate, parked, root>>
      /\ sub' = Sleeps(Deliver(sub, Top.on), Top.on, FALSE)
  BY DEF Core, CancelReturns, Sleeps
<1>2. t \in Tasks /\ 1 \in DOMAIN stack /\ Top = stack[1] /\ sub \in [Tasks -> SubRecord]
  BY <1>1, Runner DEF Types
<1>3. Top.on \in Tasks
  BY <1>1, <1>2 DEF Names, Knows
<1>4. Resolved(Top.on)
  <2>1. sub[Top.on].event
    BY <1>1 DEF DriveOver
  <2> QED
    BY <1>3, <2>1 DEF Core, Follows
<1>5. sub' \in [Tasks -> SubRecord]
  BY <1>1, <1>2, <1>3, DeliverFacts, FlagFacts DEF LikeBut
<1>6. \A d \in Tasks : GoesOn(d) => SubStep(d)
  BY <1>1, <1>3, <1>4, <1>5, ToldFine
<1>7. SameDrives(stack') /\ Knows(stack'[1])
  BY <1>1, RunsAgain, TopSameDrives
<1> QED
  BY <1>1, <1>2, <1>5, <1>6, <1>7, SubAndTop

\* The callee looks parked and its goroutine is gone.
LEMMA StaleStops ==
  ASSUME Core, NEW t, Runs(t), NEW m \in {"hung", "panic"},
         Marks(stack', m, Top.on, Top.flag), UNCHANGED <<task, gate, sub, parked, root>>
  PROVE  Fine
<1>1. Types /\ stack # <<>> /\ Top.task = t /\ Top.mode = "run"
  BY DEF Core, Runs
<1>2. t \in Tasks /\ Top \in Frame
  BY <1>1, Runner
<1>3. Top.on \in Tasks \cup {NoTask} /\ Top.flag \in BOOLEAN
  BY <1>2 DEF Frame
<1>4. SameFrames(stack') /\ stack'[1].mode = m
  BY <1>1, <1>3, TopMarked
<1>5. sub' \in [Tasks -> SubRecord] /\ \A d \in Tasks : GoesOn(d) => SubStep(d)
  BY <1>1, Untouched DEF Types
<1>6. SameDrives(stack')
  BY <1>1, <1>4, TopSameDrives
<1> QED
  BY <1>1, <1>2, <1>4, <1>5, <1>6, SubAndTop DEF Knows

\* What a task that gives the baton back leaves of the subtasks.
Popped(h, sb, t) ==
  h = IF Top.via = "start" /\ task[t].caller # NoTask
      THEN [sb EXCEPT ![t] = SeenByCaller(t)[t]] ELSE sb

\* Its caller is told, or has the subtask from now on.
LEMMA PoppedFine ==
  ASSUME Core, NEW t \in Tasks, NEW sb \in [Tasks -> SubRecord],
         NEW c \in Tasks, LikeBut(sb, sub, c), task[c].caller # NoTask \/ sb = sub,
         Popped(sub', sb, t)
  PROVE  sub' \in [Tasks -> SubRecord] /\ \A d \in Tasks : GoesOn(d) => SubStep(d)
<1>1. /\ \A d \in Tasks : GoesOn(d) => Keeps(d) \/ sub'[d] # sb[d]
  BY DEF LikeBut, Keeps
<1>2. /\ SeenByCaller(t) \in [Tasks -> SubRecord]
      /\ Resolved(t) => SeenByCaller(t)[t] = NoSubtask
      /\ ~Resolved(t) =>
              /\ SeenByCaller(t)[t].held = TRUE
              /\ SeenByCaller(t)[t].state = sub[t].state
              /\ SeenByCaller(t)[t].event = sub[t].event
              /\ SeenByCaller(t)[t].delivered = sub[t].delivered
  BY SeenFacts DEF Core
<1>3. CASE Top.via = "start" /\ task[t].caller # NoTask
  <2>1. /\ sub' \in [Tasks -> SubRecord] /\ sub'[t] = SeenByCaller(t)[t]
        /\ \A d \in Tasks \ {t} : sub'[d] = sb[d]
    BY <1>2, <1>3 DEF Popped
  <2>2. GoesOn(t) => SubStep(t)
    BY <1>2, <1>3, <2>1 DEF SubStep, Keeps, Forgotten
  <2> QED
    BY <1>1, <2>1, <2>2 DEF SubStep
<1>4. CASE ~(Top.via = "start" /\ task[t].caller # NoTask)
  BY <1>1, <1>4 DEF SubStep, Popped
<1> QED
  BY <1>3, <1>4

\* What Pop does is that.
LEMMA PopIsPopped ==
  ASSUME Core, NEW t \in Tasks, Top.task = t, Pop
  PROVE  Popped(sub', sub, t) /\ LikeBut(sub, sub, t) /\ sub \in [Tasks -> SubRecord]
<1>1. sub \in [Tasks -> SubRecord] /\ SeenByCaller(t) \in [Tasks -> SubRecord]
      /\ \A d \in Tasks \ {t} : SeenByCaller(t)[d] = sub[d]
  BY SeenFacts DEF Core, Types
<1>2. SeenByCaller(t) = [sub EXCEPT ![t] = SeenByCaller(t)[t]]
  BY <1>1
<1>3. Popped(sub', sub, t)
  BY <1>2 DEF Pop, Popped
<1> QED
  BY <1>1, <1>3 DEF LikeBut

\* A task parks.
WithPark(h, t, p, on, b) ==
  [h EXCEPT ![t].park = p, ![t].awaits = on, ![t].cancellable = b]

\* That is all that changes.
LEMMA ParkChanges ==
  ASSUME NEW h \in [Tasks -> TaskRecord], NEW t \in Tasks,
         NEW p \in {"none", "entry", "wait", "yield", "block"},
         NEW on \in Tasks \cup {"set"}, NEW b \in BOOLEAN,
         NEW l, l = WithPark(h, t, p, on, b)
  PROVE  /\ l \in [Tasks -> TaskRecord] /\ \A u \in Tasks \ {t} : l[u] = h[u]
         /\ l[t].park = p /\ l[t].awaits = on /\ l[t].cancellable = b
         /\ l[t].inst = h[t].inst /\ l[t].shape = h[t].shape /\ l[t].caller = h[t].caller
         /\ l[t].state = h[t].state /\ l[t].done = h[t].done
<1>1. /\ l[t] = [[[h[t] EXCEPT !.park = p] EXCEPT !.awaits = on] EXCEPT !.cancellable = b]
      /\ \A u \in Tasks \ {t} : l[u] = h[u]
      /\ l = [u \in Tasks |-> l[u]]
  BY DEF WithPark
<1>2. h[t] \in TaskRecord
  OBVIOUS
<1>3. [h[t] EXCEPT !.park = p] \in TaskRecord
  BY <1>2 DEF TaskRecord
<1> DEFINE r == [h[t] EXCEPT !.park = p]
<1>4. /\ r.park = p /\ r.awaits = h[t].awaits /\ r.cancellable = h[t].cancellable
      /\ r.inst = h[t].inst /\ r.shape = h[t].shape /\ r.caller = h[t].caller
      /\ r.state = h[t].state /\ r.done = h[t].done
  BY <1>2 DEF TaskRecord
<1> HIDE DEF r
<1> DEFINE q == [r EXCEPT !.awaits = on]
<1>5. /\ q \in TaskRecord
      /\ q.park = r.park /\ q.awaits = on /\ q.cancellable = r.cancellable
      /\ q.inst = r.inst /\ q.shape = r.shape /\ q.caller = r.caller
      /\ q.state = r.state /\ q.done = r.done
  BY <1>3 DEF TaskRecord, r
<1> HIDE DEF q
<1>6. l[t] = [q EXCEPT !.cancellable = b]
  BY <1>1 DEF q, r
<1>7. /\ l[t] \in TaskRecord
      /\ l[t].park = q.park /\ l[t].awaits = q.awaits /\ l[t].cancellable = b
      /\ l[t].inst = q.inst /\ l[t].shape = q.shape /\ l[t].caller = q.caller
      /\ l[t].state = q.state /\ l[t].done = q.done
  BY <1>5, <1>6 DEF TaskRecord
<1> QED
  BY <1>1, <1>4, <1>5, <1>7

\* Likeness is transitive.
LEMMA LikeTransitive ==
  ASSUME NEW c \in Tasks, NEW x, NEW y, NEW z, LikeBut(x, y, c), LikeBut(y, z, c)
  PROVE  LikeBut(x, z, c)
BY DEF LikeBut

\* The callee may have been asked now, or before.
IsPending(states, c) ==
  \/ states = task
  \/ task[c].state \in Mid /\ states = WithState(task, c, "pending")

\* The callee has not resolved: the builtin returns BLOCKED, drives or parks.
LEMMA AwaitFine ==
  ASSUME Core, NEW t, stack # <<>>, Top.task = t, Top.mode # "drive", NEW c \in Tasks, NEW async \in BOOLEAN,
         NEW sb \in [Tasks -> SubRecord], LikeBut(sb, sub, c), task[c].caller # NoTask,
         NEW states, Blocking(t, c, async, states), AwaitCancel(t, c, async, sb), root' = root,
         IsPending(states, c)
  PROVE  Fine
<1>1. Types /\ Names
  BY DEF Core
<1>2. t \in Tasks /\ I(t) \in Insts /\ Top \in Frame
  BY Runner
<1>3. /\ states \in [Tasks -> TaskRecord]
      /\ \A u \in Tasks \ {c} : states[u] = task[u]
      /\ states[c].inst = task[c].inst /\ states[c].shape = task[c].shape
      /\ states[c].caller = task[c].caller /\ states[c].park = task[c].park
      /\ states[c].awaits = task[c].awaits
      /\ states = task \/ (task[c].state \in Mid /\ states[c].state = "pending")
  <2>1. CASE states = task
    BY <1>1, <2>1 DEF Types
  <2>2. CASE states = WithState(task, c, "pending") /\ task[c].state \in Mid
    <3>1. task \in [Tasks -> TaskRecord] /\ states = WithState(task, c, "pending")
      BY <1>1, <2>2 DEF Types
    <3>2. /\ states \in [Tasks -> TaskRecord] /\ \A u \in Tasks \ {c} : states[u] = task[u]
          /\ states[c].inst = task[c].inst /\ states[c].shape = task[c].shape
          /\ states[c].caller = task[c].caller /\ states[c].park = task[c].park
          /\ states[c].awaits = task[c].awaits /\ states[c].state = "pending"
      BY <3>1, StateChanges
    <3> QED
      BY <2>2, <3>2
  <2> QED
    BY <2>1, <2>2 DEF IsPending
<1>4. root' \in Tasks \cup {NoTask}
  BY <1>1 DEF Types
<1>5. "pending" \in Mid /\ \A x \in Mid : x \notin {"fresh", "initial"}
  BY DEF Mid
<1>6. task' = states => Renews(c) /\ (task'[c].state # task[c].state =>
                                       task[c].state \in Mid /\ task'[c].state \in Mid)
  <2> HIDE DEF Mid
  <2> QED
    BY <1>3, <1>5 DEF Renews
<1>7. Sleeps(sb, c, TRUE) \in [Tasks -> SubRecord] /\ LikeBut(Sleeps(sb, c, TRUE), sub, c)
  <2>1. LikeBut(Sleeps(sb, c, TRUE), sb, c)
    BY FlagFacts
  <2> QED
    BY <2>1, LikeTransitive DEF LikeBut
<1>8. CASE async
  <2>1. /\ task' = states /\ sub' = sb /\ gate' = gate /\ parked' = parked
        /\ stack' = [stack EXCEPT ![1] = Running(t, Top.via)]
    BY <1>8 DEF Blocking, AwaitCancel
  <2>2. SameFrames(stack') /\ Knows(stack'[1])
    BY <1>1, <2>1, RunsAgain
  <2>3. \A d \in Tasks : GoesOn(d) => SubStep(d)
    BY <2>1, FlagKeeps
  <2>4. gate' \in [Insts -> GateSet] /\ SameGates
    BY <1>1, <2>1 DEF Types, SameGates
  <2>5. SameDrives(stack') /\ SameCounts
    BY <1>1, <2>1, RunsAgain, TopSameDrives DEF SameCounts
  <2>6. WaitersAtLeast'
    BY <1>6, <2>1, <2>5, StayCounts
  <2> QED
    BY <1>4, <1>6, <2>1, <2>2, <2>3, <2>4, <2>6, StayFine
<1>9. CASE ~async /\ task[t].shape = "callback"
  <2>1. /\ task' = states /\ sub' = Sleeps(sb, c, TRUE) /\ gate' = gate /\ parked' = parked
        /\ stack' = [stack EXCEPT ![1] = Syncs(t, Top.via, c)]
    BY <1>9 DEF Blocking, AwaitCancel, Sleeps, Syncs
  <2> DEFINE f == Syncs(t, Top.via, c)
  <2>2. f \in Frame /\ f.task = Top.task /\ f.via = Top.via /\ f.on = c /\ f.mode = "sync"
    <3>1. Top.via \in {"start", "resume", "cancel"}
      BY <1>2 DEF Frame
    <3> QED
      BY <1>2, <3>1, SyncsFacts
  <2> HIDE DEF f
  <2>3. /\ SameFrames([stack EXCEPT ![1] = f]) /\ [stack EXCEPT ![1] = f][1] = f
    BY <1>1, <2>2, TopChanges
  <2>4. stack' = [stack EXCEPT ![1] = f]
    BY <2>1 DEF f
  <2>5. SameFrames(stack') /\ Knows(stack'[1]) /\ stack'[1].mode = "sync"
    BY <2>2, <2>3, <2>4 DEF Knows
  <2>6. \A d \in Tasks : GoesOn(d) => SubStep(d)
    BY <1>7, <2>1, FlagKeeps
  <2>7. gate' \in [Insts -> GateSet] /\ SameGates
    BY <1>1, <2>1 DEF Types, SameGates
  <2>8. SameDrives(stack') /\ SameCounts
    BY <1>1, <2>1, <2>5, TopSameDrives DEF SameCounts
  <2>9. WaitersAtLeast'
    BY <1>6, <2>1, <2>8, StayCounts
  <2> QED
    BY <1>4, <1>6, <1>7, <2>1, <2>5, <2>6, <2>7, <2>9, StayFine DEF Knows
<1>10. CASE ~async /\ task[t].shape # "callback"
  <2>1. /\ task' = WithPark(states, t, "block", c, FALSE)
        /\ gate' = SuspendRun(gate, I(t)) /\ parked' = Append(parked, t) /\ stack' = Tail(stack)
    BY <1>10 DEF Blocking, AwaitCancel, WithPark
  <2>2. /\ task' \in [Tasks -> TaskRecord] /\ \A u \in Tasks \ {t} : task'[u] = states[u]
        /\ task'[t].park = "block" /\ task'[t].awaits = c /\ task'[t].inst = states[t].inst
        /\ task'[t].shape = states[t].shape /\ task'[t].caller = states[t].caller
        /\ task'[t].state = states[t].state
    <3> DEFINE b == FALSE
    <3>1. b \in BOOLEAN /\ "block" \in {"none", "entry", "wait", "yield", "block"}
      OBVIOUS
    <3>2. task' = WithPark(states, t, "block", c, b)
      BY <2>1
    <3> HIDE DEF b
    <3>3. states \in [Tasks -> TaskRecord] /\ t \in Tasks /\ c \in Tasks \cup {"set"}
      BY <1>2, <1>3
    <3> QED
      BY <3>1, <3>2, <3>3, ParkChanges
  <2>3. /\ Continue
        /\ \A u \in Tasks \ {t} : task'[u].park = task[u].park /\ task'[u].awaits = task[u].awaits
    <3> HIDE DEF Mid
    <3> QED
      BY <1>3, <1>5, <2>2 DEF Continue
  <2> DEFINE z == 0
  <2>4. Turned(gate, gate', I(t), gate[I(t)].owner, TRUE, 0, z)
    BY <1>1, <1>2, <2>1, SuspendTurns DEF Types
  <2>5. Popped(sub', Sleeps(sb, c, TRUE), t)
    BY <1>10 DEF AwaitCancel, Popped, Sleeps
  <2>6. sub' \in [Tasks -> SubRecord] /\ \A d \in Tasks : GoesOn(d) => SubStep(d)
    BY <1>2, <1>7, <2>5, PoppedFine
  <2>7. /\ parked' = Append(parked, t) /\ task'[t].park \in {"wait", "yield", "block"}
        /\ task'[t].park # "block" => task[t].shape # "stackful"
        /\ ~Sitting(task'[t]) /\ z = 0
    BY <2>1, <2>2, TasksAssumption DEF Sitting
  <2> HIDE DEF z
  <2> QED
    BY <1>4, <2>1, <2>3, <2>4, <2>6, <2>7, PopFine
<1> QED
  BY <1>8, <1>9, <1>10

\* subtask.cancel of a callee that cannot be resumed now
LEMMA CancelPendsFine ==
  ASSUME Core, NEW t, NEW c \in Tasks, NEW async \in BOOLEAN, CancelPends(t, c, async)
  PROVE  Fine
<1>1. /\ stack # <<>> /\ Top.task = t /\ Top.mode = "run" /\ sub[c].held
      /\ task[c].state = "started"
      /\ Blocking(t, c, async, WithState(task, c, "pending"))
      /\ AwaitCancel(t, c, async, Requested(c)) /\ root' = root
      /\ sub \in [Tasks -> SubRecord]
  BY DEF CancelPends, MayCancel, Runs, HeldBy, WithState, Core, Types
<1>2. task[c].caller # NoTask
  BY <1>1, HasCaller
<1>3. LikeBut(Requested(c), sub, c) /\ Requested(c) \in [Tasks -> SubRecord]
  BY <1>1, FlagFacts DEF LikeBut
<1>4. IsPending(WithState(task, c, "pending"), c)
  BY <1>1 DEF Mid, IsPending
<1> QED
  BY <1>1, <1>2, <1>3, <1>4, AwaitFine

\* The callee that was resumed gave the baton back.
LEMMA CancelContinuesFine ==
  ASSUME Core, NEW t, CancelContinues(t)
  PROVE  Fine
<1>1. /\ Types /\ Names /\ stack # <<>> /\ Top.task = t /\ Top.mode = "cancel" /\ root' = root
      /\ sub \in [Tasks -> SubRecord]
  BY DEF Core, CancelContinues, Types
<1>2. t \in Tasks /\ 1 \in DOMAIN stack /\ Top = stack[1] /\ Top \in Frame
  BY <1>1, Runner
<1>3. Top.on \in Tasks /\ task[Top.on].caller # NoTask /\ Top.flag \in BOOLEAN
  BY <1>1, <1>2 DEF Names, Frame, Knows
<1>4. CASE Resolved(Top.on)
  <2>1. /\ sub' = Deliver(sub, Top.on) /\ stack' = [stack EXCEPT ![1] = Running(t, Top.via)]
        /\ UNCHANGED <<task, gate, parked, root>>
    BY <1>4 DEF CancelContinues
  <2>2. sub' \in [Tasks -> SubRecord]
    BY <1>1, <1>3, <2>1, DeliverFacts
  <2>3. \A d \in Tasks : GoesOn(d) => SubStep(d)
    BY <1>3, <1>4, <2>1, <2>2, ToldFine
  <2>4. SameDrives(stack') /\ Knows(stack'[1])
    BY <1>1, <2>1, RunsAgain, TopSameDrives
  <2> QED
    BY <1>2, <2>1, <2>2, <2>3, <2>4, SubAndTop
<1>5. CASE ~Resolved(Top.on)
  <2>1. Blocking(t, Top.on, Top.flag, task) /\ AwaitCancel(t, Top.on, Top.flag, sub)
    BY <1>5 DEF CancelContinues
  <2>2. LikeBut(sub, sub, Top.on)
    BY <1>1 DEF LikeBut
  <2> QED
    <3> DEFINE c == Top.on
               async == Top.flag
    <3>1. /\ c \in Tasks /\ task[c].caller # NoTask /\ async \in BOOLEAN /\ LikeBut(sub, sub, c)
          /\ Blocking(t, c, async, task) /\ AwaitCancel(t, c, async, sub)
      BY <1>3, <2>1, <2>2
    <3> HIDE DEF c, async
    <3>2. stack # <<>> /\ Top.task = t /\ Top.mode # "drive" /\ root' = root /\ sub \in [Tasks -> SubRecord]
      BY <1>1
    <3>3. IsPending(task, c)
      BY DEF IsPending
    <3> QED
      BY <3>1, <3>2, <3>3, AwaitFine
<1> QED
  BY <1>4, <1>5

-----------------------------------------------------------------------------
(* One field of a task's record at a time.                                 *)
RState(r, x) == [r EXCEPT !.state = x]
RPark(r, x) == [r EXCEPT !.park = x]
RAwaits(r, x) == [r EXCEPT !.awaits = x]
RCancellable(r, x) == [r EXCEPT !.cancellable = x]
RDone(r) == [r EXCEPT !.done = TRUE]

\* The fields that say who the task is.
Who(q, r) == q.inst = r.inst /\ q.shape = r.shape /\ q.caller = r.caller

\* The others stay.
LEMMA RStateFacts ==
  ASSUME NEW r \in TaskRecord,
         NEW x \in {"fresh", "initial", "started", "pending", "delivered", "resolved"}
  PROVE  /\ RState(r, x) \in TaskRecord /\ Who(RState(r, x), r) /\ RState(r, x).state = x
         /\ RState(r, x).park = r.park /\ RState(r, x).awaits = r.awaits
BY DEF TaskRecord, RState, Who

\* The same of the park.
LEMMA RParkFacts ==
  ASSUME NEW r \in TaskRecord, NEW x \in {"none", "entry", "wait", "yield", "block"}
  PROVE  /\ RPark(r, x) \in TaskRecord /\ Who(RPark(r, x), r) /\ RPark(r, x).park = x
         /\ RPark(r, x).state = r.state /\ RPark(r, x).awaits = r.awaits
BY DEF TaskRecord, RPark, Who

\* The same of what it awaits.
LEMMA RAwaitsFacts ==
  ASSUME NEW r \in TaskRecord, NEW x \in Tasks \cup {"set"}
  PROVE  /\ RAwaits(r, x) \in TaskRecord /\ Who(RAwaits(r, x), r) /\ RAwaits(r, x).awaits = x
         /\ RAwaits(r, x).state = r.state /\ RAwaits(r, x).park = r.park
BY DEF TaskRecord, RAwaits, Who

\* The same of whether it may be cancelled.
LEMMA RCancellableFacts ==
  ASSUME NEW r \in TaskRecord
  PROVE  /\ RCancellable(r, TRUE) \in TaskRecord /\ Who(RCancellable(r, TRUE), r)
         /\ RCancellable(r, TRUE).state = r.state /\ RCancellable(r, TRUE).park = r.park
         /\ RCancellable(r, TRUE).awaits = r.awaits
         /\ RCancellable(r, FALSE) \in TaskRecord /\ Who(RCancellable(r, FALSE), r)
         /\ RCancellable(r, FALSE).state = r.state /\ RCancellable(r, FALSE).park = r.park
         /\ RCancellable(r, FALSE).awaits = r.awaits
BY DEF TaskRecord, RCancellable, Who

\* The same of whether it is done.
LEMMA RDoneFacts ==
  ASSUME NEW r \in TaskRecord
  PROVE  /\ RDone(r) \in TaskRecord /\ Who(RDone(r), r) /\ RDone(r).state = r.state
         /\ RDone(r).park = r.park /\ RDone(r).awaits = r.awaits
BY DEF TaskRecord, RDone, Who

\* Only the record of t is replaced.
Replaces(t, r) ==
  /\ task' \in [Tasks -> TaskRecord] /\ task'[t] = r
  /\ \A u \in Tasks \ {t} : task'[u] = task[u]

\* EXIT
LEMMA ExitFine ==
  ASSUME Core, NEW t, Exit(t)
  PROVE  Fine
<1>1. /\ Types /\ stack # <<>> /\ Top.task = t /\ Top.mode = "run" /\ Pop
      /\ parked' = parked /\ root' = root
      /\ gate' = LeaveRun(gate, I(t)) /\ task' = [task EXCEPT ![t].done = TRUE]
  BY DEF Core, Exit, Runs
<1>2. t \in Tasks /\ I(t) \in Insts /\ task \in [Tasks -> TaskRecord]
  BY <1>1, Runner DEF Types
<1>3. /\ RDone(task[t]) \in TaskRecord /\ Who(RDone(task[t]), task[t])
      /\ RDone(task[t]).state = task[t].state /\ RDone(task[t]).park = task[t].park
  BY <1>2, RDoneFacts
<1>4. Replaces(t, RDone(task[t]))
  <2>1. task' = [task EXCEPT ![t] = RDone(task[t])]
    BY <1>1 DEF RDone
  <2> QED
    BY <1>2, <1>3, <2>1 DEF Replaces
<1>5. /\ Continue /\ task'[t].park = task[t].park
      /\ \A u \in Tasks \ {t} : task'[u].park = task[u].park /\ task'[u].awaits = task[u].awaits
  BY <1>2, <1>3, <1>4 DEF Continue, Replaces, Who
<1> DEFINE z == 0
<1>6. Turned(gate, gate', I(t), NoTask, TRUE, 0, z) /\ z = 0
  BY <1>1, <1>2, RunTurns DEF Types
<1> HIDE DEF z
<1>7. sub' \in [Tasks -> SubRecord] /\ \A d \in Tasks : GoesOn(d) => SubStep(d)
  BY <1>1, <1>2, PopIsPopped, PoppedFine
<1>8. root' \in Tasks \cup {NoTask} /\ stack' = Tail(stack)
  BY <1>1 DEF Types, Pop
<1> QED
  BY <1>1, <1>5, <1>6, <1>7, <1>8, PopFine

\* WAIT, YIELD
LEMMA CallbackParksFine ==
  ASSUME Core, NEW t, NEW p \in {"wait", "yield"}, CallbackParks(t, p)
  PROVE  Fine
<1>1. /\ Types /\ stack # <<>> /\ Top.task = t /\ Top.mode # "drive" /\ Pop
      /\ parked' = Append(parked, t) /\ root' = root /\ task[t].shape # "stackful"
      /\ gate' = LeaveRun(IF p = "wait" THEN Waits(gate, I(t)) ELSE gate, I(t))
      /\ task' = [task EXCEPT ![t].park = p, ![t].cancellable = TRUE]
  BY DEF Core, CallbackParks, Runs
<1>2. t \in Tasks /\ I(t) \in Insts /\ task \in [Tasks -> TaskRecord] /\ gate \in [Insts -> GateSet]
  BY <1>1, Runner DEF Types
<1> DEFINE r == RPark(task[t], p)
           q == RCancellable(r, TRUE)
<1>3. r \in TaskRecord /\ Who(r, task[t]) /\ r.state = task[t].state /\ r.park = p
  BY <1>2, RParkFacts
<1>4. task' = [task EXCEPT ![t] = q]
  BY <1>1, <1>2 DEF RPark, RCancellable
<1> HIDE DEF r
<1>5. q \in TaskRecord /\ Who(q, r) /\ q.state = r.state /\ q.park = r.park
  BY <1>3, RCancellableFacts
<1> HIDE DEF q
<1>6. Replaces(t, q)
  BY <1>2, <1>4, <1>5 DEF Replaces
<1>7. /\ Continue /\ task'[t].park = p
      /\ \A u \in Tasks \ {t} : task'[u].park = task[u].park /\ task'[u].awaits = task[u].awaits
  BY <1>2, <1>3, <1>5, <1>6 DEF Continue, Replaces, Who
<1>8. \E b : /\ Turned(gate, gate', I(t), NoTask, TRUE, 0, b)
             /\ (p = "wait" => b = 1) /\ (p # "wait" => b = 0)
  <2>1. CASE p = "wait"
    <3> DEFINE g == Waits(gate, I(t))
    <3>1. Counted(gate, g, I(t), 0, 1)
      BY <1>2, WaitsTurns
    <3>2. gate' = LeaveRun(g, I(t))
      BY <1>1, <2>1
    <3> HIDE DEF g
    <3>3. Turned(g, gate', I(t), NoTask, TRUE, 0, 0)
      BY <1>2, <3>1, <3>2, CountKeepsOwner, RunTurns
    <3>4. Turned(gate, gate', I(t), NoTask, TRUE, 0, 1)
      <4>1. 0 \in Int /\ 1 \in Int
        OBVIOUS
      <4> QED
        BY <1>2, <3>1, <3>3, <4>1, TurnsCompose, Zenon
    <3> QED
      BY <2>1, <3>4
  <2>2. CASE p # "wait"
    BY <1>1, <1>2, <2>2, RunTurns
  <2> QED
    BY <2>1, <2>2
<1>9. sub' \in [Tasks -> SubRecord] /\ \A d \in Tasks : GoesOn(d) => SubStep(d)
  BY <1>1, <1>2, PopIsPopped, PoppedFine
<1>10. root' \in Tasks \cup {NoTask} /\ stack' = Tail(stack)
  BY <1>1 DEF Types, Pop
<1>11. Sitting(task'[t]) <=> p = "wait"
  BY <1>7 DEF Sitting
<1> QED
  BY <1>1, <1>7, <1>8, <1>9, <1>10, <1>11, PopFine

\* waitable-set.wait of a task with a goroutine of its own
LEMMA WaitBlocksFine ==
  ASSUME Core, NEW t, NEW b \in BOOLEAN, WaitBlocks(t, b)
  PROVE  Fine
<1>1. /\ Types /\ stack # <<>> /\ Top.task = t /\ Top.mode # "drive" /\ Pop
      /\ parked' = Append(parked, t) /\ root' = root /\ gate' = SuspendRun(Waits(gate, I(t)), I(t))
      /\ task' = WithPark(task, t, "block", "set", b)
  BY DEF Core, WaitBlocks, Block, MayWait, Runs, WithPark
<1>2. t \in Tasks /\ I(t) \in Insts /\ task \in [Tasks -> TaskRecord] /\ gate \in [Insts -> GateSet]
  BY <1>1, Runner DEF Types
<1>3. /\ task' \in [Tasks -> TaskRecord] /\ \A u \in Tasks \ {t} : task'[u] = task[u]
      /\ task'[t].park = "block" /\ task'[t].awaits = "set" /\ task'[t].inst = task[t].inst
      /\ task'[t].shape = task[t].shape /\ task'[t].caller = task[t].caller
      /\ task'[t].state = task[t].state
  <2> DEFINE r == RPark(task[t], "block")
             q == RAwaits(r, "set")
             l == RCancellable(q, b)
  <2>1. r \in TaskRecord /\ Who(r, task[t]) /\ r.state = task[t].state /\ r.park = "block"
    BY <1>2, RParkFacts
  <2>2. task' = [task EXCEPT ![t] = l]
    BY <1>1, <1>2 DEF WithPark, RPark, RAwaits, RCancellable
  <2> HIDE DEF r
  <2>3. q \in TaskRecord /\ Who(q, r) /\ q.state = r.state /\ q.park = r.park /\ q.awaits = "set"
    BY <2>1, RAwaitsFacts
  <2> HIDE DEF q
  <2>4. l \in TaskRecord /\ Who(l, q) /\ l.state = q.state /\ l.park = q.park /\ l.awaits = q.awaits
    BY <2>3, RCancellableFacts
  <2> HIDE DEF l
  <2> QED
    BY <1>2, <2>1, <2>2, <2>3, <2>4 DEF Who
<1>4. /\ Continue
      /\ \A u \in Tasks \ {t} : task'[u].park = task[u].park /\ task'[u].awaits = task[u].awaits
  BY <1>2, <1>3 DEF Continue
<1> DEFINE z == 1
<1>5. Turned(gate, gate', I(t), gate[I(t)].owner, TRUE, 0, z)
  <2> DEFINE g == Waits(gate, I(t))
  <2>1. Counted(gate, g, I(t), 0, 1)
    BY <1>2, WaitsTurns
  <2>2. gate' = SuspendRun(g, I(t))
    BY <1>1
  <2> HIDE DEF g
  <2>3. Turned(g, gate', I(t), gate[I(t)].owner, TRUE, 0, 0)
    <3>1. g \in [Insts -> GateSet] /\ g[I(t)].owner = gate[I(t)].owner
      BY <2>1, CountKeepsOwner
    <3>2. Turned(g, gate', I(t), g[I(t)].owner, TRUE, 0, 0)
      BY <1>2, <3>1, <2>2, SuspendTurns, Zenon
    <3> QED
      BY <3>1, <3>2
  <2>4. 0 \in Int /\ 1 \in Int
    OBVIOUS
  <2> QED
    BY <1>2, <2>1, <2>3, <2>4, TurnsCompose, Zenon
<1>6. sub' \in [Tasks -> SubRecord] /\ \A d \in Tasks : GoesOn(d) => SubStep(d)
  BY <1>1, <1>2, PopIsPopped, PoppedFine
<1>7. root' \in Tasks \cup {NoTask} /\ stack' = Tail(stack)
  BY <1>1 DEF Types, Pop
<1>8. Sitting(task'[t]) /\ z = 1
  BY <1>3 DEF Sitting
<1> HIDE DEF z
<1> QED
  BY <1>1, <1>3, <1>4, <1>5, <1>6, <1>7, <1>8, PopFine

-----------------------------------------------------------------------------
(* A task that is started, and one that is taken out before it enters.     *)

\* A task without frames comes, goes or stays, and nobody else moves.
LEMMA OneRests ==
  ASSUME Types, Located, NEW c \in Tasks, c \notin OnStack, OnStack' = OnStack, Others(c),
         IsParked(c)' => task'[c].park # "block", SameGates
  PROVE  Exclusivity' /\ EntryIsRefusedWhileRunning'
<1>1. ASSUME NEW u \in Tasks, HasFrames(u)' PROVE gate'[I(u)'].owner = u
  <2>1. u # c
    BY <1>1 DEF HasFrames
  <2>2. HasFrames(u) /\ I(u)' = I(u)
    BY <1>1, <2>1 DEF HasFrames, I, Others
  <2>3. I(u) \in Insts
    BY <2>2, Somewhere DEF HasFrames
  <2> QED
    BY <2>2, <2>3 DEF Located, Exclusivity, SameGates
<1>2. \A t \in OnStack : I(t)' = I(t)
  BY StackedAreTasks DEF I, Others
<1>3. EntryIsRefusedWhileRunning'
  BY <1>2 DEF Located, EntryIsRefusedWhileRunning, SameGates
<1> QED
  BY <1>1, <1>3 DEF Exclusivity

\* The same, of the whole invariant.
LEMMA RestFine ==
  ASSUME Core, NEW c \in Tasks, c \notin OnStack, stack' = stack,
         parked' \in Seq(Tasks), Once(parked'),
         \A u \in Tasks \ {c} : IsParked(u)' <=> IsParked(u),
         IsParked(c)' => task'[c].park # "block",
         task' \in [Tasks -> TaskRecord], \A u \in Tasks \ {c} : task'[u] = task[u],
         NoneFresh, Life(c)',
         task[c].caller # NoTask => task'[c].caller # NoTask,
         NEW i \in Insts, NEW a, NEW b, Counted(gate, gate', i, a, b),
         b = 0, ~Sits(c), ~Sits(c)',
         sub' \in [Tasks -> SubRecord], root' \in Tasks \cup {NoTask},
         \A d \in Tasks : SubStep(d)
  PROVE  Fine
<1>1. Types /\ Located /\ Names
  BY DEF Core
<1>2. SameFrames(stack') /\ (1 \in DOMAIN stack' => Knows(stack'[1]))
  BY <1>1, StackUnchanged
<1>3. OnStack' = OnStack /\ Distinct' /\ stack' \in Seq(Frame)
  BY <1>1, <1>2, StackStays DEF Located, Placed
<1>4. gate' \in [Insts -> GateSet] /\ SameGates
  BY <1>1, GatesStay
<1>5. Types'
  BY <1>1, <1>3, <1>4 DEF Types
<1>6. Others(c)
  BY DEF Others
<1>7. Exclusivity' /\ EntryIsRefusedWhileRunning'
  BY <1>1, <1>3, <1>4, <1>6, OneRests
<1>8. Placed'
  BY <1>1, <1>3 DEF Located, Placed
<1>9. ASSUME NEW u \in Tasks PROVE Life(u)'
  <2>1. CASE u # c
    BY <1>1, <1>3, <2>1, LifeStays
  <2> QED
    BY <2>1
<1>10. CallersStay
  <2>1. task[c].caller # NoTask => task'[c].caller # NoTask
    OBVIOUS
  <2> QED
    BY <2>1 DEF CallersStay
<1>11. Names'
  BY <1>1, <1>2, <1>10, NamesStay
<1>12. WaitersAtLeast'
  <2>1. Besides(c)
    BY DEF Besides
  <2> QED
    BY <2>1, RestCounts
<1> QED
  BY <1>5, <1>7, <1>8, <1>9, <1>11, <1>12 DEF Fine, Located

\* The record of a task that is started.
LEMMA FreshFacts ==
  ASSUME Types, NEW c \in Tasks, NEW i \in Insts, NEW s \in {"callback", "promoted", "stackful"},
         NEW caller \in Tasks \cup {NoTask}
  PROVE  /\ Fresh(c, i, s, caller) \in TaskRecord
         /\ Fresh(c, i, s, caller).inst = i /\ Fresh(c, i, s, caller).shape = s
         /\ Fresh(c, i, s, caller).caller = caller
         /\ Fresh(c, i, s, caller).state = task[c].state
         /\ Fresh(c, i, s, caller).park = task[c].park
<1>1. task[c] \in TaskRecord
  BY DEF Types
<1> DEFINE p == [task[c] EXCEPT !.inst = i]
           q == [p EXCEPT !.shape = s]
           r == [q EXCEPT !.caller = caller]
<1>2. p \in TaskRecord /\ p.inst = i /\ p.state = task[c].state /\ p.park = task[c].park
  BY <1>1 DEF TaskRecord
<1>3. Fresh(c, i, s, caller) = r
  BY DEF Fresh
<1> HIDE DEF p
<1>4. q \in TaskRecord /\ q.inst = p.inst /\ q.state = p.state /\ q.park = p.park /\ q.shape = s
  BY <1>2 DEF TaskRecord
<1> HIDE DEF q
<1>5. /\ r \in TaskRecord /\ r.inst = q.inst /\ r.state = q.state /\ r.park = q.park
      /\ r.shape = q.shape /\ r.caller = caller
  BY <1>4 DEF TaskRecord
<1> HIDE DEF r
<1> QED
  BY <1>2, <1>3, <1>4, <1>5

\* The subtask gets a state.
SubState(c, x) == [sub EXCEPT ![c].state = x]

\* That is all.
LEMMA SubStateFacts ==
  ASSUME Types, NEW c \in Tasks, NEW x \in {"starting", "started"}
  PROVE  /\ SubState(c, x) \in [Tasks -> SubRecord]
         /\ \A d \in Tasks \ {c} : SubState(c, x)[d] = sub[d]
         /\ SubState(c, x)[c].state = x /\ SubState(c, x)[c].held = sub[c].held
         /\ SubState(c, x)[c].event = sub[c].event
         /\ SubState(c, x)[c].delivered = sub[c].delivered
<1> DEFINE h == SubState(c, x)
<1>0. sub \in [Tasks -> SubRecord] /\ sub[c] \in SubRecord
  BY DEF Types
<1>1. h[c] = [sub[c] EXCEPT !.state = x] /\ \A d \in Tasks \ {c} : h[d] = sub[d]
  BY <1>0 DEF SubState
<1>2. h \in [Tasks -> SubRecord]
  BY <1>0 DEF SubState, SubRecord
<1> HIDE DEF h
<1>3. /\ h[c].state = x /\ h[c].held = sub[c].held /\ h[c].event = sub[c].event
      /\ h[c].delivered = sub[c].delivered
  BY <1>0, <1>1 DEF SubRecord
<1> QED
  BY <1>1, <1>2, <1>3 DEF h

\* What is known of a task that has not been started.
LEMMA FreshIs ==
  ASSUME Core, NEW c \in Tasks, task[c].state = "fresh"
  PROVE  /\ c \notin OnStack /\ ~IsParked(c) /\ task[c].park = "none" /\ task[c].caller = NoTask
         /\ ~sub[c].event /\ ~sub[c].delivered /\ sub[c].state = "none"
<1>1. Life(c) /\ Follows(c)
  BY DEF Core, Located
<1> QED
  BY <1>1 DEF Life, Follows, NoSubtask

\* start, and the first segment runs
LEMMA StartsFine ==
  ASSUME Core, NEW c \in Tasks, NEW i \in Insts, NEW s \in {"callback", "promoted", "stackful"},
         NEW caller \in Tasks \cup {NoTask}, caller # NoTask => task[caller].state # "fresh",
         Starts(c, i, s, caller), root' \in Tasks \cup {NoTask}
  PROVE  Fine
<1>1. Types /\ Located /\ Names /\ NoInst \notin Insts
  BY TasksAssumption DEF Core
<1>2. /\ task[c].state = "fresh" /\ gate[i].owner = NoTask
      /\ gate' = [gate EXCEPT ![i].owner = c, ![i].mayEnter = FALSE]
      /\ sub' = IF caller = NoTask THEN sub ELSE SubState(c, "started")
      /\ stack' = <<Running(c, "start")>> \o stack /\ parked' = parked
  BY DEF Starts, CanStart, MayEnterNow, HasBackpressure, SubState
<1>3. /\ c \notin OnStack /\ ~IsParked(c) /\ task[c].park = "none" /\ task[c].caller = NoTask
      /\ ~sub[c].event /\ ~sub[c].delivered
  BY <1>2, FreshIs
<1> DEFINE q == Fresh(c, i, s, caller)
           r == RState(q, "started")
<1>4. q \in TaskRecord /\ q.inst = i /\ q.shape = s /\ q.caller = caller /\ q.park = task[c].park
  BY <1>1, FreshFacts
<1>5. task' = [task EXCEPT ![c] = r]
  BY DEF Starts, RState
<1> HIDE DEF q
<1>6. r \in TaskRecord /\ Who(r, q) /\ r.state = "started" /\ r.park = q.park
  BY <1>4, RStateFacts
<1> HIDE DEF r
<1>7. Replaces(c, r)
  BY <1>1, <1>5, <1>6 DEF Replaces, Types
<1>8. task'[c].inst = i /\ task'[c].state = "started" /\ task'[c].park = "none"
      /\ task'[c].caller = caller
  BY <1>3, <1>4, <1>6, <1>7 DEF Replaces, Who
<1>9. NoneFresh
  BY <1>7, <1>8 DEF NoneFresh, Replaces
<1>10. ~IsParked(c)' /\ \A u \in Tasks : IsParked(u)' <=> IsParked(u)
  BY <1>2, <1>3 DEF IsParked
<1>11. Life(c)'
  <2>1. caller # NoTask => task'[caller].state # "fresh"
    BY <1>9 DEF NoneFresh
  <2> QED
    BY <1>1, <1>8, <1>10, <2>1 DEF Life
<1>12. sub' \in [Tasks -> SubRecord] /\ SubStep(c) /\ \A d \in Tasks \ {c} : sub'[d] = sub[d]
  <2>1. CASE caller = NoTask
    BY <1>1, <1>2, <1>8, <2>1 DEF Types, SubStep, Begins
  <2>2. CASE caller # NoTask
    <3>1. /\ sub' \in [Tasks -> SubRecord] /\ \A d \in Tasks \ {c} : sub'[d] = sub[d]
          /\ sub'[c].state = "started" /\ sub'[c].event = sub[c].event
          /\ sub'[c].delivered = sub[c].delivered
      BY <1>1, <1>2, <2>2, SubStateFacts
    <3> QED
      BY <1>2, <1>3, <1>8, <2>2, <3>1 DEF SubStep, Begins
  <2> QED
    BY <2>1, <2>2
<1>13. \A d \in Tasks : SubStep(d)
  <2>1. \A d \in Tasks \ {c} : GoesOn(d)
    BY <1>7 DEF GoesOn, Replaces
  <2> QED
    BY <1>12, <2>1, Untouched
<1>14. Turned(gate, gate', i, c, FALSE, 0, 0)
  BY <1>1, <1>2, OwnerTurns DEF Types
<1>15. SameDrives(stack) /\ (1 \in DOMAIN stack => Knows(stack[1])) /\ ~Sits(c)
  BY <1>1, <1>3 DEF SameDrives, SameFrames, Types, Names, Sits
<1>16. /\ Running(c, "start") \in Frame /\ Running(c, "start").task = c
       /\ Running(c, "start").mode = "run"
  BY RunningFacts
<1>17. parked' \in Seq(Tasks) /\ Once(parked')
  BY <1>1, <1>2 DEF Types, Located, Placed
<1>18. task' \in [Tasks -> TaskRecord] /\ \A u \in Tasks \ {c} : task'[u] = task[u]
  BY <1>7 DEF Replaces
<1>19. (task[c].caller # NoTask => task'[c].caller # NoTask) /\ gate[i].owner \in {NoTask, c}
  BY <1>2, <1>3
<1> QED
  BY <1>2, <1>3, <1>8, <1>9, <1>10, <1>11, <1>12, <1>13, <1>14, <1>15, <1>16, <1>17, <1>18,
     <1>19, PushFine

\* start, and the task parks at entry
LEMMA ParksAtEntryFine ==
  ASSUME Core, NEW c \in Tasks, NEW i \in Insts, NEW s \in {"callback", "promoted", "stackful"},
         NEW caller \in Tasks \cup {NoTask}, caller # NoTask => task[caller].state # "fresh",
         ParksAtEntry(c, i, s, caller), root' \in Tasks \cup {NoTask}
  PROVE  Fine
<1>1. Types /\ Located /\ Names /\ NoInst \notin Insts
  BY TasksAssumption DEF Core
<1>2. /\ task[c].state = "fresh" /\ gate' = [gate EXCEPT ![i].waiting = @ + 1]
      /\ stack' = stack /\ parked' = Append(parked, c)
      /\ sub' = IF caller = NoTask THEN sub
                ELSE [sub EXCEPT ![c].state = "starting", ![c].held = TRUE]
  BY DEF ParksAtEntry, CanStart
<1>3. /\ c \notin OnStack /\ ~IsParked(c) /\ task[c].caller = NoTask
      /\ ~sub[c].event /\ ~sub[c].delivered
  BY <1>2, FreshIs
<1> DEFINE o == Fresh(c, i, s, caller)
           p == RState(o, "initial")
           q == RPark(p, "entry")
           r == RCancellable(q, TRUE)
<1>4. o \in TaskRecord /\ o.inst = i /\ o.shape = s /\ o.caller = caller
  BY <1>1, FreshFacts
<1>5. task' = [task EXCEPT ![c] = r]
  BY DEF ParksAtEntry, RState, RPark, RCancellable
<1> HIDE DEF o
<1>6. p \in TaskRecord /\ Who(p, o) /\ p.state = "initial"
  BY <1>4, RStateFacts
<1> HIDE DEF p
<1>7. q \in TaskRecord /\ Who(q, p) /\ q.state = p.state /\ q.park = "entry"
  BY <1>6, RParkFacts
<1> HIDE DEF q
<1>8. r \in TaskRecord /\ Who(r, q) /\ r.state = q.state /\ r.park = q.park
  BY <1>7, RCancellableFacts
<1> HIDE DEF r
<1>9. Replaces(c, r)
  BY <1>1, <1>5, <1>8 DEF Replaces, Types
<1>10. task'[c].inst = i /\ task'[c].state = "initial" /\ task'[c].park = "entry"
       /\ task'[c].caller = caller
  BY <1>4, <1>6, <1>7, <1>8, <1>9 DEF Replaces, Who
<1>11. NoneFresh
  BY <1>9, <1>10 DEF NoneFresh, Replaces
<1>12. /\ parked' \in Seq(Tasks) /\ Once(parked')
       /\ \A u \in Tasks : IsParked(u)' <=> IsParked(u) \/ u = c
  BY <1>1, <1>2, <1>3, Parks DEF Located, Placed
<1>13. Life(c)'
  <2>1. caller # NoTask => task'[caller].state # "fresh"
    BY <1>11 DEF NoneFresh
  <2>2. c \notin OnStack'
    BY <1>2, <1>3 DEF OnStack
  <2> QED
    BY <1>1, <1>10, <1>12, <2>1, <2>2 DEF Life
<1>14. sub' \in [Tasks -> SubRecord] /\ SubStep(c) /\ \A d \in Tasks \ {c} : sub'[d] = sub[d]
  <2>1. CASE caller = NoTask
    BY <1>1, <1>2, <1>10, <2>1 DEF Types, SubStep, Begins
  <2>2. CASE caller # NoTask
    <3> DEFINE h == SubState(c, "starting")
               g == [h EXCEPT ![c].held = TRUE]
    <3>1. /\ h \in [Tasks -> SubRecord] /\ \A d \in Tasks \ {c} : h[d] = sub[d]
          /\ h[c].state = "starting" /\ h[c].event = sub[c].event
          /\ h[c].delivered = sub[c].delivered
      BY <1>1, SubStateFacts
    <3>2. sub' = g
      BY <1>1, <1>2, <2>2 DEF SubState, Types
    <3> HIDE DEF h
    <3>3. g[c] = [h[c] EXCEPT !.held = TRUE] /\ \A d \in Tasks \ {c} : g[d] = h[d]
      BY <3>1
    <3>4. g \in [Tasks -> SubRecord] /\ h[c] \in SubRecord
      BY <3>1 DEF SubRecord
    <3> HIDE DEF g
    <3>5. g[c].state = h[c].state /\ g[c].event = h[c].event /\ g[c].delivered = h[c].delivered
      BY <3>3, <3>4 DEF SubRecord
    <3> QED
      BY <1>2, <1>3, <1>10, <2>2, <3>1, <3>2, <3>3, <3>4, <3>5 DEF SubStep, Begins
  <2> QED
    BY <2>1, <2>2
<1>15. \A d \in Tasks : SubStep(d)
  <2>1. \A d \in Tasks \ {c} : GoesOn(d)
    BY <1>9 DEF GoesOn, Replaces
  <2> QED
    BY <1>14, <2>1, Untouched
<1> DEFINE z == 0
<1>16. Counted(gate, gate', i, 1, z) /\ z = 0
  BY <1>1, <1>2, CountTurns DEF Types
<1> HIDE DEF z
<1>17. ~Sits(c) /\ ~Sits(c)'
  BY <1>3, <1>10 DEF Sits, Sitting
<1> QED
  BY <1>2, <1>3, <1>9, <1>10, <1>11, <1>12, <1>13, <1>14, <1>15, <1>16, <1>17, RestFine DEF Replaces

\* The host's Call
LEMMA CallFine ==
  ASSUME Core, NEW t \in Tasks, NEW i \in Insts, NEW s \in Shapes, Call(t, i, s)
  PROVE  Fine
<1>1. s \in {"callback", "promoted", "stackful"}
  BY TasksAssumption
<1>2. root' \in Tasks \cup {NoTask} /\ NoTask \in Tasks \cup {NoTask}
  BY DEF Call
<1>3. Starts(t, i, s, NoTask) \/ ParksAtEntry(t, i, s, NoTask)
  BY DEF Call
<1> QED
  BY <1>1, <1>2, <1>3, StartsFine, ParksAtEntryFine

\* A guest's call of another export
LEMMA CallExportFine ==
  ASSUME Core, NEW t, NEW c \in Tasks, NEW i \in Insts, NEW s \in Shapes, CallExport(t, c, i, s)
  PROVE  Fine
<1> DEFINE p == IF s = "callback" /\ i \in MayBlockSync THEN "promoted" ELSE s
<1>1. p \in {"callback", "promoted", "stackful"}
  BY TasksAssumption
<1>2. root' \in Tasks \cup {NoTask}
  BY DEF CallExport, Core, Types
<1>3. t \in Tasks /\ task[t].state # "fresh"
  BY Runner DEF CallExport, Runs
<1>4. Starts(c, i, p, t) \/ ParksAtEntry(c, i, p, t)
  BY DEF CallExport
<1> HIDE DEF p
<1> QED
  BY <1>1, <1>2, <1>3, <1>4, StartsFine, ParksAtEntryFine

-----------------------------------------------------------------------------
(* resumeReady.                                                            *)

\* The place of a task that is resumed.
Rouses(c) ==
  /\ c \notin OnStack /\ ~IsParked(c)' /\ parked' \in Seq(Tasks) /\ Once(parked')
  /\ \A u \in Tasks \ {c} : IsParked(u)' <=> IsParked(u)

\* A task that was parked is taken out.
LEMMA UnparkRouses ==
  ASSUME Core, NEW c \in Tasks, IsParked(c), Unpark(c)
  PROVE  Rouses(c)
<1>1. Types /\ Once(parked) /\ c \notin OnStack
  BY DEF Core, Located, Placed
<1>2. /\ parked' \in Seq(Tasks) /\ Once(parked')
      /\ \A u \in Tasks : IsParked(u)' <=> IsParked(u) /\ u \notin {c}
  BY <1>1, Unparks DEF Unpark
<1> QED
  BY <1>1, <1>2 DEF Rouses

\* A task that waits to enter enters.
LEMMA ResumeEntryFine ==
  ASSUME Core, NEW c \in Tasks, IsParked(c), Ready(c), ResumeEntry(c), Unpark(c), root' = root
  PROVE  Fine
<1>1. Types /\ Located /\ Names /\ Life(c) /\ Follows(c)
  BY DEF Core, Located
<1>2. /\ task[c].park = "entry" /\ gate' = EnterRun(Uncounted(gate, I(c)), c)
      /\ sub' = IF task[c].caller = NoTask THEN sub ELSE SubState(c, "started")
      /\ stack' = <<Running(c, "resume")>> \o stack
  BY DEF ResumeEntry, SubState
<1>3. task[c].state = "initial"
  BY <1>1, <1>2 DEF Life
<1>4. I(c) \in Insts /\ gate[I(c)].owner = NoTask
  <2>1. I(c) \in Insts
    BY <1>1, Somewhere
  <2>2. ~HasBackpressure(I(c))
    BY <1>2 DEF Ready
  <2> QED
    BY <2>1, <2>2 DEF HasBackpressure
<1>5. Rouses(c)
  BY UnparkRouses
<1> DEFINE q == RState(task[c], "started")
           r == RPark(q, IF task[c].shape = "stackful" THEN "none" ELSE "entry")
<1>6. task[c] \in TaskRecord /\ task \in [Tasks -> TaskRecord] /\ gate \in [Insts -> GateSet]
  BY <1>1 DEF Types
<1>7. q \in TaskRecord /\ Who(q, task[c]) /\ q.state = "started" /\ q.park = task[c].park
  BY <1>6, RStateFacts
<1>8. task' = [task EXCEPT ![c] = r]
  <2>1. task'= [task EXCEPT ![c] = RPark(q, IF task[c].shape = "stackful" THEN "none" ELSE q.park)]
    BY <1>6 DEF ResumeEntry, RState, RPark
  <2> QED
    BY <1>2, <1>7, <2>1
<1> HIDE DEF q
<1>9. r \in TaskRecord /\ Who(r, q) /\ r.state = q.state /\ r.park \in {"none", "entry"}
  BY <1>7, RParkFacts
<1> HIDE DEF r
<1>10. Replaces(c, r)
  BY <1>6, <1>8, <1>9 DEF Replaces
<1>11. /\ task'[c].inst = task[c].inst /\ task'[c].shape = task[c].shape
       /\ task'[c].caller = task[c].caller
       /\ task'[c].state = "started" /\ task'[c].park \in {"none", "entry"}
  BY <1>7, <1>9, <1>10 DEF Replaces, Who
<1>12. NoneFresh
  BY <1>10, <1>11 DEF NoneFresh, Replaces
<1>13. Life(c)'
  BY <1>1, <1>3, <1>5, <1>11, <1>12, LifeGoesOn DEF Rouses
<1>14. sub' \in [Tasks -> SubRecord] /\ SubStep(c) /\ \A d \in Tasks \ {c} : sub'[d] = sub[d]
  <2>1. CASE task[c].caller = NoTask
    BY <1>1, <1>2, <1>3, <1>11, <2>1 DEF Types, SubStep, Enters
  <2>2. CASE task[c].caller # NoTask
    <3>1. /\ sub' \in [Tasks -> SubRecord] /\ \A d \in Tasks \ {c} : sub'[d] = sub[d]
          /\ sub'[c].state = "started" /\ sub'[c].event = sub[c].event
          /\ sub'[c].delivered = sub[c].delivered
      BY <1>1, <1>2, <2>2, SubStateFacts
    <3>2. sub[c].event \in BOOLEAN /\ sub[c].delivered \in BOOLEAN
      BY <1>1 DEF Types, SubRecord
    <3>3. ~sub[c].event /\ ~sub[c].delivered
      BY <1>1, <1>3, <2>2, <3>2 DEF Follows, Resolved
    <3> QED
      BY <1>3, <1>11, <2>2, <3>1, <3>3 DEF SubStep, Enters
  <2> QED
    BY <2>1, <2>2
<1>15. \A d \in Tasks : SubStep(d)
  <2>1. \A d \in Tasks \ {c} : GoesOn(d)
    BY <1>10 DEF GoesOn, Replaces
  <2> QED
    BY <1>14, <2>1, Untouched
<1>16. \E a, b : Turned(gate, gate', I(c), c, FALSE, a, b) /\ b = 0
  <2> DEFINE g == Uncounted(gate, I(c))
             n == -1
  <2>1. n \in Int /\ 0 \in Int
    OBVIOUS
  <2>2. Counted(gate, g, I(c), n, 0)
    BY <1>4, <1>6, CountTurns
  <2>3. gate' = EnterRun(g, c)
    BY <1>2
  <2> HIDE DEF g, n
  <2>4. Turned(g, gate', I(c), c, FALSE, 0, 0)
    BY <1>4, <2>2, <2>3, CountKeepsOwner, RunTurns
  <2> QED
    BY <1>4, <1>6, <2>1, <2>2, <2>4, TurnsCompose, Zenon
<1>17. SameDrives(stack) /\ (1 \in DOMAIN stack => Knows(stack[1])) /\ ~Sits(c)
  BY <1>1, <1>2 DEF SameDrives, SameFrames, Types, Names, Sits, Sitting
<1>18. /\ Running(c, "resume") \in Frame /\ Running(c, "resume").task = c
       /\ Running(c, "resume").mode = "run"
  BY RunningFacts
<1>19. root' \in Tasks \cup {NoTask} /\ task'[c].inst = I(c)
  BY <1>1, <1>11 DEF Types, I
<1> QED
  BY <1>2, <1>4, <1>5, <1>10, <1>11, <1>12, <1>13, <1>14, <1>15, <1>16, <1>17, <1>18, <1>19, PushFine
     DEF Replaces, Rouses

\* The subtasks that a resumed task finds: a cancellation may be marked.
Like(sb) ==
  /\ sb \in [Tasks -> SubRecord]
  /\ \A d \in Tasks : /\ sb[d].state = sub[d].state /\ sb[d].event = sub[d].event
                      /\ sb[d].delivered = sub[d].delivered /\ sb[d].held = sub[d].held
                      /\ task[d].caller = NoTask => sb[d] = sub[d]

\* A mark tells nobody anything.
LEMMA LikeKeeps ==
  ASSUME Core, NEW sb, Like(sb), sub' = sb
  PROVE  sub' \in [Tasks -> SubRecord] /\ \A d \in Tasks : GoesOn(d) => SubStep(d)
BY DEF Like, SubStep, Keeps

\* An event of the set is taken.
LEMMA TakeFromSetTells ==
  ASSUME Core, NEW sb, Like(sb), NEW i, TakeFromSet(i, sb)
  PROVE  sub' \in [Tasks -> SubRecord] /\ \A d \in Tasks : GoesOn(d) => SubStep(d)
<1>1. PICK c \in Tasks : sub[c].event /\ sub' = Deliver(sb, c)
  BY DEF TakeFromSet
<1>2. sb \in [Tasks -> SubRecord]
  BY DEF Like
<1>3. /\ sub' \in [Tasks -> SubRecord] /\ \A d \in Tasks \ {c} : sub'[d] = sb[d]
      /\ sub'[c].state = sb[c].state /\ sub'[c].event = FALSE /\ sub'[c].delivered = TRUE
  BY <1>1, <1>2, DeliverFacts
<1> QED
  BY <1>1, <1>2, <1>3, TakeTells DEF Like

\* The event that a sleeper waited for is taken.
LEMMA AwokenTells ==
  ASSUME Core, NEW sb, Like(sb), NEW c \in Tasks, sub[c].event,
         sub' = Sleeps(Deliver(sb, c), c, FALSE)
  PROVE  sub' \in [Tasks -> SubRecord] /\ \A d \in Tasks : GoesOn(d) => SubStep(d)
<1> DEFINE h == Deliver(sb, c)
<1>1. sb \in [Tasks -> SubRecord]
  BY DEF Like
<1>2. /\ h \in [Tasks -> SubRecord] /\ \A d \in Tasks \ {c} : h[d] = sb[d]
      /\ h[c].state = sb[c].state /\ h[c].event = FALSE /\ h[c].delivered = TRUE
  BY <1>1, DeliverFacts
<1> HIDE DEF h
<1>3. LikeBut(sub', h, c)
  BY <1>2, FlagFacts DEF h
<1>4. /\ sub' \in [Tasks -> SubRecord] /\ \A d \in Tasks \ {c} : sub'[d] = sb[d]
      /\ sub'[c].state = sb[c].state /\ sub'[c].event = FALSE /\ sub'[c].delivered = TRUE
  BY <1>2, <1>3 DEF LikeBut
<1> QED
  BY <1>1, <1>4, TakeTells DEF Like

\* A task that is in a segment goes on where it parked.
LEMMA ResumeFine ==
  ASSUME Core, NEW c \in Tasks, Rouses(c), task[c].park \in {"wait", "yield", "block"},
         I(c) \in Insts, gate[I(c)].owner \in {NoTask, c},
         NEW s, SameDrives(s), 1 \in DOMAIN s => Knows(s[1]),
         NEW f \in Frame, f.task = c, f.mode \in {"run", "empty"}, stack' = <<f>> \o s,
         NEW r, Replaces(c, r), Who(r, task[c]),
         r.state = task[c].state \/ (task[c].state \in Mid /\ r.state \in Mid),
         task[c].state # "initial", r.park \in {"none", task[c].park},
         NEW a, NEW b, Turned(gate, gate', I(c), c, FALSE, a, b),
         Sits(c) => b = -1, ~Sits(c) => b = 0,
         sub' \in [Tasks -> SubRecord], root' = root,
         \A d \in Tasks : GoesOn(d) => SubStep(d)
  PROVE  Fine
<1>1. Types /\ Located /\ Names /\ Life(c)
  BY DEF Core, Located
<1>2. task[c].state # "fresh"
  BY <1>1 DEF Life
<1>3. /\ task'[c].inst = task[c].inst /\ task'[c].shape = task[c].shape
      /\ task'[c].caller = task[c].caller /\ task'[c].state \notin {"fresh", "initial"}
      /\ task'[c].park \in {"none", task[c].park}
      /\ task'[c].state = task[c].state \/ (task[c].state \in Mid /\ task'[c].state \in Mid)
  BY <1>2 DEF Replaces, Who, Mid
<1>4. NoneFresh
  BY <1>3 DEF NoneFresh, Replaces
<1>5. Life(c)'
  BY <1>1, <1>2, <1>3, <1>4, LifeGoesOn DEF Rouses
<1>6. \A d \in Tasks : GoesOn(d)
  BY <1>3 DEF GoesOn, Replaces
<1>7. root' \in Tasks \cup {NoTask} /\ task'[c].inst = I(c)
  BY <1>1, <1>3 DEF Types, I
<1> QED
  BY <1>3, <1>4, <1>5, <1>6, <1>7, PushFine DEF Replaces, Rouses

\* The states after the resume.
LEMMA StateAfterFacts ==
  ASSUME Core, NEW c \in Tasks, NEW b \in BOOLEAN, b => task[c].state \in Mid
  PROVE  /\ StateAfter(c, b) \in {"fresh", "initial", "started", "pending", "delivered", "resolved"}
         /\ \/ StateAfter(c, b) = task[c].state
            \/ task[c].state \in Mid /\ StateAfter(c, b) \in Mid
BY DEF StateAfter, Cancels, Core, Types, TaskRecord, Mid

\* The set is left, and then the exclusive is taken.
LEMMA UnwaitsAndEnters ==
  ASSUME Types, NEW c \in Tasks, I(c) \in Insts, NEW b \in BOOLEAN,
         gate' = EnterRun(IF b THEN Unwaits(gate, I(c)) ELSE gate, c)
  PROVE  \E x, y : Turned(gate, gate', I(c), c, FALSE, x, y) /\ (b => y = -1) /\ (~b => y = 0)
<1>1. gate \in [Insts -> GateSet]
  BY DEF Types
<1>2. CASE b
  <2> DEFINE g == Unwaits(gate, I(c))
             n == -1
  <2>1. n \in Int /\ 0 \in Int
    OBVIOUS
  <2>2. Counted(gate, g, I(c), 0, n)
    BY <1>1, UnwaitsTurns
  <2>3. gate' = EnterRun(g, c)
    BY <1>2
  <2> HIDE DEF g, n
  <2>4. Turned(g, gate', I(c), c, FALSE, 0, 0)
    BY <2>2, <2>3, CountKeepsOwner, RunTurns
  <2>5. Turned(gate, gate', I(c), c, FALSE, 0, n)
    BY <1>1, <2>1, <2>2, <2>4, TurnsCompose, Zenon
  <2> QED
    BY <1>2, <2>5 DEF n
<1>3. CASE ~b
  BY <1>1, <1>3, RunTurns
<1> QED
  BY <1>2, <1>3

\* At WAIT or YIELD
LEMMA ResumeLoopFine ==
  ASSUME Core, NEW c \in Tasks, Rouses(c), I(c) \in Insts, gate[I(c)].owner \in {NoTask, c},
         IsParked(c) \/ task[c].park = "yield",
         NEW via \in {"start", "resume", "cancel"}, NEW s, SameDrives(s),
         1 \in DOMAIN s => Knows(s[1]), NEW sb, Like(sb),
         NEW b \in BOOLEAN, b => task[c].state \in Mid,
         ResumeLoop(c, via, s, sb, b), root' = root
  PROVE  Fine
<1>1. Types /\ Life(c) /\ task[c] \in TaskRecord /\ task \in [Tasks -> TaskRecord]
  BY DEF Core, Located, Types
<1>2. /\ task[c].park \in {"wait", "yield"}
      /\ task' = [task EXCEPT ![c].state = StateAfter(c, b)]
      /\ stack' = <<Running(c, via)>> \o s
      /\ TakeFromSet(I(c), sb) \/ sub' = sb
  BY DEF ResumeLoop
<1> DEFINE r == RState(task[c], StateAfter(c, b))
<1>3. r \in TaskRecord /\ Who(r, task[c]) /\ r.state = StateAfter(c, b) /\ r.park = task[c].park
  BY <1>1, StateAfterFacts, RStateFacts
<1>4. task' = [task EXCEPT ![c] = r]
  BY <1>1, <1>2 DEF RState
<1> HIDE DEF r
<1>5. Replaces(c, r)
  BY <1>1, <1>3, <1>4 DEF Replaces
<1>6. task[c].state # "initial"
  BY <1>1, <1>2 DEF Life
<1>7. r.state = task[c].state \/ (task[c].state \in Mid /\ r.state \in Mid)
  <2>1. \/ StateAfter(c, b) = task[c].state
        \/ task[c].state \in Mid /\ StateAfter(c, b) \in Mid
    BY StateAfterFacts
  <2> QED
    BY <1>3, <2>1
<1>8. \E x, y : /\ Turned(gate, gate', I(c), c, FALSE, x, y)
                /\ (Sits(c) => y = -1) /\ (~Sits(c) => y = 0)
  <2> DEFINE w == task[c].park = "wait"
  <2>1. gate' = EnterRun(IF w THEN Unwaits(gate, I(c)) ELSE gate, c) /\ w \in BOOLEAN
    BY DEF ResumeLoop
  <2>2. Sits(c) <=> w
    BY <1>2 DEF Sits, Sitting
  <2> HIDE DEF w
  <2> QED
    BY <1>1, <2>1, <2>2, UnwaitsAndEnters
<1>9. sub' \in [Tasks -> SubRecord] /\ \A d \in Tasks : GoesOn(d) => SubStep(d)
  BY <1>2, LikeKeeps, TakeFromSetTells
<1>10. Running(c, via) \in Frame /\ Running(c, via).task = c /\ Running(c, via).mode = "run"
  BY RunningFacts
<1> QED
  BY <1>2, <1>3, <1>5, <1>6, <1>7, <1>8, <1>9, <1>10, ResumeFine

\* In a builtin
LEMMA ResumeBlockedFine ==
  ASSUME Core, NEW c \in Tasks, Rouses(c), I(c) \in Insts, gate[I(c)].owner \in {NoTask, c},
         IsParked(c),
         NEW via \in {"start", "resume", "cancel"}, NEW s, SameDrives(s),
         1 \in DOMAIN s => Knows(s[1]), NEW sb, Like(sb),
         NEW b \in BOOLEAN, b => task[c].state \in Mid,
         ResumeBlocked(c, via, s, sb, b), root' = root
  PROVE  Fine
<1>1. Types /\ Life(c) /\ task[c] \in TaskRecord /\ task \in [Tasks -> TaskRecord]
  BY DEF Core, Located, Types
<1> DEFINE on == task[c].awaits
           m == IF Cancels(c, b) \/ Awaited(c, on) THEN "run" ELSE "empty"
<1>2. /\ task[c].park = "block"
      /\ stack' = <<Woken(c, via, m)>> \o s
      /\ \/ sub' = sb
         \/ TakeFromSet(I(c), sb)
         \/ on # "set" /\ Awaited(c, on) /\ sub' = Sleeps(Deliver(sb, on), on, FALSE)
  BY DEF ResumeBlocked, Woken, Sleeps
<1> DEFINE x == StateAfter(c, b)
           o == RState(task[c], x)
           p == RPark(o, "none")
           q == RAwaits(p, "set")
           r == RCancellable(q, FALSE)
<1>3. o \in TaskRecord /\ Who(o, task[c]) /\ o.state = x
  BY <1>1, StateAfterFacts, RStateFacts
<1>4. task' = [task EXCEPT ![c] = r]
  BY <1>1 DEF ResumeBlocked, RState, RPark, RAwaits, RCancellable
<1> HIDE DEF o
<1>5. p \in TaskRecord /\ Who(p, o) /\ p.state = o.state /\ p.park = "none"
  BY <1>3, RParkFacts
<1> HIDE DEF p
<1>6. q \in TaskRecord /\ Who(q, p) /\ q.state = p.state /\ q.park = p.park
  BY <1>5, RAwaitsFacts
<1> HIDE DEF q
<1>7. r \in TaskRecord /\ Who(r, q) /\ r.state = q.state /\ r.park = q.park
  BY <1>6, RCancellableFacts
<1> HIDE DEF r
<1>8. Replaces(c, r)
  BY <1>1, <1>4, <1>7 DEF Replaces
<1>9. Who(r, task[c]) /\ r.state = x /\ r.park = "none"
  BY <1>3, <1>5, <1>6, <1>7 DEF Who
<1>10. task[c].state # "initial"
  BY <1>1, <1>2 DEF Life
<1>11. r.state = task[c].state \/ (task[c].state \in Mid /\ r.state \in Mid)
  <2>1. \/ StateAfter(c, b) = task[c].state
        \/ task[c].state \in Mid /\ StateAfter(c, b) \in Mid
    BY StateAfterFacts
  <2> QED
    BY <1>9, <2>1
<1>12. \E y, z : /\ Turned(gate, gate', I(c), c, FALSE, y, z)
                 /\ (Sits(c) => z = -1) /\ (~Sits(c) => z = 0)
  <2> DEFINE w == task[c].awaits = "set"
  <2>1. gate' = EnterRun(IF w THEN Unwaits(gate, I(c)) ELSE gate, c) /\ w \in BOOLEAN
    BY DEF ResumeBlocked
  <2>2. Sits(c) <=> w
    BY <1>2 DEF Sits, Sitting
  <2> HIDE DEF w
  <2> QED
    BY <1>1, <2>1, <2>2, UnwaitsAndEnters
<1>13. sub' \in [Tasks -> SubRecord] /\ \A d \in Tasks : GoesOn(d) => SubStep(d)
  <2>1. CASE sub' = sb \/ TakeFromSet(I(c), sb)
    BY <2>1, LikeKeeps, TakeFromSetTells
  <2>2. CASE on # "set" /\ Awaited(c, on) /\ sub' = Sleeps(Deliver(sb, on), on, FALSE)
    <3>1. on \in Tasks /\ sub[on].event
      BY <1>1, <2>2 DEF Awaited, TaskRecord
    <3> QED
      BY <2>2, <3>1, AwokenTells
  <2> QED
    BY <1>2, <2>1, <2>2
<1> HIDE DEF m
<1>14. m \in {"run", "empty"}
  BY DEF m
<1>15. /\ Woken(c, via, m) \in Frame /\ Woken(c, via, m).task = c
       /\ Woken(c, via, m).mode \in {"run", "empty"}
  BY <1>14, WokenFacts
<1> QED
  BY <1>2, <1>8, <1>9, <1>10, <1>11, <1>12, <1>13, <1>15, ResumeFine

\* The first ready task is one that is parked and ready.
LEMMA FirstReadyIs ==
  ASSUME Types, ReadyIndexes # {}
  PROVE  FirstReady \in Tasks /\ IsParked(FirstReady) /\ Ready(FirstReady)
<1>1. parked \in Seq(Tasks) /\ DOMAIN parked = 1..Len(parked) /\ Len(parked) \in Nat
  BY DEF Types
<1>2. ReadyIndexes \in SUBSET Nat
  BY <1>1 DEF ReadyIndexes
<1>3. \E k \in ReadyIndexes : \A l \in ReadyIndexes : k <= l
  BY <1>2, LeastNat
<1> DEFINE n == CHOOSE k \in ReadyIndexes : \A l \in ReadyIndexes : k <= l
<1>4. n \in ReadyIndexes /\ FirstReady = parked[n]
  BY <1>3 DEF FirstReady
<1> HIDE DEF n
<1>5. n \in DOMAIN parked /\ Ready(parked[n])
  BY <1>4 DEF ReadyIndexes
<1>6. parked[n] \in Tasks
  BY <1>1, <1>5
<1> QED
  BY <1>4, <1>5, <1>6 DEF IsParked

\* step
LEMMA StepFine ==
  ASSUME Core, Step
  PROVE  Fine
<1>1. Types /\ Located /\ Names /\ ReadyIndexes # {} /\ root' = root
  BY DEF Core, Step
<1> DEFINE c == FirstReady
           b == FALSE
           via == "resume"
<1>2. c \in Tasks /\ IsParked(c) /\ Ready(c) /\ Unpark(c)
  BY <1>1, FirstReadyIs DEF Step
<1>3. \/ ResumeEntry(c)
      \/ ResumeLoop(c, via, stack, sub, b) \/ ResumeBlocked(c, via, stack, sub, b)
  BY DEF Step
<1>4. b \in BOOLEAN /\ ~b /\ via \in {"start", "resume", "cancel"}
  OBVIOUS
<1> HIDE DEF c, b, via
<1>5. CASE ResumeEntry(c)
  BY <1>1, <1>2, <1>5, ResumeEntryFine
<1>6. CASE ResumeLoop(c, via, stack, sub, b) \/ ResumeBlocked(c, via, stack, sub, b)
  <2>1. Rouses(c) /\ I(c) \in Insts
    BY <1>1, <1>2, UnparkRouses, Somewhere
  <2>2. gate[I(c)].owner \in {NoTask, c}
    <3>1. CASE task[c].park = "block"
      BY <1>1, <1>2, <3>1 DEF Located, Exclusivity, HasFrames
    <3>2. CASE task[c].park \in {"wait", "yield"}
      BY <1>2, <3>2 DEF Ready, HeldByOther
    <3> QED
      BY <1>6, <3>1, <3>2 DEF ResumeLoop, ResumeBlocked
  <2>3. SameDrives(stack) /\ (1 \in DOMAIN stack => Knows(stack[1]))
    BY <1>1 DEF SameDrives, SameFrames, Types, Names
  <2>4. Like(sub)
    BY <1>1 DEF Like, Types
  <2> QED
    BY <1>1, <1>2, <1>4, <1>6, <2>1, <2>2, <2>3, <2>4, ResumeLoopFine, ResumeBlockedFine
<1> QED
  BY <1>3, <1>5, <1>6

\* The request is marked.
LEMMA RequestedIs ==
  ASSUME Core, NEW c \in Tasks, task[c].caller # NoTask
  PROVE  Like(Requested(c)) /\ Requested(c) \in [Tasks -> SubRecord]
<1>1. sub \in [Tasks -> SubRecord]
  BY DEF Core, Types
<1>2. LikeBut(Requested(c), sub, c)
  BY <1>1, FlagFacts
<1> QED
  BY <1>2 DEF Like, LikeBut

\* A task is cancelled before it enters, and never runs.
LEMMA EntryCancelledFine ==
  ASSUME Core, NEW c \in Tasks, task[c].caller # NoTask, Rouses(c),
         task[c].state \in {"initial", "started"}, task[c].park \in {"entry", "none"},
         EntryCancelled(c, Requested(c)), UNCHANGED <<stack, root>>
  PROVE  Fine
<1>1. Types /\ Located /\ Life(c) /\ Follows(c) /\ task[c] \in TaskRecord
      /\ task \in [Tasks -> TaskRecord] /\ stack' = stack
  BY DEF Core, Located, Types
<1>2. /\ task' = [task EXCEPT ![c].state = "resolved", ![c].done = TRUE]
      /\ gate' = [gate EXCEPT ![I(c)].waiting = @ - 1]
      /\ sub' = Deliver(Resolve(Requested(c), c, "cancelled"), c)
  BY DEF EntryCancelled
<1> DEFINE q == RState(task[c], "resolved")
           r == RDone(q)
<1>3. q \in TaskRecord /\ Who(q, task[c]) /\ q.state = "resolved" /\ q.park = task[c].park
  BY <1>1, RStateFacts
<1>4. task' = [task EXCEPT ![c] = r]
  BY <1>1, <1>2 DEF RState, RDone
<1> HIDE DEF q
<1>5. r \in TaskRecord /\ Who(r, q) /\ r.state = q.state /\ r.park = q.park
  BY <1>3, RDoneFacts
<1> HIDE DEF r
<1>6. Replaces(c, r)
  BY <1>1, <1>4, <1>5 DEF Replaces
<1>7. /\ task'[c].inst = task[c].inst /\ task'[c].shape = task[c].shape
      /\ task'[c].caller = task[c].caller /\ task'[c].state = "resolved"
      /\ task'[c].park = task[c].park
  BY <1>3, <1>5, <1>6 DEF Replaces, Who
<1>8. NoneFresh
  BY <1>6, <1>7 DEF NoneFresh, Replaces
<1>9. Life(c)'
  BY <1>1, <1>7, <1>8, LifeGoesOn DEF Rouses
<1>10. /\ sub' \in [Tasks -> SubRecord] /\ \A d \in Tasks \ {c} : sub'[d] = sub[d]
       /\ sub'[c].state = Outcome(c, "cancelled") /\ sub'[c].held = sub[c].held
       /\ sub'[c].delivered
  <2> DEFINE e == Requested(c)
             h == Resolve(e, c, "cancelled")
  <2>1. e \in [Tasks -> SubRecord] /\ LikeBut(e, sub, c)
    BY <1>1, FlagFacts DEF LikeBut, Types
  <2> HIDE DEF e
  <2>2. /\ h \in [Tasks -> SubRecord] /\ \A d \in Tasks \ {c} : h[d] = e[d]
        /\ h[c].state = Outcome(c, "cancelled") /\ h[c].held = e[c].held
    BY <2>1, ResolveFacts
  <2>3. sub' = Deliver(h, c)
    BY <1>2 DEF e
  <2> HIDE DEF h
  <2>4. /\ sub' \in [Tasks -> SubRecord] /\ \A d \in Tasks \ {c} : sub'[d] = h[d]
        /\ sub'[c].state = h[c].state /\ sub'[c].held = h[c].held /\ sub'[c].delivered = TRUE
    BY <2>2, <2>3, DeliverFacts
  <2> QED
    BY <2>1, <2>2, <2>4 DEF LikeBut
<1>11. SubStep(c)
  <2>1. Outcome(c, "cancelled") \in IF sub[c].state = "starting" THEN {"unstarted"}
                                    ELSE {"returned", "unreturned"}
    BY DEF Outcome
  <2> QED
    BY <1>7, <1>10, <2>1 DEF SubStep, Resolves, Mid
<1>12. \A d \in Tasks : SubStep(d)
  <2>1. \A d \in Tasks \ {c} : GoesOn(d)
    BY <1>6 DEF GoesOn, Replaces
  <2> QED
    BY <1>10, <1>11, <2>1, Untouched
<1>13. I(c) \in Insts
  BY <1>1, Somewhere
<1>14. \E a, b : Counted(gate, gate', I(c), a, b) /\ b = 0
  BY <1>1, <1>2, <1>13, CountTurns DEF Types
<1>15. root' \in Tasks \cup {NoTask} /\ ~Sits(c) /\ ~Sits(c)'
  BY <1>1, <1>7 DEF Types, Sits, Sitting
<1> QED
  BY <1>1, <1>6, <1>7, <1>8, <1>9, <1>10, <1>12, <1>13, <1>14, <1>15, RestFine DEF Replaces, Rouses

\* subtask.cancel, before the callee has entered
LEMMA CancelAtEntryFine ==
  ASSUME Core, NEW t, NEW c \in Tasks, CancelAtEntry(t, c)
  PROVE  Fine
<1>1. sub[c].held /\ task[c].state = "initial" /\ IsParked(c) /\ Unpark(c)
  BY DEF CancelAtEntry, MayCancel, HeldBy
<1>2. task[c].caller # NoTask /\ Rouses(c)
  BY <1>1, HasCaller, UnparkRouses
<1>3. task[c].park \in {"entry", "none"}
  BY <1>1 DEF Core, Located, Life
<1> QED
  BY <1>1, <1>2, <1>3, EntryCancelledFine DEF CancelAtEntry

\* The builtin waits while the callee that it resumes runs.
LEMMA CancelMarks ==
  ASSUME Core, stack # <<>>, Top.mode = "run",
         NEW c \in Tasks, task[c].caller # NoTask, NEW b \in BOOLEAN, NEW s,
         s = [stack EXCEPT ![1].mode = "cancel", ![1].on = c, ![1].flag = b]
  PROVE  SameDrives(s) /\ Knows(s[1])
<1>1. Marks(s, "cancel", c, b)
  BY DEF Marks
<1>2. Types /\ c \in Tasks \cup {NoTask}
  BY DEF Core
<1>3. ASSUME NEW m \in {"run", "drive", "cancel", "sync", "empty", "panic", "hung"},
             NEW o \in Tasks \cup {NoTask}, NEW y, Marks(y, m, o, b)
      PROVE  SameFrames(y) /\ y[1].mode = m /\ y[1].on = o
  <2>1. SameFrames(y)
    BY <1>2, <1>3, TopMarked
  <2>2. y[1].mode = m
    BY <1>2, <1>3, TopMarked
  <2>3. y[1].on = o
    BY <1>2, <1>3, TopMarked
  <2> QED
    BY <2>1, <2>2, <2>3
<1>4. SameFrames(s) /\ s[1].mode = "cancel" /\ s[1].on = c
  BY <1>1, <1>2, <1>3
<1> QED
  BY <1>4, TopSameDrives DEF Knows, Core

\* A callee that may be resumed at once.
LEMMA InlineIs ==
  ASSUME Core, NEW c \in Tasks, Inline(c)
  PROVE  /\ I(c) \in Insts /\ gate[I(c)].owner \in {NoTask, c} /\ task[c].state \in Mid
         /\ task[c].park # "block" => gate[I(c)].owner = NoTask
<1>1. task[c].state = "started"
  BY DEF Inline
<1>2. I(c) \in Insts
  BY <1>1, Somewhere DEF Core
<1> QED
  BY <1>1, <1>2 DEF Inline, HeldByOther, Mid

\* subtask.cancel resumes the callee.
LEMMA CancelResumesFine ==
  ASSUME Core, NEW t, NEW c \in Tasks, NEW async \in BOOLEAN, CancelResumes(t, c, async)
  PROVE  Fine
<1>1. /\ sub[c].held /\ stack # <<>> /\ Top.mode = "run"
      /\ Inline(c) /\ IsParked(c) /\ Unpark(c) /\ root' = root
  BY DEF CancelResumes, MayCancel, HeldBy, Runs
<1>2. task[c].caller # NoTask /\ Rouses(c)
  BY <1>1, HasCaller, UnparkRouses
<1> DEFINE s == [stack EXCEPT ![1].mode = "cancel", ![1].on = c, ![1].flag = async]
           b == TRUE
           via == "cancel"
<1>3. ResumeLoop(c, via, s, Requested(c), b) \/ ResumeBlocked(c, via, s, Requested(c), b)
  BY DEF CancelResumes
<1>4. b \in BOOLEAN /\ via \in {"start", "resume", "cancel"}
  OBVIOUS
<1>5. SameDrives(s) /\ Knows(s[1])
  BY <1>1, <1>2, CancelMarks
<1> HIDE DEF s, b, via
<1>6. I(c) \in Insts /\ gate[I(c)].owner \in {NoTask, c} /\ task[c].state \in Mid
  BY <1>1, InlineIs
<1>7. Like(Requested(c))
  BY <1>2, RequestedIs
<1> QED
  BY <1>1, <1>2, <1>3, <1>4, <1>5, <1>6, <1>7, ResumeLoopFine, ResumeBlockedFine

\* subtask.cancel of a callee that looks parked
LEMMA CancelStaleFine ==
  ASSUME Core, NEW t, NEW c \in Tasks, CancelStale(t, c)
  PROVE  Fine
<1>1. /\ Types /\ Located /\ Life(c)
      /\ sub[c].held /\ Runs(t) /\ stack # <<>> /\ Top.mode = "run" /\ ~IsParked(c)
      /\ parked' = parked /\ root' = root
      /\ task[c].state = "initial" \/ Inline(c)
  BY DEF Core, Located, CancelStale, MayCancel, HeldBy, Runs
<1>2. task[c].caller # NoTask
  BY <1>1, HasCaller
<1>3. task[c].park # "block" => Rouses(c)
  <2>1. task[c].park # "block" => c \notin OnStack
    <3>1. CASE task[c].state = "initial"
      BY <1>1, <3>1 DEF Life
    <3>2. CASE Inline(c)
      <4>1. task[c].park # "block" => gate[I(c)].owner = NoTask
        BY <3>2, InlineIs
      <4>2. c \in OnStack => gate[I(c)].owner = c
        BY <1>1 DEF Located, Exclusivity, HasFrames
      <4> QED
        BY <4>1, <4>2, TasksAssumption
    <3> QED
      BY <1>1, <3>1, <3>2
  <2>2. /\ ~IsParked(c)' /\ parked' \in Seq(Tasks) /\ Once(parked')
        /\ \A u \in Tasks \ {c} : IsParked(u)' <=> IsParked(u)
    BY <1>1 DEF IsParked, Types, Located, Placed
  <2> QED
    BY <2>1, <2>2 DEF Rouses
<1>4. \/ /\ \E m \in {"hung", "panic"} : stack' = [stack EXCEPT ![1].mode = m]
         /\ UNCHANGED <<task, gate, sub>>
      \/ /\ task[c].park = "entry"
         /\ EntryCancelled(c, Requested(c)) /\ stack' = stack
      \/ /\ task[c].park = "yield"
         /\ ResumeLoop(c, "cancel",
                       [stack EXCEPT ![1].mode = "cancel", ![1].on = c, ![1].flag = TRUE],
                       Requested(c), TRUE)
  BY DEF CancelStale
<1>5. CASE (\E m \in {"hung", "panic"} : stack' = [stack EXCEPT ![1].mode = m])
           /\ UNCHANGED <<task, gate, sub>>
  <2>1. PICK m \in {"hung", "panic"} : stack' = [stack EXCEPT ![1].mode = m]
    BY <1>5
  <2>2. Marks(stack', m, Top.on, Top.flag)
    BY <2>1 DEF Marks
  <2> QED
    BY <1>1, <1>5, <2>2, StaleStops
<1>6. CASE task[c].park = "entry" /\ EntryCancelled(c, Requested(c)) /\ stack' = stack
  <2>1. task[c].state \in {"initial", "started"}
    BY <1>1 DEF Inline
  <2> QED
    BY <1>1, <1>2, <1>3, <1>6, <2>1, EntryCancelledFine
<1>7. CASE task[c].park = "yield"
           /\ ResumeLoop(c, "cancel",
                         [stack EXCEPT ![1].mode = "cancel", ![1].on = c, ![1].flag = TRUE],
                         Requested(c), TRUE)
  <2> DEFINE b == TRUE
             via == "cancel"
             s == [stack EXCEPT ![1].mode = "cancel", ![1].on = c, ![1].flag = b]
  <2>1. ResumeLoop(c, via, s, Requested(c), b) /\ task[c].park = "yield"
    BY <1>7
  <2>2. b \in BOOLEAN /\ via \in {"start", "resume", "cancel"}
    OBVIOUS
  <2> HIDE DEF b, via
  <2>3. SameDrives(s) /\ Knows(s[1])
    BY <1>1, <1>2, <2>2, CancelMarks
  <2> HIDE DEF s
  <2>4. Inline(c)
    BY <1>1, <2>1 DEF Life
  <2>5. I(c) \in Insts /\ gate[I(c)].owner \in {NoTask, c} /\ task[c].state \in Mid
    BY <2>4, InlineIs
  <2>6. Like(Requested(c)) /\ Rouses(c)
    BY <1>2, <1>3, <2>1, RequestedIs
  <2> QED
    BY <1>1, <2>1, <2>2, <2>3, <2>5, <2>6, ResumeLoopFine
<1> QED
  BY <1>4, <1>5, <1>6, <1>7

-----------------------------------------------------------------------------
(* A trap unwinds the stack, and the reaper takes the parked goroutines.   *)

\* One instance after it.
UnwoundGate(r, gone, opened, poisoned) ==
  [r EXCEPT !.owner = IF gone THEN NoTask ELSE @, !.mayEnter = @ \/ opened,
            !.poisoned = @ \/ poisoned]

\* The counts of an instance.
SameCountsIn(p, r) ==
  p.waiters = r.waiters /\ p.waiting = r.waiting /\ p.backpressure = r.backpressure

\* It is a gate, and open if something of it was unwound.
LEMMA UnwoundGateFacts ==
  ASSUME NEW r \in GateSet, NEW x \in BOOLEAN, NEW y \in BOOLEAN, NEW z \in BOOLEAN
  PROVE  /\ UnwoundGate(r, x, y, z) \in GateSet
         /\ UnwoundGate(r, x, y, z).mayEnter <=> r.mayEnter \/ y
         /\ UnwoundGate(r, x, y, z).poisoned <=> r.poisoned \/ z
         /\ SameCountsIn(UnwoundGate(r, x, y, z), r)
<1> DEFINE p == [r EXCEPT !.owner = IF x THEN NoTask ELSE r.owner]
           m == r.mayEnter \/ y
           q == [p EXCEPT !.mayEnter = m]
           n == r.poisoned \/ z
           l == [q EXCEPT !.poisoned = n]
<1>1. p \in GateSet /\ p.mayEnter = r.mayEnter /\ p.poisoned = r.poisoned /\ SameCountsIn(p, r)
  BY DEF GateSet, SameCountsIn
<1>2. r.mayEnter \in BOOLEAN /\ r.poisoned \in BOOLEAN
  BY DEF GateSet
<1>3. m \in BOOLEAN /\ n \in BOOLEAN
  OBVIOUS
<1>4. UnwoundGate(r, x, y, z) = l
  <2> DEFINE m2 == p.mayEnter \/ y
             q2 == [p EXCEPT !.mayEnter = m2]
             n2 == q2.poisoned \/ z
  <2>2. m2 = m
    BY <1>1, Zenon
  <2>3. q2 = q
    BY <2>2, Zenon
  <2>4. q.poisoned = p.poisoned
    BY <1>1, <1>3 DEF GateSet
  <2>5. n2 = n
    BY <1>1, <2>3, <2>4, Zenon
  <2>6. UnwoundGate(r, x, y, z) = [q2 EXCEPT !.poisoned = n2]
    BY Zenon DEF UnwoundGate
  <2> QED
    BY <2>3, <2>5, <2>6, Zenon
<1> HIDE DEF p
<1> HIDE DEF m, n
<1>5. q \in GateSet /\ q.mayEnter = m /\ SameCountsIn(q, p)
  BY <1>1, <1>3 DEF GateSet, SameCountsIn
<1> HIDE DEF q
<1>6. l \in GateSet /\ l.mayEnter = q.mayEnter /\ SameCountsIn(l, q)
  BY <1>3, <1>5 DEF GateSet, SameCountsIn
<1>7. l.poisoned = n
  BY <1>3, <1>5 DEF GateSet
<1> HIDE DEF l
<1>8. /\ UnwoundGate(r, x, y, z) \in GateSet /\ UnwoundGate(r, x, y, z).mayEnter = m
      /\ UnwoundGate(r, x, y, z).poisoned = n /\ SameCountsIn(UnwoundGate(r, x, y, z), r)
  BY <1>1, <1>4, <1>5, <1>6, <1>7 DEF SameCountsIn
<1> QED
  BY <1>8 DEF m, n

\* The record of a task after it.
LEMMA UnwoundTasks ==
  ASSUME Types, NEW g, NEW own, Unwind(g, own)
  PROVE  /\ task' \in [Tasks -> TaskRecord]
         /\ \A t \in Tasks : /\ Who(task'[t], task[t]) /\ task'[t].state = task[t].state
                             /\ task'[t].park \in {"none", task[t].park}
                             /\ t \in Reaped \ Aborted => task'[t].park = "none"
                             /\ task'[t].awaits = task[t].awaits
                             /\ t \notin Reaped \cup OnStack => task'[t] = task[t]
<1>1. task' = [t \in Tasks |->
                 IF t \in Reaped \cup OnStack
                 THEN [task[t] EXCEPT !.done = TRUE,
                                      !.park = IF t \in Reaped \ Aborted THEN "none" ELSE @]
                 ELSE task[t]]
  BY DEF Unwind
<1>2. ASSUME NEW t \in Tasks
      PROVE  /\ task'[t] \in TaskRecord /\ Who(task'[t], task[t])
             /\ task'[t].state = task[t].state /\ task'[t].park \in {"none", task[t].park}
             /\ t \in Reaped \ Aborted => task'[t].park = "none"
             /\ task'[t].awaits = task[t].awaits
             /\ t \notin Reaped \cup OnStack => task'[t] = task[t]
  <2>1. task[t] \in TaskRecord
    BY DEF Types
  <2>2. CASE t \in Reaped \cup OnStack
    <3> DEFINE q == RDone(task[t])
               p == IF t \in Reaped \ Aborted THEN "none" ELSE q.park
               r == RPark(q, p)
    <3>1. /\ q \in TaskRecord /\ Who(q, task[t]) /\ q.state = task[t].state
          /\ q.park = task[t].park /\ q.awaits = task[t].awaits
      BY <2>1, RDoneFacts
    <3>2. task'[t] = r
      BY <1>1, <2>2 DEF RDone, RPark
    <3> HIDE DEF q
    <3>3. p \in {"none", "entry", "wait", "yield", "block"} /\ p \in {"none", task[t].park}
         /\ (t \in Reaped \ Aborted => p = "none")
      BY <3>1 DEF TaskRecord
    <3> HIDE DEF p
    <3>4. r \in TaskRecord /\ Who(r, q) /\ r.state = q.state /\ r.park = p /\ r.awaits = q.awaits
      BY <3>1, <3>3, RParkFacts
    <3> HIDE DEF r
    <3> QED
      BY <2>2, <3>1, <3>2, <3>3, <3>4 DEF Who
  <2>3. CASE t \notin Reaped \cup OnStack
    BY <1>1, <2>1, <2>3 DEF Who
  <2> QED
    BY <2>2, <2>3
<1>3. task' = [t \in Tasks |-> task'[t]]
  BY <1>1
<1> QED
  BY <1>2, <1>3

\* The gates after it.
LEMMA UnwoundGates ==
  ASSUME NEW g \in [Insts -> GateSet], NEW own, Unwind(g, own)
  PROVE  /\ gate' \in [Insts -> GateSet]
         /\ \A i \in Insts :
              gate'[i].mayEnter <=> g[i].mayEnter \/ \E t \in OnStack \cup Aborted : I(t) = i
         /\ \A i \in Insts :
              /\ gate'[i].poisoned <=> g[i].poisoned \/ \E t \in Trapped(own) \cup Aborted : I(t) = i
              /\ SameCountsIn(gate'[i], g[i])
<1> DEFINE Dead(i) == \E t \in OnStack \cup Aborted : I(t) = i
           Poison(i) == \E t \in Trapped(own) \cup Aborted : I(t) = i
<1>1. gate' = [i \in Insts |-> [g[i] EXCEPT !.owner = IF Dead(i) THEN NoTask ELSE @,
                                            !.mayEnter = @ \/ Dead(i),
                                            !.poisoned = @ \/ Poison(i)]]
  BY Zenon DEF Unwind
<1>2. ASSUME NEW i \in Insts
      PROVE  /\ gate'[i] \in GateSet /\ (gate'[i].mayEnter <=> g[i].mayEnter \/ Dead(i))
             /\ (gate'[i].poisoned <=> g[i].poisoned \/ Poison(i)) /\ SameCountsIn(gate'[i], g[i])
  <2> DEFINE x == Dead(i)
             z == Poison(i)
  <2>1. x \in BOOLEAN /\ z \in BOOLEAN
    OBVIOUS
  <2>2. gate'[i] = UnwoundGate(g[i], x, x, z)
    BY <1>1, Zenon DEF UnwoundGate
  <2>3. g[i] \in GateSet
    OBVIOUS
  <2> HIDE DEF x, z
  <2>4. /\ gate'[i] \in GateSet
        /\ gate'[i].mayEnter <=> g[i].mayEnter \/ x
        /\ gate'[i].poisoned <=> g[i].poisoned \/ z
        /\ SameCountsIn(gate'[i], g[i])
    BY <2>1, <2>2, <2>3, UnwoundGateFacts
  <2> QED
    BY <2>4 DEF x, z
<1>3. gate' = [i \in Insts |-> gate'[i]]
  BY <1>1, Zenon
<1> HIDE DEF Dead, Poison
<1>4. gate' \in [Insts -> GateSet]
  BY <1>2, <1>3
<1> QED
  BY <1>2, <1>4 DEF Dead, Poison

\* No task sits down, and one that is taken away has its instance poisoned.
LEMMA UnwindCounts ==
  ASSUME Core, NEW g \in [Insts -> GateSet],
         \A i \in Insts : g[i].waiters = gate[i].waiters /\ g[i].poisoned = gate[i].poisoned,
         NEW own \in BOOLEAN, ~own => stack # <<>> /\ Top.mode # "drive", Unwind(g, own)
  PROVE  WaitersAtLeast'
<1>1. Types /\ WaitersAtLeast /\ Located /\ Once(parked)
  BY DEF Core, Located, Placed
<1>2. DOMAIN stack' = {} /\ parked' = Filtered(parked, Reaped)
  <2>1. stack' = <<>> /\ parked' = Filtered(parked, Reaped)
    BY DEF Unwind
  <2>2. DOMAIN <<>> = {}
    OBVIOUS
  <2> QED
    BY <2>1, <2>2
<1>3. \A u \in Tasks : IsParked(u)' <=> IsParked(u) /\ u \notin Reaped
  BY <1>1, <1>2, Unparks
<1>4. \A u \in Tasks : /\ Who(task'[u], task[u]) /\ task'[u].park \in {"none", task[u].park}
                       /\ task'[u].awaits = task[u].awaits
                       /\ u \notin Reaped \cup OnStack => task'[u] = task[u]
  BY <1>1, UnwoundTasks
<1>5. \A i \in Insts :
        /\ gate'[i].poisoned <=> gate[i].poisoned \/ \E t \in Trapped(own) \cup Aborted : I(t) = i
        /\ gate'[i].waiters = gate[i].waiters
  BY UnwoundGates DEF SameCountsIn
<1>6. ASSUME NEW u \in Tasks, IsWaiter(u)' PROVE IsWaiter(u) /\ I(u)' = I(u)
  <2>1. ~IsDriving(u)'
    BY <1>2 DEF IsDriving
  <2>2. IsParked(u)' /\ Sitting(task'[u])
    BY <1>6, <2>1 DEF IsWaiter, Sits
  <2>3. IsParked(u) /\ Sitting(task[u])
    BY <1>3, <1>4, <2>2 DEF Sitting
  <2> QED
    BY <1>4, <2>3 DEF IsWaiter, Sits, I, Who
<1>7. ASSUME NEW u \in Tasks, IsWaiter(u), ~IsWaiter(u)' \/ I(u)' # I(u)
      PROVE  u \in Trapped(own) \cup Aborted
  <2>1. CASE IsDriving(u)
    <3>1. PICK k \in DOMAIN stack : stack[k].task = u /\ stack[k].mode = "drive"
      BY <2>1 DEF IsDriving
    <3>2. DOMAIN stack = 1..Len(stack) /\ Len(stack) \in Nat
      BY <1>1 DEF Types
    <3>3. ~own => k # 1
      BY <1>1, <3>1, TopIs
    <3>4. k \in (IF own THEN 1 ELSE 2)..Len(stack)
      BY <3>2, <3>3
    <3> QED
      BY <3>1, <3>4 DEF Trapped
  <2>2. CASE Sits(u)
    <3>1. IsParked(u) /\ Sitting(task[u]) /\ u \notin OnStack /\ Life(u)
      BY <1>1, <2>2 DEF Sits, Located, Placed
    <3>2. CASE u \notin Reaped
      <4>1. IsParked(u)' /\ task'[u] = task[u]
        BY <1>3, <1>4, <3>1, <3>2
      <4> QED
        BY <1>7, <3>1, <4>1 DEF IsWaiter, Sits, I
    <3>3. CASE u \in Reaped
      BY <3>1, <3>3 DEF Reaped, Aborted, Life, Sitting
    <3> QED
      BY <3>2, <3>3
  <2> QED
    BY <1>7, <2>1, <2>2 DEF IsWaiter
<1> SUFFICES ASSUME NEW i \in Insts
             PROVE  /\ gate'[i].waiters >= Cardinality(SetWaiters(i)')
                    /\ ~gate'[i].poisoned => gate'[i].waiters = Cardinality(SetWaiters(i)')
  BY DEF WaitersAtLeast
<1> DEFINE S == SetWaiters(i)
           T == SetWaiters(i)'
<1>8. /\ S = {u \in Tasks : I(u) = i /\ IsWaiter(u)}
      /\ T = {u \in Tasks : I(u)' = i /\ IsWaiter(u)'}
  BY WaitersAre
<1>9. T \subseteq S /\ (~gate'[i].poisoned => T = S)
  <2>1. T \subseteq S
    BY <1>6, <1>8
  <2>2. ~gate'[i].poisoned => S \subseteq T
    BY <1>5, <1>7, <1>8
  <2> QED
    BY <2>1, <2>2
<1>10. IsFiniteSet(S)
  BY <1>1, WaitersFinite
<1>11. /\ gate[i].waiters >= Cardinality(S) /\ (~gate[i].poisoned => gate[i].waiters = Cardinality(S))
       /\ gate[i].waiters \in Int
  BY <1>1 DEF WaitersAtLeast, Types, GateSet
<1> HIDE DEF S, T
<1>12. Cardinality(T) <= Cardinality(S) /\ Cardinality(S) \in Nat /\ Cardinality(T) \in Nat
  BY <1>9, <1>10, FS_Subset, FS_CardinalityType
<1>13. gate'[i].waiters = gate[i].waiters /\ (~gate'[i].poisoned => ~gate[i].poisoned)
  BY <1>5
<1> QED
  BY <1>9, <1>11, <1>12, <1>13 DEF S, T

\* Every frame is gone, and every goroutine that was parked in a builtin.
LEMMA UnwindFine ==
  ASSUME Core, NEW g \in [Insts -> GateSet],
         \A i \in Insts : /\ g[i].mayEnter = gate[i].mayEnter
                          /\ g[i].waiters = gate[i].waiters /\ g[i].poisoned = gate[i].poisoned,
         NEW own \in BOOLEAN, ~own => stack # <<>> /\ Top.mode # "drive", Unwind(g, own)
  PROVE  Fine
<1>1. Types /\ Located /\ Names
  BY DEF Core
<1>2. /\ stack' = <<>> /\ root' = NoTask /\ sub' = sub /\ parked' = Filtered(parked, Reaped)
  BY DEF Unwind
<1>3. /\ parked' \in Seq(Tasks) /\ Once(parked')
      /\ \A u \in Tasks : IsParked(u)' <=> IsParked(u) /\ u \notin Reaped
  BY <1>1, <1>2, Unparks DEF Located, Placed
<1>4. /\ task' \in [Tasks -> TaskRecord]
      /\ \A t \in Tasks : /\ Who(task'[t], task[t]) /\ task'[t].state = task[t].state
                          /\ task'[t].park \in {"none", task[t].park}
  BY <1>1, UnwoundTasks
<1>5. /\ gate' \in [Insts -> GateSet]
      /\ \A i \in Insts :
           gate'[i].mayEnter <=> g[i].mayEnter \/ \E t \in OnStack \cup Aborted : I(t) = i
  BY UnwoundGates
<1>6. OnStack' = {} /\ Distinct' /\ stack' \in Seq(Frame) /\ DOMAIN stack' = {}
  <2>1. <<>> \in Seq(Frame) /\ DOMAIN <<>> = {}
    OBVIOUS
  <2>2. stack' \in Seq(Frame) /\ DOMAIN stack' = {}
    BY <1>2, <2>1
  <2> QED
    BY <2>2 DEF OnStack, Distinct
<1>7. Types'
  BY <1>1, <1>2, <1>3, <1>4, <1>5, <1>6 DEF Types
<1>8. Exclusivity'
  <2>1. ASSUME NEW u \in Tasks PROVE ~HasFrames(u)'
    <3>1. IsParked(u)' => IsParked(u) /\ u \notin Reaped
      BY <1>3
    <3>2. task'[u].park = "block" => task[u].park = "block"
      BY <1>4
    <3> QED
      BY <1>6, <3>1, <3>2 DEF HasFrames, Reaped
  <2> QED
    BY <2>1 DEF Exclusivity
<1>9. EntryIsRefusedWhileRunning'
  <2>1. ASSUME NEW i \in Insts PROVE gate'[i].mayEnter
    <3>1. CASE g[i].mayEnter
      BY <1>5, <3>1
    <3>2. CASE ~g[i].mayEnter
      <4>1. \E t \in OnStack : I(t) = i
        BY <1>1, <3>2 DEF Located, EntryIsRefusedWhileRunning
      <4> QED
        BY <1>5, <4>1
    <3> QED
      BY <3>1, <3>2
  <2> QED
    BY <1>6, <2>1 DEF EntryIsRefusedWhileRunning
<1>10. ASSUME NEW u \in Tasks PROVE Life(u)'
  <2>1. Life(u) /\ task[u] \in TaskRecord
    BY <1>1 DEF Located, Types
  <2>2. /\ task'[u].inst = task[u].inst /\ task'[u].shape = task[u].shape
        /\ task'[u].caller = task[u].caller /\ task'[u].state = task[u].state
        /\ task'[u].park \in {"none", task[u].park}
    BY <1>4 DEF Who
  <2>3. task[u].caller # NoTask => task'[task[u].caller].state = task[task[u].caller].state
    BY <1>4, <2>1 DEF TaskRecord
  <2>4. u \notin OnStack' /\ (IsParked(u)' => IsParked(u))
    BY <1>3, <1>6
  <2> QED
    BY <2>1, <2>2, <2>3, <2>4 DEF Life
<1>11. Placed'
  BY <1>3, <1>6 DEF Placed
<1>12. Names'
  BY <1>6 DEF Names
<1>13. \A d \in Tasks : SubStep(d)
  BY <1>2, <1>4, Untouched DEF GoesOn, Who
<1>14. WaitersAtLeast'
  BY UnwindCounts
<1> QED
  BY <1>7, <1>8, <1>9, <1>10, <1>11, <1>12, <1>13, <1>14 DEF Fine, Located

\* backpressure.inc and .dec
LEMMA BackpressureFine ==
  ASSUME Core, NEW t, NEW d \in {1, -1}, Backpressure(t, d)
  PROVE  Fine
<1>1. /\ Types /\ stack # <<>> /\ Top.task = t
      /\ gate[I(t)].backpressure \in 0..(BackpressureLimit - 1)
  BY DEF Core, Backpressure, Runs
<1>2. t \in Tasks /\ I(t) \in Insts /\ gate \in [Insts -> GateSet] /\ gate[I(t)] \in GateSet
  BY <1>1, Runner DEF Types
<1> DEFINE n == gate[I(t)].backpressure + d
           g == [gate EXCEPT ![I(t)].backpressure = n]
<1>3. g[I(t)].backpressure = n /\ n \in -1..BackpressureLimit
  BY <1>1, <1>2, TasksAssumption DEF GateSet
<1>4. \/ n \in 0..(BackpressureLimit - 1) /\ gate' = g
         /\ UNCHANGED <<task, sub, parked, stack, root>>
      \/ Unwind(g, TRUE)
  BY <1>3 DEF Backpressure
<1> HIDE DEF n
<1>5. CASE n \in 0..(BackpressureLimit - 1) /\ gate' = g
           /\ UNCHANGED <<task, sub, parked, stack, root>>
  BY <1>2, <1>5, CountedFine
<1>6. CASE Unwind(g, TRUE)
  <2>1. /\ g[I(t)] = [gate[I(t)] EXCEPT !.backpressure = n]
        /\ \A j \in Insts \ {I(t)} : g[j] = gate[j]
        /\ g = [j \in Insts |-> g[j]]
    BY <1>2
  <2> HIDE DEF g
  <2>2. g[I(t)] \in GateSet
    BY <1>2, <1>3, <2>1 DEF GateSet
  <2>3. /\ g[I(t)].mayEnter = gate[I(t)].mayEnter
        /\ g[I(t)].waiters = gate[I(t)].waiters /\ g[I(t)].poisoned = gate[I(t)].poisoned
    BY <1>2, <2>1 DEF GateSet
  <2>4. /\ g \in [Insts -> GateSet]
        /\ \A i \in Insts : /\ g[i].mayEnter = gate[i].mayEnter
                             /\ g[i].waiters = gate[i].waiters /\ g[i].poisoned = gate[i].poisoned
    BY <1>2, <2>1, <2>2, <2>3
  <2> QED
    BY <1>6, <2>4, UnwindFine
<1> QED
  BY <1>4, <1>5, <1>6

\* A trap, a task that fails, and a deadlock
LEMMA TrapFine ==
  ASSUME Core, GuestTrap \/ TaskFails \/ Deadlock
  PROVE  Fine
<1>1. \E own \in BOOLEAN : Unwind(gate, own) /\ (~own => stack # <<>> /\ Top.mode # "drive")
  BY DEF GuestTrap, TaskFails, Deadlock
<1>2. gate \in [Insts -> GateSet]
  BY DEF Core, Types
<1> QED
  BY <1>1, <1>2, UnwindFine

-----------------------------------------------------------------------------
(* Every step, and the theorems.                                           *)

\* Every action keeps the invariant and moves each subtask as it may.
LEMMA NextFine ==
  ASSUME Core, Next
  PROVE  Fine
<1>1. CASE \E t \in Tasks, i \in Insts, s \in Shapes : Call(t, i, s)
  BY <1>1, CallFine
<1>2. CASE \E c \in Tasks, i \in Insts, s \in Shapes : CallExport(Baton, c, i, s)
  BY <1>2, CallExportFine
<1>3. CASE TaskReturn(Baton) \/ TaskCancel(Baton)
  <2>1. /\ Runs(Baton) /\ task[Baton].state # "resolved"
        /\ task' = WithState(task, Baton, "resolved") /\ UNCHANGED <<gate, parked, stack, root>>
        /\ \E how \in {"returned", "cancelled"} : sub' = Resolve(sub, Baton, how)
    BY <1>3 DEF TaskReturn, TaskCancel, WithState
  <2>2. Baton \in Tasks
    BY <2>1, Runner DEF Runs
  <2> QED
    BY <2>1, <2>2, ResolveFine
<1>4. CASE Exit(Baton)
  BY <1>4, ExitFine
<1>5. CASE \E p \in {"wait", "yield"} : CallbackParks(Baton, p)
  BY <1>5, CallbackParksFine
<1>6. CASE WaitIsCancelled(Baton)
  BY <1>6, WaitIsCancelledFine
<1>7. CASE \E b \in BOOLEAN : WaitBlocks(Baton, b) \/ WaitDrives(Baton, b)
  BY <1>7, WaitBlocksFine, WaitDrivesFine
<1>8. CASE WaitReturns(Baton)
  BY <1>8, WaitReturnsFine
<1>9. CASE Poll(Baton)
  BY <1>9, PollFine
<1>10. CASE Backpressure(Baton, 1) \/ Backpressure(Baton, -1)
  <2>1. \E d \in {1, -1} : Backpressure(Baton, d)
    BY <1>10
  <2> QED
    BY <2>1, BackpressureFine
<1>11. CASE CancelContinues(Baton)
  BY <1>11, CancelContinuesFine
<1>12. CASE CancelReturns(Baton)
  BY <1>12, CancelReturnsFine
<1>13. ASSUME NEW c \in Tasks,
              \/ Join(Baton, c) \/ SubtaskDrop(Baton, c)
              \/ CancelResolved(Baton, c) \/ CancelAtEntry(Baton, c)
              \/ CancelStale(Baton, c)
              \/ \E async \in BOOLEAN : CancelResumes(Baton, c, async)
                                        \/ CancelPends(Baton, c, async)
       PROVE  Fine
  BY <1>13, JoinFine, SubtaskDropFine, CancelResolvedFine, CancelAtEntryFine, CancelStaleFine,
     CancelResumesFine, CancelPendsFine
<1>14. CASE Step
  BY <1>14, StepFine
<1>15. CASE CallReturns
  BY <1>15, CallReturnsFine
<1>16. CASE GuestTrap \/ TaskFails \/ Deadlock
  BY <1>16, TrapFine
<1> QED
  BY <1>1, <1>2, <1>3, <1>4, <1>5, <1>6, <1>7, <1>8, <1>9, <1>10, <1>11, <1>12, <1>13, <1>14,
     <1>15, <1>16 DEF Next

\* The invariant is inductive, and with it a subtask only advances.
LEMMA CoreStep ==
  ASSUME Core, [Next]_taskVars
  PROVE  Core' /\ \A c \in Tasks : Advances(c)
<1>1. CASE Next
  BY <1>1, NextFine, FineIsEnough
<1>2. CASE UNCHANGED taskVars
  <2>1. /\ task' = task /\ gate' = gate /\ sub' = sub /\ parked' = parked /\ stack' = stack
        /\ root' = root
    BY <1>2 DEF taskVars
  <2>2. Types'
    BY <2>1 DEF Core, Types
  <2>3. Located'
    BY <2>1 DEF Core, Located, Placed, Distinct, Exclusivity, EntryIsRefusedWhileRunning, Life,
                HasFrames, IsParked, OnStack, I
  <2>4. Names'
    BY <2>1 DEF Core, Names, Knows
  <2>5. \A c \in Tasks : Follows(c)' /\ Advances(c)
    BY <2>1 DEF Core, Follows, Resolved, Advances
  <2>6. WaitersAtLeast'
    BY <2>1 DEF Core, WaitersAtLeast, SetWaiters, IsParked, I
  <2> QED
    BY <2>2, <2>3, <2>4, <2>5, <2>6 DEF Core
<1> QED
  BY <1>1, <1>2

\* Nothing has been started.
LEMMA CoreInit ==
  ASSUME Init
  PROVE  Core
<1>1. /\ \A t \in Tasks : /\ task[t].inst = NoInst /\ task[t].state = "fresh"
                          /\ task[t].park = "none" /\ task[t].caller = NoTask
      /\ task \in [Tasks -> TaskRecord]
  BY DEF Init, TaskRecord
<1>2. \A i \in Insts : gate[i].owner = NoTask /\ gate[i].mayEnter /\ gate[i].waiters = 0
  BY DEF Init
<1>3. gate \in [Insts -> GateSet]
  BY TasksAssumption DEF Init, GateSet
<1>4. NoSubtask \in SubRecord
  BY DEF NoSubtask, SubRecord
<1>5. sub \in [Tasks -> SubRecord] /\ \A t \in Tasks : sub[t] = NoSubtask
  BY <1>4 DEF Init
<1>6. /\ parked \in Seq(Tasks) /\ DOMAIN parked = {} /\ stack \in Seq(Frame)
      /\ DOMAIN stack = {} /\ root = NoTask
  BY DEF Init
<1>7. Types
  BY <1>1, <1>3, <1>5, <1>6 DEF Types
<1>8. OnStack = {} /\ \A t \in Tasks : ~IsParked(t)
  BY <1>6 DEF OnStack, IsParked
<1>9. Located
  BY <1>1, <1>2, <1>6, <1>8
     DEF Located, Placed, Once, Distinct, Exclusivity, HasFrames, EntryIsRefusedWhileRunning, Life
<1>10. Names
  BY <1>6 DEF Names
<1>11. \A c \in Tasks : Follows(c)
  BY <1>1, <1>5 DEF Follows, Resolved, NoSubtask
<1>12. WaitersAtLeast
  <2>1. \A i : SetWaiters(i) = {}
    BY <1>6, <1>8 DEF SetWaiters
  <2> QED
    BY <1>2, <2>1, FS_EmptySet DEF WaitersAtLeast
<1> QED
  BY <1>7, <1>9, <1>10, <1>11, <1>12 DEF Core

-----------------------------------------------------------------------------
(* The entry gate: its counters, and the order in which tasks enter.       *)

AtEntry(t) == IsParked(t) /\ task[t].park = "entry"

\* Whoever may still enter is parked, has entered, or its instance is dead.
EntryPark(t) ==
  /\ IsParked(t) => task[t].park # "none"
  /\ task[t].park = "entry" /\ task[t].state # "resolved" =>
       IsParked(t) \/ t \in OnStack \/ gate[I(t)].poisoned

\* What the gate's counters need to stay right.
Entries == EntryCountersHold /\ \A t \in Tasks : EntryPark(t)

\* What a step says of EntryInOrder.
InOrder(t) ==
  task[t].state # "started" /\ task'[t].state = "started" =>
    \A u \in ParkedAtEntry(task'[t].inst) :
      u = t \/ \E j, k \in DOMAIN parked : j < k /\ parked[j] = t /\ parked[k] = u

NoneEnters == \A t \in Tasks : task'[t].state = "started" => task[t].state = "started"

\* A task that stays where it is, and one that is not waiting to enter.
Unmoved(t) ==
  /\ task'[t].inst = task[t].inst /\ task'[t].park = task[t].park
  /\ task[t].state = "resolved" => task'[t].state = "resolved"
  /\ IsParked(t)' <=> IsParked(t)
  /\ t \in OnStack => t \in OnStack'
Elsewhere(t) ==
  \/ t \in OnStack'
  \/ task'[t].state = "resolved" /\ ~IsParked(t)'
  \/ task'[t].park \notin {"entry", "none"}

\* The counters stay.
KeepsCounters(g, h) ==
  \A i \in Insts : /\ h[i].waiting = g[i].waiting /\ h[i].backpressure = g[i].backpressure
                   /\ h[i].poisoned = g[i].poisoned
SameCounters == KeepsCounters(gate, gate')

\* There are finitely many tasks parked at entry.
LEMMA EntryFinite ==
  ASSUME Types, NEW i
  PROVE  IsFiniteSet(ParkedAtEntry(i)) /\ Cardinality(ParkedAtEntry(i)) \in Nat
<1> DEFINE P == {parked[k] : k \in DOMAIN parked}
<1>1. DOMAIN parked = 1..Len(parked) /\ Len(parked) \in Nat
  BY DEF Types
<1>2. IsFiniteSet(DOMAIN parked)
  BY <1>1, FS_Interval
<1>3. parked \in Surjection(DOMAIN parked, P)
  BY DEF Types, Surjection
<1>4. IsFiniteSet(P)
  BY <1>2, <1>3, FS_Surjection
<1>5. ParkedAtEntry(i) \subseteq P
  BY DEF ParkedAtEntry, IsParked
<1>6. IsFiniteSet(ParkedAtEntry(i))
  BY <1>4, <1>5, FS_Subset
<1> QED
  BY <1>6, FS_CardinalityType

LEMMA EntriesAre ==
  /\ \A i : ParkedAtEntry(i) = {t \in Tasks : AtEntry(t) /\ task[t].inst = i}
  /\ \A i : ParkedAtEntry(i)' = {t \in Tasks : AtEntry(t)' /\ task'[t].inst = i}
BY DEF ParkedAtEntry, AtEntry, I

\* The three ways in which the count follows the tasks.
LEMMA CountCovers ==
  ASSUME NEW S, IsFiniteSet(S), NEW T, NEW n \in Int, n >= Cardinality(S)
  PROVE  /\ T \subseteq S => n >= Cardinality(T)
         /\ \A c : c \in S /\ T \subseteq S \ {c} => n - 1 >= Cardinality(T)
         /\ \A c : T \subseteq S \cup {c} => n + 1 >= Cardinality(T)
<1>1. Cardinality(S) \in Nat
  BY FS_CardinalityType
<1>2. ASSUME T \subseteq S PROVE n >= Cardinality(T)
  <2>1. IsFiniteSet(T) /\ Cardinality(T) <= Cardinality(S)
    BY <1>2, FS_Subset
  <2>2. Cardinality(T) \in Nat
    BY <2>1, FS_CardinalityType
  <2> QED
    BY <1>1, <2>1, <2>2
<1>3. ASSUME NEW c \in S, T \subseteq S \ {c} PROVE n - 1 >= Cardinality(T)
  <2>1. IsFiniteSet(S \ {c}) /\ Cardinality(S \ {c}) = Cardinality(S) - 1
    BY FS_RemoveElement
  <2>2. IsFiniteSet(T) /\ Cardinality(T) <= Cardinality(S \ {c})
    BY <1>3, <2>1, FS_Subset
  <2>3. Cardinality(T) \in Nat
    BY <2>2, FS_CardinalityType
  <2> QED
    BY <1>1, <2>1, <2>2, <2>3
<1>4. ASSUME NEW c, T \subseteq S \cup {c} PROVE n + 1 >= Cardinality(T)
  <2>1. IsFiniteSet(S \cup {c}) /\ Cardinality(S \cup {c}) \in {Cardinality(S), Cardinality(S) + 1}
    BY FS_AddElement
  <2>2. IsFiniteSet(T) /\ Cardinality(T) <= Cardinality(S \cup {c})
    BY <1>4, <2>1, FS_Subset
  <2>3. Cardinality(T) \in Nat
    BY <2>2, FS_CardinalityType
  <2> QED
    BY <1>1, <2>1, <2>2, <2>3
<1> QED
  BY <1>2, <1>3, <1>4

\* Whoever is parked at entry after a step was so before.
LEMMA EntryPlaces ==
  ASSUME Core', NEW t \in Tasks
  PROVE  /\ Elsewhere(t) => ~AtEntry(t)'
         /\ Unmoved(t) /\ AtEntry(t)' => AtEntry(t) /\ task'[t].inst = task[t].inst
<1>1. Life(t)' /\ Placed'
  BY DEF Core, Located
<1>2. Elsewhere(t) => ~AtEntry(t)'
  BY <1>1 DEF Elsewhere, AtEntry, Life, Placed
<1> QED
  BY <1>2 DEF Unmoved, AtEntry

\* It is still parked, on the stack, or its instance is dead.
LEMMA EntryParkStays ==
  ASSUME Core, Core', NEW t \in Tasks, EntryPark(t), Unmoved(t) \/ Elsewhere(t),
         \A i \in Insts : gate[i].poisoned => gate'[i].poisoned
  PROVE  EntryPark(t)'
<1>1. CASE Elsewhere(t)
  BY <1>1 DEF Elsewhere, EntryPark, Core, Located, Placed
<1>2. CASE Unmoved(t) /\ task[t].park = "entry"
  <2>1. task[t].state # "fresh" /\ I(t) \in Insts
    <3>1. Life(t)
      BY DEF Core, Located
    <3> QED
      BY <1>2, <3>1, Somewhere DEF Core, Life
  <2> QED
    BY <1>2, <2>1 DEF EntryPark, Unmoved, I
<1>3. CASE Unmoved(t) /\ task[t].park # "entry"
  BY <1>3 DEF EntryPark, Unmoved
<1> QED
  BY <1>1, <1>2, <1>3

\* A step in which nobody begins to wait.
LEMMA EntriesMove ==
  ASSUME Core, Core', Entries, SameCounters,
         \A t \in Tasks : Unmoved(t) \/ Elsewhere(t)
  PROVE  Entries'
<1>1. Types
  BY DEF Core
<1>2. \A t \in Tasks : EntryPark(t)'
  BY EntryParkStays DEF Entries, SameCounters, KeepsCounters
<1>3. ASSUME NEW i \in Insts, ~gate'[i].poisoned
      PROVE  gate'[i].waiting >= Cardinality(ParkedAtEntry(i))'
  <2>1. ParkedAtEntry(i)' \subseteq ParkedAtEntry(i)
    BY EntriesAre, EntryPlaces
  <2>2. gate[i].waiting \in Int /\ gate[i].waiting >= Cardinality(ParkedAtEntry(i))
    BY <1>1, <1>3 DEF Entries, EntryCountersHold, SameCounters, KeepsCounters, Types, GateSet
  <2>3. gate[i].waiting >= Cardinality(ParkedAtEntry(i)')
    BY <1>1, <2>1, <2>2, EntryFinite, CountCovers
  <2> QED
    BY <2>3 DEF SameCounters, KeepsCounters
<1>4. EntryCountersHold'
  BY <1>3 DEF EntryCountersHold, Entries, SameCounters, KeepsCounters
<1> QED
  BY <1>2, <1>4 DEF Entries

\* A step in which nobody enters either.
LEMMA EntriesKept ==
  ASSUME Core, Core', Entries, SameCounters, NoneEnters,
         \A t \in Tasks : Unmoved(t) \/ Elsewhere(t)
  PROVE  Entries' /\ \A t \in Tasks : InOrder(t)
BY EntriesMove DEF NoneEnters, InOrder

\* One task begins to wait, or one stops.
LEMMA EntriesTurn ==
  ASSUME Core, Core', EntryCountersHold, NEW c \in Tasks, task'[c].inst \in Insts,
         NEW o, NEW m, NEW a \in {1, -1}, NEW b, Turned(gate, gate', task'[c].inst, o, m, a, b),
         \A t \in Tasks \ {c} : Unmoved(t) \/ Elsewhere(t),
         ~gate[task'[c].inst].poisoned /\ a = -1 =>
           AtEntry(c) /\ task[c].inst = task'[c].inst /\ Elsewhere(c)
  PROVE  EntryCountersHold'
<1>0. PICK i \in Insts : task'[c].inst = i
  OBVIOUS
<1>1. Types
  BY DEF Core
<1>2. ASSUME NEW j \in Insts, ~gate'[j].poisoned
      PROVE  gate'[j].waiting >= Cardinality(ParkedAtEntry(j))'
  <2>1. gate[j].waiting \in Int /\ gate[j].waiting >= Cardinality(ParkedAtEntry(j))
    BY <1>0, <1>1, <1>2 DEF EntryCountersHold, Turned, Types, GateSet
  <2>2. IsFiniteSet(ParkedAtEntry(j))
    BY <1>1, EntryFinite
  <2>3. CASE j # i
    <3>1. ParkedAtEntry(j)' \subseteq ParkedAtEntry(j)
      BY <1>0, <2>3, EntriesAre, EntryPlaces
    <3>2. gate[j].waiting >= Cardinality(ParkedAtEntry(j)')
      BY <2>1, <2>2, <3>1, CountCovers
    <3> QED
      BY <1>0, <2>3, <3>2 DEF Turned
  <2>4. CASE j = i /\ a = 1
    <3>1. ParkedAtEntry(j)' \subseteq ParkedAtEntry(j) \cup {c}
      BY EntriesAre, EntryPlaces
    <3>2. gate[j].waiting + 1 >= Cardinality(ParkedAtEntry(j)')
      BY <2>1, <2>2, <3>1, CountCovers
    <3> QED
      BY <1>0, <2>1, <2>4, <3>2 DEF Turned
  <2>5. CASE j = i /\ a = -1
    <3>1. AtEntry(c) /\ task[c].inst = i /\ Elsewhere(c)
      BY <1>0, <1>2, <2>5 DEF Turned
    <3>2. c \in ParkedAtEntry(j) /\ ParkedAtEntry(j)' \subseteq ParkedAtEntry(j) \ {c}
      BY <2>5, <3>1, EntriesAre, EntryPlaces
    <3>3. gate[j].waiting - 1 >= Cardinality(ParkedAtEntry(j)')
      BY <2>1, <2>2, <3>2, CountCovers
    <3> QED
      BY <1>0, <2>1, <2>5, <3>3 DEF Turned
  <2> QED
    BY <2>3, <2>4, <2>5
<1>3. \A j \in Insts : gate'[j].backpressure = gate[j].backpressure
                       /\ gate'[j].poisoned = gate[j].poisoned
  BY DEF Turned
<1> QED
  BY <1>2, <1>3 DEF EntryCountersHold

\* The counters are kept by what does not count tasks that wait to enter.
LEMMA TurnedCounters ==
  ASSUME NEW g \in [Insts -> GateSet], NEW h, NEW i \in Insts, NEW o, NEW m, NEW b,
         Turned(g, h, i, o, m, 0, b)
  PROVE  h \in [Insts -> GateSet] /\ KeepsCounters(g, h)
<1>1. g[i].waiting \in Int
  BY DEF GateSet
<1>2. h[i].waiting = g[i].waiting
  BY <1>1 DEF Turned
<1> QED
  BY <1>2 DEF Turned, KeepsCounters

\* So do all but a change of them.
LEMMA GateCounters ==
  ASSUME NEW g \in [Insts -> GateSet], NEW i \in Insts
  PROVE  /\ LeaveRun(g, i) \in [Insts -> GateSet] /\ KeepsCounters(g, LeaveRun(g, i))
         /\ SuspendRun(g, i) \in [Insts -> GateSet] /\ KeepsCounters(g, SuspendRun(g, i))
         /\ Waits(g, i) \in [Insts -> GateSet] /\ KeepsCounters(g, Waits(g, i))
         /\ Unwaits(g, i) \in [Insts -> GateSet] /\ KeepsCounters(g, Unwaits(g, i))
         /\ \A t \in Tasks : I(t) = i =>
              EnterRun(g, t) \in [Insts -> GateSet] /\ KeepsCounters(g, EnterRun(g, t))
<1>1. LeaveRun(g, i) \in [Insts -> GateSet] /\ KeepsCounters(g, LeaveRun(g, i))
  BY RunTurns, TurnedCounters
<1>2. SuspendRun(g, i) \in [Insts -> GateSet] /\ KeepsCounters(g, SuspendRun(g, i))
  BY SuspendTurns, TurnedCounters
<1>3. Waits(g, i) \in [Insts -> GateSet] /\ KeepsCounters(g, Waits(g, i))
  BY WaitsTurns, TurnedCounters DEF Counted
<1>4. Unwaits(g, i) \in [Insts -> GateSet] /\ KeepsCounters(g, Unwaits(g, i))
  BY UnwaitsTurns, TurnedCounters DEF Counted
<1>5. ASSUME NEW t \in Tasks, I(t) = i
      PROVE  EnterRun(g, t) \in [Insts -> GateSet] /\ KeepsCounters(g, EnterRun(g, t))
  BY <1>5, RunTurns, TurnedCounters
<1> QED
  BY <1>1, <1>2, <1>3, <1>4, <1>5

\* The running task stays on the stack and all the others where they are.
LEMMA EntriesStill ==
  ASSUME Core, Core', Entries, SameCounters, NEW t \in Tasks, OnStack' = OnStack,
         parked' = parked,
         \A u \in Tasks : /\ task'[u].inst = task[u].inst /\ task'[u].park = task[u].park
                          /\ task[u].state = "resolved" => task'[u].state = "resolved"
                          /\ task'[u].state = "started" => task[u].state = "started"
  PROVE  Entries' /\ \A u \in Tasks : InOrder(u)
<1>1. \A u \in Tasks : Unmoved(u)
  BY DEF Unmoved, IsParked
<1> QED
  BY <1>1, EntriesKept DEF NoneEnters

\* task.return, task.cancel, waitable-set.wait of a cancelled task
LEMMA StateEntries ==
  ASSUME Core, Core', Entries, NEW t \in Tasks, NEW x \in {"delivered", "resolved"},
         task[t].state # "resolved" \/ x = "resolved",
         task' = WithState(task, t, x), UNCHANGED <<gate, parked, stack>>
  PROVE  Entries' /\ \A u \in Tasks : InOrder(u)
<1>1. task \in [Tasks -> TaskRecord]
  BY DEF Core, Types
<1>2. /\ \A u \in Tasks \ {t} : task'[u] = task[u]
      /\ task'[t].state = x /\ task'[t].inst = task[t].inst /\ task'[t].park = task[t].park
  BY <1>1, StateChanges
<1>3. SameCounters /\ OnStack' = OnStack
  BY DEF SameCounters, KeepsCounters, OnStack
<1> QED
  BY <1>2, <1>3, EntriesStill

\* What only concerns subtasks, or only the frame on top.
LEMMA QuietEntries ==
  ASSUME Core, Core', Entries, SameCounters, SameFrames(stack'),
         task' = task, parked' = parked
  PROVE  Entries' /\ \A u \in Tasks : InOrder(u)
<1>1. Types /\ Distinct
  BY DEF Core, Located, Placed
<1>2. OnStack' = OnStack
  BY <1>1, StackStays
<1>3. \A u \in Tasks : Unmoved(u)
  BY <1>2 DEF Unmoved, IsParked
<1> QED
  BY <1>3, EntriesKept DEF NoneEnters

\* waitable-set.wait of a callback, and the drive that ends
LEMMA DriveEntries ==
  ASSUME Core, Core', Entries, NEW t, NEW b \in BOOLEAN, WaitDrives(t, b) \/ WaitReturns(t)
  PROVE  Entries' /\ \A u \in Tasks : InOrder(u)
<1>1. Types /\ Distinct /\ stack # <<>> /\ Top.task = t /\ parked' = parked
  BY DEF Core, Located, Placed, WaitDrives, WaitReturns, MayWait, Runs
<1>2. t \in Tasks /\ I(t) \in Insts /\ Top \in Frame /\ gate \in [Insts -> GateSet]
  BY <1>1, Runner DEF Types
<1>3. SameCounters
  <2>1. gate' = Waits(gate, I(t)) \/ gate' = Unwaits(gate, I(t))
    BY DEF WaitDrives, WaitReturns
  <2> QED
    BY <1>2, <2>1, GateCounters DEF SameCounters
<1>4. SameFrames(stack')
  <2>1. CASE WaitDrives(t, b)
    <3>1. Marks(stack', "drive", Top.on, b) /\ Top.on \in Tasks \cup {NoTask}
      BY <1>2, <2>1 DEF WaitDrives, Marks, Frame
    <3> QED
      BY <1>1, <3>1, TopMarked
  <2>2. CASE WaitReturns(t)
    BY <1>1, <2>2, RunsAgain DEF WaitReturns
  <2> QED
    BY <2>1, <2>2
<1>5. CASE task' = task
  BY <1>1, <1>3, <1>4, <1>5, QuietEntries
<1>6. CASE task' # task
  <2>1. task[t].state = "pending" /\ task' = WithState(task, t, "delivered")
    BY <1>6 DEF WaitDrives, WaitReturns, WithState
  <2>2. task \in [Tasks -> TaskRecord]
    BY <1>1 DEF Types
  <2>3. /\ \A u \in Tasks \ {t} : task'[u] = task[u]
        /\ task'[t].state = "delivered" /\ task'[t].inst = task[t].inst
        /\ task'[t].park = task[t].park
    BY <1>2, <2>1, <2>2, StateChanges
  <2>4. OnStack' = OnStack
    BY <1>1, <1>4, StackStays
  <2> QED
    BY <1>1, <1>2, <1>3, <2>1, <2>3, <2>4, EntriesStill
<1> QED
  BY <1>5, <1>6

\* t gives the baton back: it has resolved, or it parks elsewhere.
LEMMA PopEntries ==
  ASSUME Core, Core', Entries, SameCounters, NoneEnters, NEW t \in Tasks, stack # <<>>, Top.task = t,
         stack' = Tail(stack),
         \A u \in Tasks \ {t} :
           /\ task'[u].inst = task[u].inst /\ task'[u].park = task[u].park
           /\ task[u].state = "resolved" => task'[u].state = "resolved",
         \/ parked' = parked /\ task'[t].state = "resolved"
         \/ parked' = Append(parked, t) /\ task'[t].park \notin {"entry", "none"}
  PROVE  Entries' /\ \A u \in Tasks : InOrder(u)
<1>1. Types /\ Distinct /\ Once(parked) /\ ~IsParked(t)
  BY Runner DEF Core, Located, Placed
<1>2. OnStack' = OnStack \ {t}
  BY <1>1, StackPop
<1>3. (\A u \in Tasks \ {t} : IsParked(u)' <=> IsParked(u)) /\ Elsewhere(t)
  <2>1. CASE parked' = parked /\ task'[t].state = "resolved"
    BY <1>1, <2>1 DEF IsParked, Elsewhere
  <2>2. CASE parked' = Append(parked, t) /\ task'[t].park \notin {"entry", "none"}
    BY <1>1, <2>2, Parks DEF Elsewhere
  <2> QED
    BY <2>1, <2>2
<1>4. \A u \in Tasks \ {t} : Unmoved(u)
  BY <1>2, <1>3 DEF Unmoved
<1> QED
  BY <1>3, <1>4, EntriesKept

\* EXIT, WAIT and YIELD, and a wait that blocks
LEMMA LeaveEntries ==
  ASSUME Core, Core', Entries, NEW t,
         Exit(t) \/ (\E p \in {"wait", "yield"} : CallbackParks(t, p))
                 \/ (\E b \in BOOLEAN : WaitBlocks(t, b))
  PROVE  Entries' /\ \A u \in Tasks : InOrder(u)
<1>1. Types /\ stack # <<>> /\ Top.task = t /\ stack' = Tail(stack)
  BY DEF Core, Exit, CallbackParks, WaitBlocks, MayWait, Runs, Pop
<1>2. t \in Tasks /\ I(t) \in Insts /\ task \in [Tasks -> TaskRecord] /\ gate \in [Insts -> GateSet]
      /\ task[t] \in TaskRecord
  BY <1>1, Runner DEF Types
<1>4. \A u \in Tasks \ {t} : task'[u] = task[u]
  BY <1>2 DEF Exit, CallbackParks, WaitBlocks, Block
<1>5. /\ task'[t].state = task[t].state
      /\ \/ parked' = parked /\ task'[t].state = "resolved"
         \/ parked' = Append(parked, t) /\ task'[t].park \notin {"entry", "none"}
  <2>1. CASE Exit(t)
    <3>1. task'[t] = RDone(task[t]) /\ task[t].state = "resolved" /\ parked' = parked
      BY <1>2, <2>1 DEF Exit, RDone
    <3> QED
      BY <1>2, <3>1, RDoneFacts
  <2>2. ASSUME NEW p \in {"wait", "yield"}, CallbackParks(t, p)
      PROVE  task'[t].state = task[t].state /\ task'[t].park = p
    <3>1. task'[t] = RCancellable(RPark(task[t], p), TRUE)
      BY <1>2, <2>2 DEF CallbackParks, RPark, RCancellable
    <3>2. RPark(task[t], p) \in TaskRecord /\ RPark(task[t], p).state = task[t].state
          /\ RPark(task[t], p).park = p
      BY <1>2, RParkFacts
    <3>3. task'[t].state = RPark(task[t], p).state /\ task'[t].park = RPark(task[t], p).park
      BY <3>1, <3>2, RCancellableFacts
    <3> QED
      BY <3>2, <3>3
  <2>3. ASSUME NEW b \in BOOLEAN, WaitBlocks(t, b)
      PROVE  task'[t].state = task[t].state /\ task'[t].park = "block"
    <3>1. task'[t] = RCancellable(RAwaits(RPark(task[t], "block"), "set"), b)
      BY <1>2, <2>3 DEF WaitBlocks, Block, RPark, RAwaits, RCancellable
    <3> QED
      BY <1>2, <3>1 DEF RPark, RAwaits, RCancellable, TaskRecord
  <2> QED
    BY <2>1, <2>2, <2>3 DEF CallbackParks, WaitBlocks, Block
<1>6. SameCounters
  <2>1. \E g \in [Insts -> GateSet] :
          /\ KeepsCounters(gate, g)
          /\ gate' = LeaveRun(g, I(t)) \/ gate' = SuspendRun(g, I(t))
    <3>1. \E g \in {gate, Waits(gate, I(t))} :
            gate' = LeaveRun(g, I(t)) \/ gate' = SuspendRun(g, I(t))
      BY DEF Exit, CallbackParks, WaitBlocks, Block
    <3> QED
      BY <1>2, <3>1, GateCounters DEF KeepsCounters
  <2>2. PICK g \in [Insts -> GateSet] :
          /\ KeepsCounters(gate, g)
          /\ gate' = LeaveRun(g, I(t)) \/ gate' = SuspendRun(g, I(t))
    BY <2>1
  <2>3. KeepsCounters(g, gate')
    BY <1>2, <2>2, GateCounters
  <2> QED
    BY <2>2, <2>3 DEF SameCounters, KeepsCounters
<1>7. NoneEnters
  BY <1>4, <1>5 DEF NoneEnters
<1> QED
  BY <1>1, <1>2, <1>4, <1>5, <1>6, <1>7, PopEntries

\* No other task than c enters.
LEMMA OneEnters ==
  ASSUME NEW c \in Tasks, \A u \in Tasks \ {c} : task'[u] = task[u], NEW u \in Tasks, u # c
  PROVE  InOrder(u)
BY DEF InOrder

\* c enters an instance that nobody waits to enter.
LEMMA NobodyWaits ==
  ASSUME Core, Entries, NEW i \in Insts, ~gate[i].poisoned, gate[i].waiting = 0
  PROVE  ParkedAtEntry(i) = {}
<1>1. 0 >= Cardinality(ParkedAtEntry(i))
  BY DEF Entries, EntryCountersHold
<1>2. IsFiniteSet(ParkedAtEntry(i)) /\ Cardinality(ParkedAtEntry(i)) \in Nat
  BY EntryFinite DEF Core
<1> QED
  BY <1>1, <1>2, FS_EmptySet

\* start, and the first segment runs
LEMMA StartsEntries ==
  ASSUME Core, Core', Entries, NEW c \in Tasks, NEW i \in Insts, NEW s, NEW caller,
         Starts(c, i, s, caller)
  PROVE  Entries' /\ \A u \in Tasks : InOrder(u)
<1>1. /\ task[c].state = "fresh" /\ ~gate[i].poisoned /\ gate[i].waiting = 0
      /\ gate' = [gate EXCEPT ![i].owner = c, ![i].mayEnter = FALSE]
      /\ stack' = <<Running(c, "start")>> \o stack /\ parked' = parked
      /\ \A u \in Tasks \ {c} : task'[u] = task[u]
  BY DEF Starts, CanStart, MayEnterNow, Core, Types
<1>2. Types /\ Distinct /\ c \notin OnStack /\ gate \in [Insts -> GateSet]
  BY <1>1, FreshIs DEF Core, Located, Placed, Types
<1>3. OnStack' = OnStack \cup {c}
  <2>1. Running(c, "start") \in Frame /\ Running(c, "start").task = c /\ SameFrames(stack)
    BY <1>2, RunningFacts DEF SameFrames, Types
  <2> QED
    BY <1>1, <1>2, <2>1, StackPush
<1>4. SameCounters
  <2>1. \E o, m : Turned(gate, gate', i, o, m, 0, 0)
    BY <1>1, <1>2, OwnerTurns
  <2> QED
    BY <1>2, <2>1, TurnedCounters DEF SameCounters
<1>5. \A u \in Tasks : Unmoved(u) \/ Elsewhere(u)
  BY <1>1, <1>3 DEF Unmoved, Elsewhere, IsParked
<1>6. ParkedAtEntry(i) = {}
  BY <1>1, NobodyWaits
<1>7. task'[c].inst = i
  BY <1>2 DEF Starts, Fresh, Types, TaskRecord
<1> QED
  BY <1>1, <1>4, <1>5, <1>6, <1>7, OneEnters, EntriesMove DEF InOrder

\* start, and the task parks at entry
LEMMA ParksEntries ==
  ASSUME Core, Core', Entries, NEW c \in Tasks, NEW i \in Insts, NEW s, NEW caller,
         ParksAtEntry(c, i, s, caller)
  PROVE  Entries' /\ \A u \in Tasks : InOrder(u)
<1>1. /\ task[c].state = "fresh" /\ gate' = [gate EXCEPT ![i].waiting = @ + 1]
      /\ stack' = stack /\ parked' = Append(parked, c)
      /\ \A u \in Tasks \ {c} : task'[u] = task[u]
  BY DEF ParksAtEntry, CanStart, Core, Types
<1>2. Types /\ Once(parked) /\ c \notin OnStack /\ ~IsParked(c) /\ gate \in [Insts -> GateSet]
  BY <1>1, FreshIs DEF Core, Located, Placed, Types
<1>3. \A u \in Tasks : IsParked(u)' <=> IsParked(u) \/ u = c
  BY <1>1, <1>2, Parks
<1>4. \A u \in Tasks \ {c} : Unmoved(u)
  BY <1>1, <1>3 DEF Unmoved, OnStack
<1>5. task'[c].inst = i /\ task'[c].state = "initial" /\ task'[c].park = "entry"
  BY <1>2 DEF ParksAtEntry, Fresh, Types, TaskRecord
<1> DEFINE z == 1
<1>6. Counted(gate, gate', i, z, 0) /\ z = 1
  BY <1>1, <1>2, CountTurns
<1> HIDE DEF z
<1>7. EntryCountersHold'
  <2>1. z \in {1, -1} /\ z # -1
    BY <1>6
  <2>2. \E o, m, b : Turned(gate, gate', i, o, m, z, b)
    BY <1>6 DEF Counted
  <2> QED
    BY <1>4, <1>5, <2>1, <2>2, EntriesTurn DEF Entries
<1>8. \A u \in Tasks : EntryPark(u)'
  <2>1. EntryPark(c)'
    BY <1>3, <1>5 DEF EntryPark
  <2>2. \A j \in Insts : gate[j].poisoned => gate'[j].poisoned
    BY <1>6 DEF Counted, Turned
  <2> QED
    BY <1>4, <2>1, <2>2, EntryParkStays DEF Entries
<1> QED
  BY <1>1, <1>5, <1>7, <1>8, OneEnters DEF Entries, InOrder

\* Calls of the host and of guests
LEMMA CallEntries ==
  ASSUME Core, Core', Entries, NEW c \in Tasks, NEW i \in Insts, NEW s \in Shapes,
         Call(c, i, s) \/ CallExport(Baton, c, i, s)
  PROVE  Entries' /\ \A u \in Tasks : InOrder(u)
<1>1. \E x, caller : Starts(c, i, x, caller) \/ ParksAtEntry(c, i, x, caller)
  BY DEF Call, CallExport
<1> QED
  BY <1>1, StartsEntries, ParksEntries

\* The first of the tasks that are ready.
LEMMA FirstIsFirst ==
  ASSUME Types, ReadyIndexes # {}
  PROVE  \E n \in DOMAIN parked : /\ FirstReady = parked[n]
                                  /\ \A k \in DOMAIN parked : Ready(parked[k]) => n <= k
<1>1. ReadyIndexes \in SUBSET Nat
  BY DEF Types, ReadyIndexes
<1>2. \E k \in ReadyIndexes : \A l \in ReadyIndexes : k <= l
  BY <1>1, LeastNat
<1> DEFINE n == CHOOSE k \in ReadyIndexes : \A l \in ReadyIndexes : k <= l
<1>3. n \in ReadyIndexes /\ (\A l \in ReadyIndexes : n <= l) /\ FirstReady = parked[n]
  BY <1>2 DEF FirstReady
<1> HIDE DEF n
<1> QED
  BY <1>3 DEF ReadyIndexes

\* The parked task c goes on the stack, and the others stay.
LEMMA RousedEntries ==
  ASSUME Core, NEW c \in Tasks, c \notin OnStack,
         NEW f \in Frame, f.task = c, NEW s, SameFrames(s), stack' = <<f>> \o s,
         Unpark(c) \/ parked' = parked,
         \A u \in Tasks \ {c} : task'[u] = task[u]
  PROVE  c \in OnStack' /\ Elsewhere(c) /\ \A u \in Tasks \ {c} : Unmoved(u)
<1>1. Types /\ Distinct /\ Once(parked)
  BY DEF Core, Located, Placed
<1>2. OnStack' = OnStack \cup {c}
  BY <1>1, StackPush
<1>3. \A u \in Tasks \ {c} : IsParked(u)' <=> IsParked(u)
  <2>1. CASE Unpark(c)
    BY <1>1, <2>1, Unparks DEF Unpark
  <2>2. CASE parked' = parked
    BY <2>2 DEF IsParked
  <2> QED
    BY <2>1, <2>2
<1> QED
  BY <1>2, <1>3 DEF Elsewhere, Unmoved

\* The first task that waits to enter does.
LEMMA ResumeEntryEntries ==
  ASSUME Core, Core', Entries, ReadyIndexes # {}, ResumeEntry(FirstReady), Unpark(FirstReady)
  PROVE  Entries' /\ \A u \in Tasks : InOrder(u)
<1>0. Types /\ Located
  BY DEF Core
<1> DEFINE c == FirstReady
<1>1. c \in Tasks /\ IsParked(c) /\ Ready(c)
  BY <1>0, FirstReadyIs
<1>2. \E n \in DOMAIN parked : c = parked[n] /\ \A k \in DOMAIN parked : Ready(parked[k]) => n <= k
  BY <1>0, FirstIsFirst
<1>3. ResumeEntry(c) /\ Unpark(c)
  OBVIOUS
<1> HIDE DEF c
<1>4. /\ task[c].park = "entry" /\ gate' = EnterRun(Uncounted(gate, I(c)), c)
      /\ stack' = <<Running(c, "resume")>> \o stack
      /\ \A u \in Tasks \ {c} : task'[u] = task[u]
      /\ task'[c].inst = task[c].inst
  BY <1>0, <1>1, <1>3 DEF ResumeEntry, Types, TaskRecord
<1>5. c \notin OnStack /\ I(c) \in Insts /\ gate \in [Insts -> GateSet]
  BY <1>0, <1>1, Somewhere DEF Located, Placed, Types
<1>6. c \in OnStack' /\ Elsewhere(c) /\ \A u \in Tasks \ {c} : Unmoved(u)
  <2>1. Running(c, "resume") \in Frame /\ Running(c, "resume").task = c /\ SameFrames(stack)
    BY <1>0, <1>1, RunningFacts DEF SameFrames, Types
  <2> QED
    BY <1>1, <1>3, <1>4, <1>5, <2>1, RousedEntries
<1> DEFINE z == -1
<1>7. \E o, m, b : Turned(gate, gate', I(c), o, m, z, b)
  <2> DEFINE g == Uncounted(gate, I(c))
  <2>1. z \in Int /\ 0 \in Int
    OBVIOUS
  <2>2. Counted(gate, g, I(c), z, 0)
    BY <1>5, CountTurns
  <2>3. gate' = EnterRun(g, c)
    BY <1>4
  <2> HIDE DEF g, z
  <2>4. Turned(g, gate', I(c), c, FALSE, 0, 0)
    BY <1>1, <1>5, <2>2, <2>3, CountKeepsOwner, RunTurns
  <2>5. Turned(gate, gate', I(c), c, FALSE, z, 0)
    BY <1>5, <2>1, <2>2, <2>4, TurnsCompose, Zenon
  <2> QED
    BY <2>5, Zenon
<1>8. z \in {1, -1}
  OBVIOUS
<1> HIDE DEF z
<1>9. EntryCountersHold'
  BY <1>1, <1>4, <1>5, <1>6, <1>7, <1>8, EntriesTurn DEF Entries, AtEntry, I
<1>10. \A u \in Tasks : EntryPark(u)'
  <2>1. \A j \in Insts : gate[j].poisoned => gate'[j].poisoned
    BY <1>7 DEF Turned
  <2> QED
    BY <1>6, <2>1, EntryParkStays DEF Entries
<1>11. InOrder(c)
  <2>1. ASSUME NEW u \in ParkedAtEntry(I(c)), u # c
        PROVE  \E j, k \in DOMAIN parked : j < k /\ parked[j] = c /\ parked[k] = u
    <3>1. task[u].park = "entry" /\ I(u) = I(c) /\ \E k \in DOMAIN parked : parked[k] = u
      BY DEF ParkedAtEntry, IsParked
    <3>2. Ready(u)
      BY <1>1, <1>4, <3>1 DEF Ready
    <3>3. PICK k \in DOMAIN parked : parked[k] = u
      BY <3>1
    <3>4. PICK n \in DOMAIN parked : c = parked[n] /\ \A l \in DOMAIN parked : Ready(parked[l]) => n <= l
      BY <1>2
    <3>5. n <= k /\ n # k /\ n \in Nat /\ k \in Nat
      BY <1>0, <2>1, <3>2, <3>3, <3>4 DEF Types
    <3>6. n < k
      BY <3>5
    <3> QED
      BY <3>3, <3>4, <3>6
  <2> QED
    BY <1>4, <2>1 DEF InOrder, I
<1> QED
  BY <1>1, <1>4, <1>9, <1>10, <1>11, OneEnters DEF Entries

\* A task that is resumed in its guest code.
LEMMA ResumedEntries ==
  ASSUME Core, Core', Entries, NEW c \in Tasks, c \notin OnStack, I(c) \in Insts,
         NEW via \in {"start", "resume", "cancel"}, NEW s, SameFrames(s), NEW sb, NEW b,
         ResumeLoop(c, via, s, sb, b) \/ ResumeBlocked(c, via, s, sb, b),
         Unpark(c) \/ parked' = parked
  PROVE  Entries' /\ \A u \in Tasks : InOrder(u)
<1>1. /\ Types /\ task \in [Tasks -> TaskRecord] /\ task[c] \in TaskRecord
      /\ gate \in [Insts -> GateSet]
  BY DEF Core, Types
<1>2. \A u \in Tasks \ {c} : task'[u] = task[u]
  BY <1>1 DEF ResumeLoop, ResumeBlocked
<1>3. task'[c].state = StateAfter(c, b)
  <2>1. CASE ResumeLoop(c, via, s, sb, b)
    <3>1. task'[c] = RState(task[c], StateAfter(c, b))
      BY <1>1, <2>1 DEF ResumeLoop, RState
    <3> QED
      BY <1>1, <3>1 DEF RState, TaskRecord
  <2>2. CASE ResumeBlocked(c, via, s, sb, b)
    <3>1. task'[c] = RCancellable(RAwaits(RPark(RState(task[c], StateAfter(c, b)), "none"), "set"), FALSE)
      BY <1>1, <2>2 DEF ResumeBlocked, RState, RPark, RAwaits, RCancellable
    <3> QED
      BY <1>1, <3>1 DEF RState, RPark, RAwaits, RCancellable, TaskRecord
  <2> QED
    BY <2>1, <2>2
<1>4. NoneEnters
  BY <1>2, <1>3 DEF NoneEnters, StateAfter
<1>5. \E f \in Frame : f.task = c /\ stack' = <<f>> \o s
  <2>1. CASE ResumeLoop(c, via, s, sb, b)
    BY <2>1, RunningFacts DEF ResumeLoop
  <2>2. CASE ResumeBlocked(c, via, s, sb, b)
    <3> DEFINE m == IF Cancels(c, b) \/ Awaited(c, task[c].awaits) THEN "run" ELSE "empty"
    <3>1. stack' = <<Woken(c, via, m)>> \o s /\ m \in {"run", "empty"}
      BY <2>2 DEF ResumeBlocked, Woken
    <3> HIDE DEF m
    <3>2. Woken(c, via, m) \in Frame /\ Woken(c, via, m).task = c
      BY <3>1, WokenFacts
    <3> QED
      BY <3>1, <3>2, Zenon
  <2> QED
    BY <2>1, <2>2
<1>6. \A u \in Tasks : Unmoved(u) \/ Elsewhere(u)
  BY <1>2, <1>5, RousedEntries
<1>7. SameCounters
  <2>1. \E g \in {gate, Unwaits(gate, I(c))} : gate' = EnterRun(g, c)
    BY DEF ResumeLoop, ResumeBlocked
  <2>2. PICK g \in {gate, Unwaits(gate, I(c))} : gate' = EnterRun(g, c)
    BY <2>1
  <2>3. g \in [Insts -> GateSet] /\ KeepsCounters(gate, g)
    BY <1>1, GateCounters DEF KeepsCounters
  <2>4. KeepsCounters(g, gate')
    BY <2>2, <2>3, GateCounters
  <2> QED
    BY <2>3, <2>4 DEF SameCounters, KeepsCounters
<1> QED
  BY <1>4, <1>6, <1>7, EntriesKept

\* step
LEMMA StepEntries ==
  ASSUME Core, Core', Entries, Step
  PROVE  Entries' /\ \A u \in Tasks : InOrder(u)
<1>1. Types /\ Located /\ ReadyIndexes # {} /\ Unpark(FirstReady)
  BY DEF Core, Step
<1>2. CASE ResumeEntry(FirstReady)
  BY <1>1, <1>2, ResumeEntryEntries
<1>3. CASE ~ResumeEntry(FirstReady)
  <2> DEFINE c == FirstReady
             via == "resume"
             b == FALSE
  <2>1. c \in Tasks /\ IsParked(c)
    BY <1>1, FirstReadyIs
  <2>2. ResumeLoop(c, via, stack, sub, b) \/ ResumeBlocked(c, via, stack, sub, b)
    BY <1>3 DEF Step
  <2>3. via \in {"start", "resume", "cancel"} /\ Unpark(c)
    BY <1>1
  <2> HIDE DEF c, via, b
  <2>4. c \notin OnStack /\ I(c) \in Insts
    BY <1>1, <2>1, Somewhere DEF Located, Placed
  <2>5. SameFrames(stack)
    BY <1>1 DEF SameFrames, Types
  <2> QED
    BY <2>1, <2>2, <2>3, <2>4, <2>5, ResumedEntries
<1> QED
  BY <1>2, <1>3

\* A builtin of t waits for c, or goes on.
LEMMA AwaitEntries ==
  ASSUME Core, Core', Entries, NEW t, stack # <<>>, Top.task = t, NEW c \in Tasks,
         NEW async \in BOOLEAN, NEW sb,
         NEW states, Blocking(t, c, async, states), AwaitCancel(t, c, async, sb),
         IsPending(states, c)
  PROVE  Entries' /\ \A u \in Tasks : InOrder(u)
<1>1. Types /\ Distinct /\ task \in [Tasks -> TaskRecord] /\ gate \in [Insts -> GateSet]
  BY DEF Core, Located, Placed, Types
<1>2. t \in Tasks /\ I(t) \in Insts /\ Top \in Frame
  BY Runner
<1>3. /\ states \in [Tasks -> TaskRecord]
      /\ \A u \in Tasks : /\ states[u].inst = task[u].inst /\ states[u].park = task[u].park
                          /\ task[u].state = "resolved" => states[u].state = "resolved"
                          /\ states[u].state = "started" => task[u].state = "started"
  <2>1. CASE states = task
    BY <1>1, <2>1
  <2>2. CASE states = WithState(task, c, "pending") /\ task[c].state \in Mid
    <3>1. /\ states \in [Tasks -> TaskRecord] /\ \A u \in Tasks \ {c} : states[u] = task[u]
          /\ states[c].inst = task[c].inst /\ states[c].park = task[c].park
          /\ states[c].state = "pending"
      BY <1>1, <2>2, StateChanges
    <3> QED
      BY <2>2, <3>1 DEF Mid
  <2> QED
    BY <2>1, <2>2 DEF IsPending
<1>4. CASE async \/ task[t].shape = "callback"
  <2>1. task' = states /\ gate' = gate /\ parked' = parked
    BY <1>4 DEF Blocking, AwaitCancel
  <2>2. SameFrames(stack')
    <3>1. CASE stack' = [stack EXCEPT ![1] = Running(t, Top.via)]
      BY <1>1, <3>1, RunsAgain
    <3>2. CASE stack' = [stack EXCEPT ![1] = Syncs(t, Top.via, c)]
      <4> DEFINE f == Syncs(t, Top.via, c)
      <4>1. f \in Frame /\ f.task = Top.task /\ f.via = Top.via
        <5>1. Top.via \in {"start", "resume", "cancel"}
          BY <1>2 DEF Frame
        <5> QED
          BY <1>2, <5>1, SyncsFacts
      <4>2. stack' = [stack EXCEPT ![1] = f]
        BY <3>2
      <4> HIDE DEF f
      <4> QED
        BY <1>1, <4>1, <4>2, TopChanges
    <3> QED
      BY <1>4, <3>1, <3>2 DEF AwaitCancel, Syncs
  <2>3. OnStack' = OnStack
    BY <1>1, <2>2, StackStays
  <2>4. SameCounters
    BY <2>1 DEF SameCounters, KeepsCounters
  <2> QED
    BY <1>2, <1>3, <2>1, <2>3, <2>4, EntriesStill
<1>5. CASE ~async /\ task[t].shape # "callback"
  <2>1. /\ task' = WithPark(states, t, "block", c, FALSE)
        /\ gate' = SuspendRun(gate, I(t)) /\ parked' = Append(parked, t) /\ stack' = Tail(stack)
    BY <1>5 DEF Blocking, AwaitCancel, WithPark
  <2>2. /\ \A u \in Tasks \ {t} : task'[u] = states[u]
        /\ task'[t].park = "block" /\ task'[t].state = states[t].state
    <3> DEFINE b == FALSE
    <3>1. b \in BOOLEAN /\ "block" \in {"none", "entry", "wait", "yield", "block"}
      OBVIOUS
    <3>2. task' = WithPark(states, t, "block", c, b)
      BY <2>1
    <3> HIDE DEF b
    <3>3. states \in [Tasks -> TaskRecord] /\ t \in Tasks /\ c \in Tasks \cup {"set"}
      BY <1>2, <1>3
    <3> QED
      BY <3>1, <3>2, <3>3, ParkChanges
  <2>3. NoneEnters
    BY <1>3, <2>2 DEF NoneEnters
  <2>4. SameCounters
    BY <1>1, <1>2, <2>1, GateCounters DEF SameCounters
  <2>5. /\ \A u \in Tasks \ {t} :
             /\ task'[u].inst = task[u].inst /\ task'[u].park = task[u].park
             /\ task[u].state = "resolved" => task'[u].state = "resolved"
    BY <1>3, <2>2
  <2>6. parked' = Append(parked, t) /\ task'[t].park \notin {"entry", "none"}
    BY <2>1, <2>2
  <2> QED
    BY <1>2, <2>1, <2>3, <2>4, <2>5, <2>6, PopEntries
<1> QED
  BY <1>4, <1>5

\* subtask.cancel of a callee that is asked to cancel itself later
LEMMA CancelPendsEntries ==
  ASSUME Core, Core', Entries, NEW t, NEW c \in Tasks, NEW async \in BOOLEAN, CancelPends(t, c, async)
  PROVE  Entries' /\ \A u \in Tasks : InOrder(u)
<1>1. /\ stack # <<>> /\ Top.task = t /\ task[c].state = "started"
      /\ Blocking(t, c, async, WithState(task, c, "pending"))
      /\ AwaitCancel(t, c, async, Requested(c))
  BY DEF CancelPends, MayCancel, Runs, WithState
<1>2. IsPending(WithState(task, c, "pending"), c)
  BY <1>1 DEF Mid, IsPending
<1> QED
  BY <1>1, <1>2, AwaitEntries

\* The callee that was resumed gave the baton back.
LEMMA CancelContinuesEntries ==
  ASSUME Core, Core', Entries, NEW t, CancelContinues(t)
  PROVE  Entries' /\ \A u \in Tasks : InOrder(u)
<1>1. /\ Types /\ Names /\ stack # <<>> /\ Top.task = t /\ Top.mode = "cancel"
  BY DEF Core, CancelContinues
<1>2. t \in Tasks /\ 1 \in DOMAIN stack /\ Top = stack[1] /\ Top \in Frame
  BY <1>1, Runner
<1>3. Top.on \in Tasks /\ Top.flag \in BOOLEAN
  BY <1>1, <1>2 DEF Names, Frame, Knows
<1>4. CASE Resolved(Top.on)
  <2>1. stack' = [stack EXCEPT ![1] = Running(t, Top.via)] /\ UNCHANGED <<task, gate, parked>>
    BY <1>4 DEF CancelContinues
  <2>2. SameFrames(stack') /\ SameCounters
    BY <1>1, <2>1, RunsAgain DEF SameCounters, KeepsCounters
  <2> QED
    BY <2>1, <2>2, QuietEntries
<1>5. CASE ~Resolved(Top.on)
  <2> DEFINE c == Top.on
             async == Top.flag
  <2>1. /\ c \in Tasks /\ async \in BOOLEAN
        /\ Blocking(t, c, async, task) /\ AwaitCancel(t, c, async, sub) /\ IsPending(task, c)
    BY <1>3, <1>5 DEF CancelContinues, IsPending
  <2> HIDE DEF c, async
  <2> QED
    BY <1>1, <2>1, AwaitEntries
<1> QED
  BY <1>4, <1>5

\* What the canceller of an entering task does to the gate.
LEMMA EntryCancelledEntries ==
  ASSUME Core, Core', Entries, NEW c \in Tasks, NEW sb, EntryCancelled(c, sb), stack' = stack,
         c \notin OnStack, I(c) \in Insts,
         \/ IsParked(c) /\ task[c].park = "entry" /\ Unpark(c)
         \/ ~IsParked(c) /\ parked' = parked /\ gate[I(c)].poisoned
  PROVE  Entries' /\ \A u \in Tasks : InOrder(u)
<1>1. /\ Types /\ Once(parked) /\ task \in [Tasks -> TaskRecord] /\ task[c] \in TaskRecord
      /\ gate \in [Insts -> GateSet]
  BY DEF Core, Located, Placed, Types
<1>2. /\ \A u \in Tasks \ {c} : task'[u] = task[u]
      /\ task'[c].inst = task[c].inst /\ task'[c].state = "resolved"
  BY <1>1 DEF EntryCancelled, TaskRecord
<1>3. ~IsParked(c)' /\ \A u \in Tasks \ {c} : IsParked(u)' <=> IsParked(u)
  <2>1. CASE Unpark(c)
    BY <1>1, <2>1, Unparks DEF Unpark
  <2>2. CASE ~IsParked(c) /\ parked' = parked
    BY <2>2 DEF IsParked
  <2> QED
    BY <2>1, <2>2
<1>4. Elsewhere(c) /\ \A u \in Tasks \ {c} : Unmoved(u)
  BY <1>2, <1>3 DEF Elsewhere, Unmoved, OnStack
<1>5. NoneEnters
  BY <1>2 DEF NoneEnters
<1> DEFINE z == -1
<1>6. \E o, m, b : Turned(gate, gate', I(c), o, m, z, b)
  BY <1>1, CountTurns DEF EntryCancelled, Counted
<1>7. z \in {1, -1}
  OBVIOUS
<1> HIDE DEF z
<1>8. EntryCountersHold'
  BY <1>2, <1>4, <1>6, <1>7, EntriesTurn DEF Entries, AtEntry, I
<1>9. \A u \in Tasks : EntryPark(u)'
  <2>1. \A j \in Insts : gate[j].poisoned => gate'[j].poisoned
    BY <1>6 DEF Turned
  <2> QED
    BY <1>4, <2>1, EntryParkStays DEF Entries
<1> QED
  BY <1>5, <1>8, <1>9 DEF Entries, NoneEnters, InOrder

\* subtask.cancel of a callee that has not entered
LEMMA CancelAtEntryEntries ==
  ASSUME Core, Core', Entries, NEW t, NEW c \in Tasks, CancelAtEntry(t, c)
  PROVE  Entries' /\ \A u \in Tasks : InOrder(u)
<1>1. task[c].state = "initial" /\ IsParked(c) /\ Unpark(c) /\ EntryCancelled(c, Requested(c))
      /\ stack' = stack
  BY DEF CancelAtEntry
<1>2. task[c].park = "entry"
  BY <1>1 DEF Core, Located, Life, Entries, EntryPark
<1>3. c \notin OnStack /\ I(c) \in Insts
  BY <1>1, Somewhere DEF Core, Located, Placed
<1> QED
  BY <1>1, <1>2, <1>3, EntryCancelledEntries

\* subtask.cancel that resumes the callee
LEMMA CancelResumesEntries ==
  ASSUME Core, Core', Entries, NEW t, NEW c \in Tasks, NEW async \in BOOLEAN,
         CancelResumes(t, c, async)
  PROVE  Entries' /\ \A u \in Tasks : InOrder(u)
<1>1. /\ Types /\ Located /\ sub[c].held /\ stack # <<>> /\ Top.mode = "run"
      /\ IsParked(c) /\ Unpark(c)
  BY DEF Core, CancelResumes, MayCancel, HeldBy, Runs
<1>2. task[c].caller # NoTask
  BY <1>1, HasCaller
<1> DEFINE s == [stack EXCEPT ![1].mode = "cancel", ![1].on = c, ![1].flag = async]
           b == TRUE
           via == "cancel"
<1>3. ResumeLoop(c, via, s, Requested(c), b) \/ ResumeBlocked(c, via, s, Requested(c), b)
  BY DEF CancelResumes
<1>4. via \in {"start", "resume", "cancel"}
  OBVIOUS
<1>5. SameFrames(s)
  BY <1>1, <1>2, CancelMarks DEF SameDrives
<1> HIDE DEF s, b, via
<1>6. c \notin OnStack /\ I(c) \in Insts
  BY <1>1, Somewhere DEF Located, Placed
<1> QED
  BY <1>1, <1>3, <1>4, <1>5, <1>6, ResumedEntries

\* subtask.cancel of a callee that only looks parked
LEMMA CancelStaleEntries ==
  ASSUME Core, Core', Entries, NEW t, NEW c \in Tasks, CancelStale(t, c)
  PROVE  Entries' /\ \A u \in Tasks : InOrder(u)
<1>1. /\ Types /\ Located /\ Life(c)
      /\ sub[c].held /\ Runs(t) /\ stack # <<>> /\ Top.mode = "run" /\ ~IsParked(c)
      /\ parked' = parked
      /\ task[c].state = "initial" \/ Inline(c)
  BY DEF Core, Located, CancelStale, MayCancel, HeldBy, Runs
<1>2. t \in Tasks /\ Top \in Frame /\ task[c].caller # NoTask
  BY <1>1, Runner, HasCaller DEF Runs
<1>3. task[c].park # "block" => c \notin OnStack
  <2>1. CASE task[c].state = "initial"
    BY <1>1, <2>1 DEF Life
  <2>2. CASE Inline(c)
    <3>1. task[c].park # "block" => gate[I(c)].owner = NoTask
      BY <2>2, InlineIs
    <3>2. c \in OnStack => gate[I(c)].owner = c
      BY <1>1 DEF Located, Exclusivity, HasFrames
    <3> QED
      BY <3>1, <3>2, TasksAssumption
  <2> QED
    BY <1>1, <2>1, <2>2
<1>4. I(c) \in Insts
  <2>1. task[c].state # "fresh"
    BY <1>1 DEF Inline
  <2> QED
    BY <1>1, <2>1, Somewhere
<1>5. CASE \E m \in {"hung", "panic"} : stack' = [stack EXCEPT ![1].mode = m]
                                        /\ UNCHANGED <<task, gate, sub>>
  <2>1. PICK m \in {"hung", "panic"} : stack' = [stack EXCEPT ![1].mode = m]
    BY <1>5
  <2>2. Marks(stack', m, Top.on, Top.flag) /\ Top.on \in Tasks \cup {NoTask} /\ Top.flag \in BOOLEAN
    BY <1>2, <2>1 DEF Marks, Frame
  <2>3. SameFrames(stack')
    BY <1>1, <2>2, TopMarked
  <2>4. SameCounters
    BY <1>5 DEF SameCounters, KeepsCounters
  <2> QED
    BY <1>1, <1>5, <2>3, <2>4, QuietEntries
<1>6. CASE task[c].park = "entry" /\ EntryCancelled(c, Requested(c)) /\ stack' = stack
  <2>1. task[c].state # "resolved"
    BY <1>1 DEF Inline
  <2>2. c \notin OnStack /\ gate[I(c)].poisoned
    BY <1>1, <1>3, <1>6, <2>1 DEF Entries, EntryPark
  <2> QED
    BY <1>1, <1>4, <1>6, <2>2, EntryCancelledEntries
<1>7. CASE task[c].park = "yield"
           /\ ResumeLoop(c, "cancel",
                         [stack EXCEPT ![1].mode = "cancel", ![1].on = c, ![1].flag = TRUE],
                         Requested(c), TRUE)
  <2> DEFINE b == TRUE
             via == "cancel"
             s == [stack EXCEPT ![1].mode = "cancel", ![1].on = c, ![1].flag = b]
  <2>1. ResumeLoop(c, via, s, Requested(c), b) /\ task[c].park = "yield"
    BY <1>7
  <2>2. b \in BOOLEAN /\ via \in {"start", "resume", "cancel"}
    OBVIOUS
  <2> HIDE DEF b, via
  <2>3. SameFrames(s)
    BY <1>1, <1>2, <2>2, CancelMarks DEF SameDrives
  <2> HIDE DEF s
  <2> QED
    BY <1>1, <1>3, <1>4, <2>1, <2>2, <2>3, ResumedEntries
<1> QED
  BY <1>5, <1>6, <1>7 DEF CancelStale

\* A trap, or a deadlock: what is on the stack dies with its instance.
LEMMA UnwindEntries ==
  ASSUME Core, Core', Entries, NEW g \in [Insts -> GateSet], Unwind(g, TRUE),
         \A i \in Insts : /\ g[i].waiting = gate[i].waiting /\ g[i].poisoned = gate[i].poisoned
                          /\ \/ g[i].backpressure = gate[i].backpressure
                             \/ \E t \in OnStack : I(t) = i
  PROVE  Entries' /\ \A u \in Tasks : InOrder(u)
<1>1. Types /\ Once(parked) /\ OnStack \subseteq Tasks
  BY StackedAreTasks DEF Core, Located, Placed
<1>2. \A t \in Tasks : /\ task'[t].inst = task[t].inst /\ task'[t].state = task[t].state
                       /\ task'[t].park \in {"none", task[t].park}
                       /\ t \in Reaped \ Aborted => task'[t].park = "none"
                       /\ t \notin Reaped \cup OnStack => task'[t] = task[t]
  BY <1>1, UnwoundTasks DEF Who
<1>3. \A i \in Insts :
        /\ gate'[i].poisoned <=> gate[i].poisoned \/ \E t \in Trapped(TRUE) \cup Aborted : I(t) = i
        /\ gate'[i].waiting = gate[i].waiting /\ gate'[i].backpressure = g[i].backpressure
  <2> DEFINE own == TRUE
  <2>1. Unwind(g, own)
    OBVIOUS
  <2> HIDE DEF own
  <2>2. \A i \in Insts :
          /\ gate'[i].poisoned <=> g[i].poisoned \/ \E t \in Trapped(own) \cup Aborted : I(t) = i
          /\ SameCountsIn(gate'[i], g[i])
    BY <2>1, UnwoundGates
  <2>3. \A i \in Insts :
          /\ gate'[i].poisoned <=> g[i].poisoned \/ \E t \in Trapped(TRUE) \cup Aborted : I(t) = i
          /\ SameCountsIn(gate'[i], g[i])
    BY <2>2, Zenon DEF own
  <2> QED
    BY <2>3 DEF SameCountsIn
<1>4. OnStack \subseteq Trapped(TRUE)
  <2>1. DOMAIN stack = 1..Len(stack)
    BY <1>1 DEF Types
  <2> QED
    BY <2>1 DEF OnStack, Trapped
<1>5. \A t \in Tasks : IsParked(t)' <=> IsParked(t) /\ t \notin Reaped
  BY <1>1, Unparks DEF Unwind
<1>6. ASSUME NEW t \in Tasks PROVE EntryPark(t)'
  <2>1. EntryPark(t)
    BY DEF Entries
  <2>2. ASSUME IsParked(t)' PROVE task'[t].park # "none"
    <3>1. IsParked(t) /\ t \notin Reaped /\ t \notin OnStack
      BY <1>5, <2>2 DEF Core, Located, Placed
    <3> QED
      BY <1>2, <2>1, <3>1 DEF EntryPark
  <2>3. ASSUME task'[t].park = "entry", task'[t].state # "resolved"
        PROVE  IsParked(t)' \/ gate'[I(t)'].poisoned
    <3>1. task[t].park = "entry" /\ task[t].state # "resolved" /\ I(t)' = I(t)
      BY <1>2, <2>3 DEF I
    <3>2. I(t) \in Insts
      <4>1. task[t].state # "fresh"
        BY <3>1 DEF Core, Located, Life
      <4> QED
        BY <4>1, Somewhere DEF Core
    <3>3. CASE IsParked(t)
      <4>1. t \notin Aborted
        BY <3>1 DEF Aborted
      <4>2. t \notin Reaped
        BY <1>2, <2>3, <4>1
      <4> QED
        BY <1>5, <3>3, <4>2
    <3>4. CASE t \in OnStack
      BY <1>3, <1>4, <3>1, <3>2, <3>4
    <3>5. CASE gate[I(t)].poisoned
      BY <1>3, <3>1, <3>2, <3>5
    <3> QED
      BY <2>1, <3>1, <3>3, <3>4, <3>5 DEF EntryPark
  <2> QED
    BY <2>2, <2>3 DEF EntryPark
<1>7. ASSUME NEW i \in Insts, ~gate'[i].poisoned
      PROVE  /\ gate'[i].waiting >= Cardinality(ParkedAtEntry(i))'
             /\ gate'[i].backpressure \in 0..(BackpressureLimit - 1)
  <2>1. /\ ~gate[i].poisoned /\ gate'[i].waiting = gate[i].waiting
        /\ gate'[i].backpressure = gate[i].backpressure
    BY <1>3, <1>4, <1>7
  <2>2. ParkedAtEntry(i)' \subseteq ParkedAtEntry(i)
    BY <1>2, <1>5, EntriesAre DEF AtEntry
  <2>3. gate[i].waiting \in Int /\ gate[i].waiting >= Cardinality(ParkedAtEntry(i))
    BY <1>1, <2>1 DEF Entries, EntryCountersHold, Types, GateSet
  <2>4. gate[i].waiting >= Cardinality(ParkedAtEntry(i)')
    BY <1>1, <2>2, <2>3, EntryFinite, CountCovers
  <2> QED
    BY <2>1, <2>4 DEF Entries, EntryCountersHold
<1> QED
  BY <1>2, <1>6, <1>7 DEF Entries, EntryCountersHold, InOrder

\* backpressure.inc and .dec
LEMMA BackpressureEntries ==
  ASSUME Core, Core', Entries, NEW t, NEW d \in {1, -1}, Backpressure(t, d)
  PROVE  Entries' /\ \A u \in Tasks : InOrder(u)
<1>1. Types /\ stack # <<>> /\ Top.task = t
      /\ gate[I(t)].backpressure \in 0..(BackpressureLimit - 1)
  BY DEF Core, Backpressure, Runs
<1>2. t \in Tasks /\ t \in OnStack /\ I(t) \in Insts /\ gate \in [Insts -> GateSet]
      /\ gate[I(t)] \in GateSet
  BY <1>1, Runner DEF Types
<1> DEFINE n == gate[I(t)].backpressure + d
           g == [gate EXCEPT ![I(t)].backpressure = n]
<1>3. g[I(t)].backpressure = n /\ n \in -1..BackpressureLimit
  BY <1>1, <1>2, TasksAssumption DEF GateSet
<1>4. \/ n \in 0..(BackpressureLimit - 1) /\ gate' = g
         /\ UNCHANGED <<task, sub, parked, stack, root>>
      \/ Unwind(g, TRUE)
  BY <1>3 DEF Backpressure
<1>5. /\ g[I(t)] = [gate[I(t)] EXCEPT !.backpressure = n]
      /\ \A j \in Insts \ {I(t)} : g[j] = gate[j]
      /\ g = [j \in Insts |-> g[j]]
  BY <1>2
<1> HIDE DEF g, n
<1>6. g[I(t)] \in GateSet /\ g[I(t)].waiting = gate[I(t)].waiting
      /\ g[I(t)].poisoned = gate[I(t)].poisoned
  BY <1>2, <1>3, <1>5 DEF GateSet
<1>7. g \in [Insts -> GateSet]
  BY <1>2, <1>5, <1>6
<1>8. CASE n \in 0..(BackpressureLimit - 1) /\ gate' = g
           /\ UNCHANGED <<task, sub, parked, stack, root>>
  <2>1. \A u \in Tasks : EntryPark(u)' /\ InOrder(u)
    <3>1. \A i \in Insts : gate[i].poisoned => gate'[i].poisoned
      BY <1>5, <1>6, <1>8
    <3>2. \A u \in Tasks : Unmoved(u)
      BY <1>8 DEF Unmoved, IsParked, OnStack
    <3> QED
      BY <1>8, <3>1, <3>2, EntryParkStays DEF Entries, InOrder
  <2>2. ParkedAtEntry(I(t))' = ParkedAtEntry(I(t)) /\ \A i \in Insts : ParkedAtEntry(i)' = ParkedAtEntry(i)
    BY <1>8 DEF ParkedAtEntry, IsParked, I
  <2>3. EntryCountersHold'
    BY <1>3, <1>5, <1>6, <1>8, <2>2 DEF Entries, EntryCountersHold
  <2> QED
    BY <2>1, <2>3 DEF Entries
<1>9. CASE Unwind(g, TRUE)
  <2>1. \A i \in Insts : /\ g[i].waiting = gate[i].waiting /\ g[i].poisoned = gate[i].poisoned
                         /\ \/ g[i].backpressure = gate[i].backpressure
                            \/ \E u \in OnStack : I(u) = i
    BY <1>2, <1>5, <1>6
  <2> QED
    BY <1>7, <1>9, <2>1, UnwindEntries
<1> QED
  BY <1>4, <1>8, <1>9

\* subtasks and events that concern no task's own state
LEMMA EventEntries ==
  ASSUME Core, Core', Entries, NEW t,
         \/ Poll(t) \/ CancelReturns(t) \/ CallReturns
         \/ \E c \in Tasks : Join(t, c) \/ SubtaskDrop(t, c) \/ CancelResolved(t, c)
  PROVE  Entries' /\ \A u \in Tasks : InOrder(u)
<1>1. Types
  BY DEF Core
<1>2. task' = task /\ gate' = gate /\ parked' = parked
  BY DEF Poll, CancelReturns, CallReturns, Join, SubtaskDrop, CancelResolved
<1>3. SameCounters
  BY <1>2 DEF SameCounters, KeepsCounters
<1>4. SameFrames(stack')
  <2>1. CASE stack' = stack
    BY <1>1, <2>1 DEF SameFrames, Types
  <2>2. CASE CancelReturns(t)
    BY <1>1, <2>2, RunsAgain DEF CancelReturns
  <2> QED
    BY <2>1, <2>2 DEF Poll, CallReturns, Join, SubtaskDrop, CancelResolved
<1> QED
  BY <1>2, <1>3, <1>4, QuietEntries

\* A task that returns, acknowledges its cancellation, or learns of it
LEMMA StatesEntries ==
  ASSUME Core, Core', Entries, NEW t, TaskReturn(t) \/ TaskCancel(t) \/ WaitIsCancelled(t)
  PROVE  Entries' /\ \A u \in Tasks : InOrder(u)
<1>1. stack # <<>> /\ Top.task = t /\ UNCHANGED <<gate, parked, stack>>
  BY DEF TaskReturn, TaskCancel, WaitIsCancelled, MayWait, Runs
<1>2. t \in Tasks
  BY <1>1, Runner
<1>3. \E x \in {"delivered", "resolved"} :
        task' = WithState(task, t, x) /\ (task[t].state # "resolved" \/ x = "resolved")
  BY DEF TaskReturn, TaskCancel, WaitIsCancelled, WithState
<1> QED
  BY <1>1, <1>2, <1>3, StateEntries

\* A trap or a deadlock, where no task fails without its instance
LEMMA TrapEntries ==
  ASSUME Core, Core', Entries, "fail" \notin Faults, GuestTrap \/ TaskFails \/ Deadlock
  PROVE  Entries' /\ \A u \in Tasks : InOrder(u)
<1>1. Unwind(gate, TRUE)
  BY DEF GuestTrap, TaskFails, Deadlock
<1>2. gate \in [Insts -> GateSet]
  BY DEF Core, Types
<1> QED
  BY <1>1, <1>2, UnwindEntries

\* Every step keeps the counters right and lets tasks enter in order.
LEMMA NextEntries ==
  ASSUME Core, Core', Entries, "fail" \notin Faults, Next
  PROVE  Entries' /\ \A u \in Tasks : InOrder(u)
<1> DEFINE G == Entries' /\ \A u \in Tasks : InOrder(u)
<1>1. CASE \/ \E t \in Tasks, i \in Insts, s \in Shapes : Call(t, i, s)
           \/ \E c \in Tasks, i \in Insts, s \in Shapes : CallExport(Baton, c, i, s)
  BY <1>1, CallEntries
<1>2. CASE TaskReturn(Baton) \/ TaskCancel(Baton) \/ WaitIsCancelled(Baton)
  BY <1>2, StatesEntries
<1>3. CASE \/ Exit(Baton) \/ \E p \in {"wait", "yield"} : CallbackParks(Baton, p)
           \/ \E b \in BOOLEAN : WaitBlocks(Baton, b)
  BY <1>3, LeaveEntries
<1>4. CASE WaitReturns(Baton) \/ \E b \in BOOLEAN : WaitDrives(Baton, b)
  BY <1>4, DriveEntries
<1>5. CASE \/ Poll(Baton) \/ CancelReturns(Baton) \/ CallReturns
           \/ \E c \in Tasks : \/ Join(Baton, c) \/ SubtaskDrop(Baton, c)
                               \/ CancelResolved(Baton, c)
  BY <1>5, EventEntries
<1>6. CASE Backpressure(Baton, 1) \/ Backpressure(Baton, -1)
  <2>1. \E d \in {1, -1} : Backpressure(Baton, d)
    BY <1>6
  <2> QED
    BY <2>1, BackpressureEntries
<1>7. CASE CancelContinues(Baton)
  BY <1>7, CancelContinuesEntries
<1>8. ASSUME NEW c \in Tasks,
             \/ CancelAtEntry(Baton, c) \/ CancelStale(Baton, c)
             \/ \E async \in BOOLEAN : CancelResumes(Baton, c, async)
                                       \/ CancelPends(Baton, c, async)
      PROVE  G
  BY <1>8, CancelAtEntryEntries, CancelStaleEntries, CancelResumesEntries, CancelPendsEntries
<1>9. CASE Step
  BY <1>9, StepEntries
<1>10. CASE GuestTrap \/ TaskFails \/ Deadlock
  BY <1>10, TrapEntries
<1> QED
  BY <1>1, <1>2, <1>3, <1>4, <1>5, <1>6, <1>7, <1>8, <1>9, <1>10 DEF Next

\* Nothing is parked and the counters are zero.
LEMMA EntriesInit ==
  ASSUME Init
  PROVE  Entries
<1>1. /\ \A i \in Insts : gate[i].waiting = 0 /\ gate[i].backpressure = 0
      /\ \A t \in Tasks : task[t].park = "none"
  BY DEF Init
<1>2. \A t : ~IsParked(t)
  BY DEF Init, IsParked
<1>3. \A i : ParkedAtEntry(i) = {}
  BY <1>2 DEF ParkedAtEntry
<1>4. 0 \in 0..(BackpressureLimit - 1)
  BY TasksAssumption
<1>5. EntryCountersHold
  BY <1>1, <1>3, <1>4, FS_EmptySet DEF EntryCountersHold
<1> QED
  BY <1>1, <1>2, <1>5 DEF Entries, EntryPark

\* The gate's invariant is inductive beside the first, and entry is in order.
LEMMA EntriesStep ==
  ASSUME Core, Core', Entries, "fail" \notin Faults, [Next]_taskVars
  PROVE  Entries' /\ [\A u \in Tasks : InOrder(u)]_taskVars
<1>1. CASE Next
  BY <1>1, NextEntries
<1>2. CASE UNCHANGED taskVars
  <2>1. task' = task /\ gate' = gate /\ parked' = parked /\ stack' = stack
    BY <1>2 DEF taskVars
  <2>2. Entries'
    BY <2>1 DEF Entries, EntryCountersHold, EntryPark, ParkedAtEntry, IsParked, OnStack, I
  <2> QED
    BY <1>2, <2>2
<1> QED
  BY <1>1, <1>2

-----------------------------------------------------------------------------
(* Who waits synchronously for a subtask.                                  *)

FramesOf(s) == {s[k] : k \in DOMAIN s}
Frames == FramesOf(stack)

\* A builtin that waits for a subtask is of the instance that has it, and
\* a task that its caller still runs is not in its caller's table.
FrameWaits(f) ==
  /\ f.mode \in {"cancel", "sync"} => HeldBy(f.on, I(f.task))
  /\ f.mode = "cancel" /\ ~f.flag => ~sub[f.on].joined
  /\ f.via = "start" => ~sub[f.task].held

\* So is a task that parks for a subtask; no cancellation wakes it.
ParkWaits(t) ==
  IsParked(t) /\ task[t].park = "block" /\ task[t].awaits # "set" =>
    HeldBy(task[t].awaits, I(t)) /\ ~task[t].cancellable

\* m waits for the subtask of d, or was woken from that wait too early.
Watches(m, d) ==
  \/ \E f \in Frames : f.task = m /\ (\/ f.mode = "sync" /\ f.on = d
                                      \/ f.mode = "empty" /\ I(m) = I(task[d].caller))
  \/ IsParked(m) /\ task[m].park = "block" /\ task[m].awaits = d

Asleep(d) ==
  sub[d].sleeper =>
    /\ sub[d].held
    /\ ~gate[I(task[d].caller)].poisoned =>
         ~sub[d].joined /\ ~sub[d].delivered /\ \E m \in Tasks : Watches(m, d)

Sleepers ==
  /\ \A f \in Frames : FrameWaits(f)
  /\ \A t \in Tasks : ParkWaits(t) /\ Asleep(t)

\* A step keeps what others say of the subtask of d.
Kept(d) == /\ sub'[d].held = sub[d].held /\ sub'[d].joined = sub[d].joined
           /\ sub'[d].sleeper = sub[d].sleeper /\ sub'[d].delivered = sub[d].delivered

\* a has its instance to itself, or may have it.
Owns(a) == I(a) \in Insts /\ gate[I(a)].owner \in {NoTask, a}

\* Only tasks of M move, and none changes its instance or its caller.
Moves(M) ==
  /\ \A f \in Frames' : f.task \notin M => f \in Frames
  /\ \A f \in Frames : f.task \notin M => f \in Frames'
  /\ \A u \in Tasks \ M :
       /\ IsParked(u)' <=> IsParked(u)
       /\ task'[u].park = task[u].park /\ task'[u].awaits = task[u].awaits
       /\ task'[u].cancellable = task[u].cancellable
  /\ \A u \in Tasks : task[u].state # "fresh" =>
       task'[u].inst = task[u].inst /\ task'[u].caller = task[u].caller
  /\ \A i \in Insts : gate'[i].poisoned = gate[i].poisoned

\* A subtask that a step touches is in no table yet, or in that of a mover.
Touches(M, d) ==
  \/ Kept(d)
  \/ d \in M /\ ~sub[d].held /\ ~sub'[d].sleeper
  \/ /\ \E a \in M : Owns(a) /\ HeldBy(d, I(a))
     /\ sub'[d].sleeper => (sub[d].sleeper /\ sub'[d].held) \/ Asleep(d)'

\* What is on the stack.
LEMMA FramesAre ==
  ASSUME Types
  PROVE  /\ \A f \in Frames : f \in Frame /\ f.task \in Tasks /\ f.task \in OnStack
         /\ \A u \in OnStack : \E f \in Frames : f.task = u
<1>1. \A k \in DOMAIN stack : stack[k] \in Frame
  BY DEF Types
<1>2. \A k \in DOMAIN stack : stack[k] \in Frames /\ stack[k].task \in OnStack
  BY DEF Frames, FramesOf, OnStack
<1>3. \A f \in Frames : \E k \in DOMAIN stack : f = stack[k]
  BY DEF Frames, FramesOf
<1>4. \A u \in OnStack : \E k \in DOMAIN stack : u = stack[k].task
  BY DEF OnStack
<1> QED
  BY <1>1, <1>2, <1>3, <1>4 DEF Frame

\* A task has one frame.
LEMMA OneFrame ==
  ASSUME Distinct, NEW f \in Frames, NEW h \in Frames, f.task = h.task
  PROVE  f = h
BY DEF Distinct, Frames, FramesOf

\* The running task has the frame on top.
LEMMA TopFrame ==
  ASSUME Core, stack # <<>>
  PROVE  /\ Top \in Frames /\ \A f \in Frames : f.task = Top.task => f = Top
         /\ ~IsParked(Top.task) /\ Owns(Top.task)
<1>1. Types /\ Distinct /\ 1 \in DOMAIN stack /\ Top = stack[1]
  BY TopIs DEF Core, Located, Placed
<1>2. Top \in Frames
  BY <1>1 DEF Frames, FramesOf
<1>3. Top.task \in Tasks /\ ~IsParked(Top.task) /\ Top.task \in OnStack /\ I(Top.task) \in Insts
  BY Runner
<1>4. gate[I(Top.task)].owner = Top.task
  BY <1>3 DEF Core, Located, Exclusivity, HasFrames
<1> QED
  BY <1>1, <1>2, <1>3, <1>4, OneFrame DEF Owns

\* A task with frames is the only one that may have its instance.
LEMMA FramesOwn ==
  ASSUME Core, NEW u \in Tasks, HasFrames(u), NEW a, Owns(a), I(a) = I(u)
  PROVE  u = a
<1>1. gate[I(u)].owner = u
  BY DEF Core, Located, Exclusivity
<1> QED
  BY <1>1, TasksAssumption DEF Owns

\* A subtask in a table stays its caller's, and its caller has an instance.
LEMMA HeldStays ==
  ASSUME Core, NEW M, Moves(M), NEW d \in Tasks, sub[d].held
  PROVE  /\ task[d].caller \in Tasks /\ task'[d].caller = task[d].caller
         /\ I(task[d].caller) \in Insts /\ I(task[d].caller)' = I(task[d].caller)
<1>1. task[d].caller # NoTask /\ Types /\ Located
  BY HasCaller DEF Core
<1>2. task[d].caller \in Tasks /\ task[task[d].caller].state # "fresh"
  BY <1>1 DEF Types, TaskRecord, Located, Life
<1>3. task[d].state # "fresh"
  BY <1>1 DEF Located, Life
<1>4. I(task[d].caller) \in Insts
  BY <1>1, <1>2, Somewhere
<1> QED
  BY <1>2, <1>3, <1>4 DEF Moves, I

\* Who waits has frames in the instance that has the subtask.
LEMMA WatcherIs ==
  ASSUME Core, Sleepers, NEW m \in Tasks, NEW d \in Tasks, Watches(m, d)
  PROVE  HasFrames(m) /\ I(m) = I(task[d].caller)
<1>1. ASSUME NEW f \in Frames, f.task = m,
             \/ f.mode = "sync" /\ f.on = d
             \/ f.mode = "empty" /\ I(m) = I(task[d].caller)
      PROVE  HasFrames(m) /\ I(m) = I(task[d].caller)
  <2>1. m \in OnStack
    BY <1>1, FramesAre DEF Core
  <2>2. I(m) = I(task[d].caller)
    BY <1>1 DEF Sleepers, FrameWaits, HeldBy
  <2> QED
    BY <2>1, <2>2 DEF HasFrames
<1>2. CASE IsParked(m) /\ task[m].park = "block" /\ task[m].awaits = d
  <2>1. d # "set"
    BY TasksAssumption
  <2> QED
    BY <1>2, <2>1 DEF Sleepers, ParkWaits, HeldBy, HasFrames
<1> QED
  BY <1>1, <1>2, Zenon DEF Watches

\* What a task that does not move waits for is as it was.
LEMMA HeldIsKept ==
  ASSUME Core, NEW M, Moves(M), \A d \in Tasks : Touches(M, d),
         NEW u \in Tasks, u \notin M, HasFrames(u), NEW d \in Tasks, HeldBy(d, I(u))
  PROVE  HeldBy(d, I(u))' /\ sub'[d].joined = sub[d].joined
<1>1. \A a \in M : ~(Owns(a) /\ HeldBy(d, I(a)))
  BY FramesOwn DEF HeldBy
<1>2. Kept(d)
  BY <1>1 DEF Touches, HeldBy
<1>3. I(u)' = I(u)
  <2>1. task[u].state # "fresh"
    BY Somewhere DEF Core, HasFrames
  <2> QED
    BY <2>1 DEF Moves, I
<1>4. sub[d].held /\ I(task[d].caller) = I(u)
  BY DEF HeldBy
<1> QED
  BY <1>2, <1>3, <1>4, HeldStays DEF HeldBy, Kept

\* What the frames and the parks that stay wait for is kept.
LEMMA FramesWait ==
  ASSUME Core, Sleepers, NEW M, Moves(M), \A d \in Tasks : Touches(M, d),
         NEW f \in Frames', f.task \notin M
  PROVE  FrameWaits(f)'
<1>1. Types
  BY DEF Core
<1>2. f \in Frames /\ FrameWaits(f) /\ f.task \in Tasks /\ f.task \in OnStack /\ f \in Frame
  BY <1>1, FramesAre DEF Moves, Sleepers
<1>3. ASSUME f.mode \in {"cancel", "sync"}
      PROVE  HeldBy(f.on, I(f.task))' /\ sub'[f.on].joined = sub[f.on].joined
  <2>1. f.on \in Tasks
    <3>1. \E k \in DOMAIN stack : stack[k] = f
      BY <1>2 DEF Frames, FramesOf
    <3> QED
      BY <1>3, <3>1 DEF Core, Names, Knows
  <2>2. HeldBy(f.on, I(f.task)) /\ HasFrames(f.task)
    BY <1>2, <1>3 DEF FrameWaits, HasFrames
  <2> QED
    BY <1>2, <2>1, <2>2, HeldIsKept
<1>4. f.via = "start" => ~sub'[f.task].held
  <2>1. f.via = "start" => ~sub[f.task].held
    BY <1>2 DEF FrameWaits
  <2> QED
    BY <1>2, <2>1 DEF Touches, HeldBy, Kept
<1> QED
  BY <1>2, <1>3, <1>4 DEF FrameWaits

\* So is what the parks that stay wait for.
LEMMA ParksWait ==
  ASSUME Core, Sleepers, NEW M, Moves(M), \A d \in Tasks : Touches(M, d),
         NEW u \in Tasks, u \notin M
  PROVE  ParkWaits(u)'
<1>1. ParkWaits(u) /\ task[u].awaits \in Tasks \cup {"set"}
  BY DEF Sleepers, Core, Types, TaskRecord
<1>2. /\ IsParked(u)' <=> IsParked(u)
      /\ task'[u].park = task[u].park /\ task'[u].awaits = task[u].awaits
      /\ task'[u].cancellable = task[u].cancellable
  BY DEF Moves
<1> SUFFICES ASSUME IsParked(u), task[u].park = "block", task[u].awaits # "set"
             PROVE  HeldBy(task[u].awaits, I(u))'
  BY <1>1, <1>2 DEF ParkWaits
<1>3. HeldBy(task[u].awaits, I(u)) /\ HasFrames(u) /\ task[u].awaits \in Tasks
  BY <1>1 DEF ParkWaits, HasFrames
<1>4. PICK d \in Tasks : d = task[u].awaits
  BY <1>3
<1>5. HeldBy(d, I(u))'
  BY <1>3, <1>4, HeldIsKept
<1>6. task'[u].awaits = d
  BY <1>2, <1>4
<1> QED
  BY <1>5, <1>6

\* A subtask that none of the movers waits for.
LEMMA AsleepStays ==
  ASSUME Core, Core', Sleepers, NEW M, Moves(M), NEW d \in Tasks, Touches(M, d),
         \A m \in M : ~Watches(m, d)
  PROVE  Asleep(d)'
<1>1. Asleep(d)
  BY DEF Sleepers
<1>2. CASE Kept(d) /\ sub[d].sleeper
  <2>1. sub[d].held
    BY <1>1, <1>2 DEF Asleep
  <2>2. /\ task'[d].caller = task[d].caller
        /\ I(task[d].caller) \in Insts /\ I(task[d].caller)' = I(task[d].caller)
    BY <2>1, HeldStays
  <2>3. gate'[I(task[d].caller)].poisoned = gate[I(task[d].caller)].poisoned
    BY <2>2 DEF Moves
  <2>4. ASSUME NEW m \in Tasks, Watches(m, d) PROVE Watches(m, d)'
    <3>1. m \notin M /\ HasFrames(m)
      BY <2>4, WatcherIs
    <3>2. task[m].state # "fresh"
      BY <3>1, Somewhere DEF Core, HasFrames
    <3>3. I(m)' = I(m)
      BY <3>2 DEF Moves, I
    <3> QED
      BY <2>2, <2>4, <3>1, <3>3 DEF Watches, Moves, I
  <2>5. gate[I(task[d].caller)]'.poisoned = gate[I(task[d].caller)].poisoned
    BY <2>2, <2>3 DEF I
  <2> QED
    BY <1>1, <1>2, <2>1, <2>4, <2>5 DEF Asleep, Kept
<1>3. CASE ~Kept(d) /\ (\E a \in M : Owns(a) /\ HeldBy(d, I(a))) /\ sub'[d].sleeper /\ ~Asleep(d)'
  <2>1. PICK a \in M : Owns(a) /\ HeldBy(d, I(a))
    BY <1>3
  <2>2. sub[d].sleeper /\ sub'[d].held /\ sub[d].held
    BY <1>3, <2>1 DEF Touches, HeldBy
  <2>3. gate[I(task[d].caller)].poisoned
    <3> SUFFICES ASSUME ~gate[I(task[d].caller)].poisoned PROVE FALSE
      OBVIOUS
    <3>1. PICK m \in Tasks : Watches(m, d)
      BY <1>1, <2>2 DEF Asleep
    <3>2. m \notin M
      BY <3>1
    <3>3. m = a
      BY <2>1, <3>1, WatcherIs, FramesOwn DEF HeldBy
    <3> QED
      BY <2>1, <3>2, <3>3
  <2>4. /\ task'[d].caller = task[d].caller
        /\ I(task[d].caller) \in Insts /\ I(task[d].caller)' = I(task[d].caller)
    BY <2>2, HeldStays
  <2>5. gate[I(task[d].caller)]'.poisoned
    BY <2>3, <2>4 DEF I, Moves
  <2> QED
    BY <2>2, <2>5 DEF Asleep
<1> QED
  BY <1>2, <1>3 DEF Touches, Asleep, Kept

\* The invariant after a step of M, if what M did is right.
LEMMA SleepersMove ==
  ASSUME Core, Core', Sleepers, NEW M, Moves(M), \A d \in Tasks : Touches(M, d),
         \A f \in Frames' : f.task \in M => FrameWaits(f)',
         \A m \in M : ParkWaits(m)',
         \A d \in Tasks : \A m \in M : Watches(m, d) => Asleep(d)'
  PROVE  Sleepers'
<1>1. \A f \in Frames' : FrameWaits(f)'
  BY FramesWait
<1>2. \A u \in Tasks : ParkWaits(u)'
  BY ParksWait
<1>3. \A d \in Tasks : Asleep(d)'
  BY AsleepStays
<1> QED
  BY <1>1, <1>2, <1>3 DEF Sleepers

\* Where a task stands when it does not move.
Steady(u) == /\ task'[u].inst = task[u].inst /\ task'[u].caller = task[u].caller
             /\ task'[u].park = task[u].park /\ task'[u].awaits = task[u].awaits
             /\ task'[u].cancellable = task[u].cancellable
KeepsPoison == \A i \in Insts : gate'[i].poisoned = gate[i].poisoned

\* The frames when only the one on top changes,
LEMMA FramesTop ==
  ASSUME Types, Distinct, stack # <<>>, NEW s, SameFrames(s)
  PROVE  /\ \A f \in FramesOf(s) : f.task # Top.task => f \in Frames
         /\ \A f \in Frames : f.task # Top.task => f \in FramesOf(s)
         /\ \A f \in FramesOf(s) : f.task = Top.task => f = s[1]
         /\ \A f \in FramesOf(s) : f.task \in OnStack
         /\ s[1].task = Top.task /\ s[1].via = Top.via /\ 1 \in DOMAIN s
<1>1. 1 \in DOMAIN stack /\ Top = stack[1] /\ DOMAIN s = DOMAIN stack
  BY TopIs DEF SameFrames
<1>2. \A k \in DOMAIN stack : s[k].task = stack[k].task /\ s[k].via = stack[k].via
  BY DEF SameFrames
<1>3. \A k \in DOMAIN stack : k # 1 => s[k] = stack[k]
  BY DEF SameFrames
<1>4. ASSUME NEW k \in DOMAIN stack, stack[k].task = Top.task PROVE k = 1
  BY <1>1, <1>4 DEF Distinct
<1>5. ASSUME NEW f \in FramesOf(s) PROVE \E k \in DOMAIN stack : f = s[k]
  BY <1>1 DEF FramesOf
<1>6. ASSUME NEW f \in Frames PROVE \E k \in DOMAIN stack : f = stack[k]
  BY DEF Frames, FramesOf
<1>7. \A k \in DOMAIN stack : stack[k] \in Frames /\ s[k] \in FramesOf(s) /\ stack[k].task \in OnStack
  BY <1>1 DEF Frames, FramesOf, OnStack
<1>8. ASSUME NEW f \in FramesOf(s)
      PROVE  /\ f.task # Top.task => f \in Frames
             /\ f.task = Top.task => f = s[1]
             /\ f.task \in OnStack
  <2>1. PICK k \in DOMAIN stack : f = s[k]
    BY <1>5
  <2> QED
    BY <1>1, <1>2, <1>3, <1>4, <1>7, <2>1
<1>9. ASSUME NEW f \in Frames, f.task # Top.task PROVE f \in FramesOf(s)
  <2>1. PICK k \in DOMAIN stack : f = stack[k]
    BY <1>6
  <2> QED
    BY <1>1, <1>3, <1>7, <1>9, <2>1
<1> QED
  BY <1>1, <1>2, <1>8, <1>9

\* when it is popped,
LEMMA FramesPop ==
  ASSUME Types, Distinct, stack # <<>>, stack' = Tail(stack)
  PROVE  /\ \A f \in Frames' : f \in Frames /\ f.task # Top.task
         /\ \A f \in Frames : f.task # Top.task => f \in Frames'
<1>1. /\ Top = stack[1] /\ 1 \in DOMAIN stack
      /\ \A k \in DOMAIN stack' : k + 1 \in DOMAIN stack /\ k + 1 # 1 /\ stack'[k] = stack[k + 1]
      /\ \A k \in DOMAIN stack \ {1} : k - 1 \in DOMAIN stack' /\ stack'[k - 1] = stack[k]
  BY PopFacts
<1>2. ASSUME NEW f \in Frames' PROVE f \in Frames /\ f.task # Top.task
  <2>1. PICK k \in DOMAIN stack' : f = stack'[k]
    BY DEF Frames, FramesOf
  <2>2. PICK l \in DOMAIN stack : l # 1 /\ f = stack[l]
    BY <1>1, <2>1
  <2>3. f \in Frames
    BY <2>2 DEF Frames, FramesOf
  <2> QED
    BY <1>1, <2>2, <2>3 DEF Distinct
<1>3. ASSUME NEW f \in Frames, f.task # Top.task PROVE f \in Frames'
  <2>1. PICK k \in DOMAIN stack : f = stack[k]
    BY DEF Frames, FramesOf
  <2>2. k \in DOMAIN stack \ {1}
    BY <1>1, <1>3, <2>1
  <2>3. \E l \in DOMAIN stack' : f = stack'[l]
    BY <1>1, <2>1, <2>2
  <2> QED
    BY <2>3 DEF Frames, FramesOf
<1> QED
  BY <1>2, <1>3

\* and when one more is pushed.
LEMMA FramesPush ==
  ASSUME Types, NEW f \in Frame, NEW s \in Seq(Frame), stack' = <<f>> \o s
  PROVE  /\ \A h \in Frames' : h = f \/ h \in FramesOf(s)
         /\ f \in Frames' /\ \A h \in FramesOf(s) : h \in Frames'
<1>1. /\ 1 \in DOMAIN stack' /\ stack'[1] = f
      /\ \A k \in DOMAIN s : k + 1 \in DOMAIN stack' /\ stack'[k + 1] = s[k]
      /\ \A k \in DOMAIN stack' \ {1} : k - 1 \in DOMAIN s /\ stack'[k] = s[k - 1]
  BY PushFacts
<1>2. ASSUME NEW h \in Frames' PROVE h = f \/ h \in FramesOf(s)
  <2>1. PICK k \in DOMAIN stack' : h = stack'[k]
    BY DEF Frames, FramesOf
  <2>2. k = 1 \/ \E l \in DOMAIN s : h = s[l]
    BY <1>1, <2>1
  <2> QED
    BY <1>1, <2>1, <2>2 DEF FramesOf
<1>3. ASSUME NEW h \in FramesOf(s) PROVE h \in Frames'
  <2>1. PICK k \in DOMAIN s : h = s[k]
    BY DEF FramesOf
  <2>2. \E l \in DOMAIN stack' : h = stack'[l]
    BY <1>1, <2>1
  <2> QED
    BY <2>2 DEF Frames, FramesOf
<1>4. f \in Frames'
  BY <1>1 DEF Frames, FramesOf
<1> QED
  BY <1>2, <1>3, <1>4

\* Whoever is not parked waits for nothing there.
LEMMA NotParkedWaits ==
  ASSUME NEW m, ~IsParked(m)'
  PROVE  ParkWaits(m)'
BY DEF ParkWaits

\* What the task on top may wait for.
LEMMA TopWatches ==
  ASSUME Core, stack # <<>>, NEW d, Watches(Top.task, d)
  PROVE  (Top.mode = "sync" /\ Top.on = d) \/ Top.mode = "empty"
BY TopFrame DEF Watches

\* A record that stays keeps everything.
LEMMA SameIsKept ==
  ASSUME NEW d, sub'[d] = sub[d]
  PROVE  Kept(d)
BY DEF Kept

\* Only the running frame changes, and subtasks of its own instance.
LEMMA TopSleepers ==
  ASSUME Core, Core', Sleepers, NEW t, stack # <<>>, Top.task = t, SameFrames(stack'),
         parked' = parked, \A u \in Tasks : Steady(u), KeepsPoison,
         \A d \in Tasks :
           \/ Kept(d)
           \/ HeldBy(d, I(t)) /\ (sub'[d].sleeper => (sub[d].sleeper /\ sub'[d].held) \/ Asleep(d)'),
         stack'[1].mode \in {"cancel", "sync"} => HeldBy(stack[1].on, I(t))',
         stack'[1].mode = "cancel" /\ ~stack'[1].flag => ~sub'[stack'[1].on].joined,
         \A d \in Tasks : Watches(t, d) => Asleep(d)'
  PROVE  Sleepers'
<1>1. Types /\ Distinct /\ t \in Tasks /\ ~IsParked(t) /\ Owns(t)
  BY Runner, TopFrame DEF Core, Located, Placed
<1>2. /\ \A f \in Frames' : f.task # t => f \in Frames
      /\ \A f \in Frames : f.task # t => f \in Frames'
      /\ \A f \in Frames' : f.task = t => f = stack'[1]
      /\ stack'[1].task = t /\ stack'[1].via = Top.via
  BY <1>1, FramesTop DEF Frames
<1>3. \A u : IsParked(u)' <=> IsParked(u)
  BY DEF IsParked
<1>4. Moves({t})
  BY <1>2, <1>3 DEF Moves, Steady, KeepsPoison
<1>5. \A d \in Tasks : Touches({t}, d)
  BY <1>1 DEF Touches
<1>6. FrameWaits(stack[1])'
  <2>1. Top.via = "start" => ~sub[t].held
    BY TopFrame DEF Sleepers, FrameWaits
  <2>2. Top.via = "start" => ~sub'[t].held
    BY <1>1, <2>1 DEF HeldBy, Kept
  <2>3. I(t)' = task'[t].inst
    BY DEF I
  <2> QED
    BY <1>2, <2>2 DEF FrameWaits
<1>7. ParkWaits(t)'
  BY <1>1, <1>3, NotParkedWaits
<1>8. \A f \in Frames' : f.task \in {t} => FrameWaits(f)'
  BY <1>2, <1>6
<1> QED
  BY <1>1, <1>4, <1>5, <1>7, <1>8, SleepersMove

\* The running task gives the baton back.
LEMMA PopSleepers ==
  ASSUME Core, Core', Sleepers, NEW t, stack # <<>>, Top.task = t, stack' = Tail(stack),
         Top.mode \notin {"sync", "empty"}, KeepsPoison,
         parked' = parked \/ parked' = Append(parked, t),
         \A u \in Tasks \ {t} : Steady(u),
         task'[t].inst = task[t].inst, task'[t].caller = task[t].caller,
         \A d \in Tasks :
           \/ Kept(d)
           \/ d = t /\ ~sub[d].held /\ ~sub'[d].sleeper
           \/ HeldBy(d, I(t)) /\ (sub'[d].sleeper => (sub[d].sleeper /\ sub'[d].held) \/ Asleep(d)'),
         ParkWaits(t)'
  PROVE  Sleepers'
<1>1. Types /\ Distinct /\ Once(parked) /\ t \in Tasks /\ ~IsParked(t) /\ Owns(t)
  BY Runner, TopFrame DEF Core, Located, Placed
<1>2. /\ \A f \in Frames' : f \in Frames /\ f.task # t
      /\ \A f \in Frames : f.task # t => f \in Frames'
  BY <1>1, FramesPop
<1>3. \A u \in Tasks \ {t} : IsParked(u)' <=> IsParked(u)
  <2>1. CASE parked' = parked
    BY <2>1 DEF IsParked
  <2>2. CASE parked' = Append(parked, t)
    BY <1>1, <2>2, Parks
  <2> QED
    BY <2>1, <2>2
<1>4. Moves({t})
  BY <1>2, <1>3 DEF Moves, Steady, KeepsPoison
<1>5. \A d \in Tasks : Touches({t}, d)
  BY <1>1 DEF Touches
<1>6. \A d \in Tasks : ~Watches(t, d)
  BY TopWatches
<1> QED
  BY <1>2, <1>4, <1>5, <1>6, SleepersMove

\* What marks and resolutions leave alone.
LEMMA SubsKeep ==
  ASSUME Types, NEW c \in Tasks
  PROVE  /\ \A how : \A d \in Tasks : /\ Resolve(sub, c, how)[d].held = sub[d].held
                                      /\ Resolve(sub, c, how)[d].joined = sub[d].joined
                                      /\ Resolve(sub, c, how)[d].sleeper = sub[d].sleeper
                                      /\ Resolve(sub, c, how)[d].delivered = sub[d].delivered
         /\ \A d \in Tasks \ {c} : Deliver(sub, c)[d] = sub[d]
         /\ Deliver(sub, c)[c].sleeper = sub[c].sleeper /\ Deliver(sub, c)[c].held = sub[c].held
<1>1. sub \in [Tasks -> SubRecord]
  BY DEF Types
<1>2. ASSUME NEW how, NEW d \in Tasks
      PROVE  /\ Resolve(sub, c, how)[d].held = sub[d].held
             /\ Resolve(sub, c, how)[d].joined = sub[d].joined
             /\ Resolve(sub, c, how)[d].sleeper = sub[d].sleeper
             /\ Resolve(sub, c, how)[d].delivered = sub[d].delivered
  <2>1. CASE d = c
    BY <1>1, <2>1, ResolveFacts
  <2>2. CASE d # c
    BY <1>1, <2>2, ResolveFacts
  <2> QED
    BY <2>1, <2>2
<1>3. /\ \A d \in Tasks \ {c} : Deliver(sub, c)[d] = sub[d]
      /\ Deliver(sub, c)[c].sleeper = sub[c].sleeper /\ Deliver(sub, c)[c].held = sub[c].held
  BY <1>1, DeliverFacts
<1> QED
  BY <1>2, <1>3

\* The task on top runs on, and its state may change.
LEMMA StatesSleepers ==
  ASSUME Core, Core', Sleepers, NEW t, TaskReturn(t) \/ TaskCancel(t) \/ WaitIsCancelled(t)
  PROVE  Sleepers'
<1>1. Types /\ stack # <<>> /\ Top.task = t /\ Top.mode = "run" /\ UNCHANGED <<gate, parked, stack>>
  BY DEF Core, TaskReturn, TaskCancel, WaitIsCancelled, MayWait, Runs
<1>2. t \in Tasks /\ task \in [Tasks -> TaskRecord] /\ Top = stack[1]
  BY <1>1, Runner DEF Types
<1>3. \E x \in {"delivered", "resolved"} : task' = WithState(task, t, x)
  BY DEF TaskReturn, TaskCancel, WaitIsCancelled, WithState
<1>4. ASSUME NEW u \in Tasks PROVE Steady(u)
  <2>1. PICK x \in {"delivered", "resolved"} : task' = WithState(task, t, x)
    BY <1>3
  <2>2. /\ \A v \in Tasks \ {t} : task'[v] = task[v]
        /\ task'[t].inst = task[t].inst /\ task'[t].caller = task[t].caller
        /\ task'[t].park = task[t].park /\ task'[t].cancellable = task[t].cancellable
        /\ task'[t].awaits = task[t].awaits
    BY <1>2, <2>1, StateChanges
  <2> QED
    BY <2>2 DEF Steady
<1>5. \A d \in Tasks : Kept(d)
  <2>1. sub' = sub \/ \E how : sub' = Resolve(sub, t, how)
    BY DEF TaskReturn, TaskCancel, WaitIsCancelled
  <2> QED
    BY <1>1, <1>2, <2>1, SubsKeep DEF Kept
<1>6. SameFrames(stack') /\ KeepsPoison
  BY <1>1 DEF SameFrames, KeepsPoison, Types
<1> QED
  BY <1>1, <1>2, <1>4, <1>5, <1>6, TopWatches, TopSleepers

\* Builtins that read or change subtasks of the running task's instance
LEMMA SubsSleepers ==
  ASSUME Core, Core', Sleepers, NEW t,
         \/ Poll(t)
         \/ \E c \in Tasks : Join(t, c) \/ SubtaskDrop(t, c) \/ CancelResolved(t, c)
  PROVE  Sleepers'
<1>1. /\ Types /\ stack # <<>> /\ Top.task = t /\ Top.mode = "run"
      /\ UNCHANGED <<task, gate, parked, stack>>
  BY DEF Core, Poll, Join, SubtaskDrop, CancelResolved, MayCancel, MayWait, Runs
<1>2. t \in Tasks /\ sub \in [Tasks -> SubRecord] /\ Top = stack[1]
  BY <1>1, Runner DEF Types
<1>3. \E c \in Tasks : HeldBy(c, I(t)) /\ sub' \in {Deliver(sub, c), Joins(c), [sub EXCEPT ![c] = NoSubtask]}
  BY DEF Poll, TakeFromSet, Join, SubtaskDrop, CancelResolved, MayCancel, Joins
<1>4. PICK c \in Tasks : HeldBy(c, I(t)) /\ sub' \in {Deliver(sub, c), Joins(c), [sub EXCEPT ![c] = NoSubtask]}
  BY <1>3
<1>5. /\ \A d \in Tasks \ {c} : sub'[d] = sub[d]
      /\ sub'[c].sleeper => sub[c].sleeper /\ sub'[c].held
  <2>1. CASE sub' = Deliver(sub, c)
    BY <1>1, <1>4, <2>1, SubsKeep DEF HeldBy
  <2>2. CASE sub' = Joins(c)
    BY <1>2, <1>4, <2>2, FlagFacts DEF HeldBy, LikeBut
  <2>3. CASE sub' = [sub EXCEPT ![c] = NoSubtask]
    BY <1>2, <2>3 DEF NoSubtask
  <2> QED
    BY <1>4, <2>1, <2>2, <2>3
<1>6. \A d \in Tasks \ {c} : Kept(d)
  BY <1>5 DEF Kept
<1>7. \A u \in Tasks : Steady(u)
  BY <1>1 DEF Steady
<1>8. SameFrames(stack') /\ KeepsPoison
  BY <1>1 DEF SameFrames, KeepsPoison, Types
<1> QED
  BY <1>1, <1>2, <1>4, <1>5, <1>6, <1>7, <1>8, TopWatches, TopSleepers

\* waitable-set.wait of a callback, and the drive that ends
LEMMA DriveSleepers ==
  ASSUME Core, Core', Sleepers, NEW t, NEW b \in BOOLEAN, WaitDrives(t, b) \/ WaitReturns(t)
  PROVE  Sleepers'
<1>1. /\ Types /\ stack # <<>> /\ Top.task = t /\ parked' = parked
      /\ Top.mode \in {"run", "drive"}
  BY DEF Core, WaitDrives, WaitReturns, MayWait, Runs
<1>2. /\ t \in Tasks /\ I(t) \in Insts /\ Top \in Frame /\ gate \in [Insts -> GateSet]
      /\ task \in [Tasks -> TaskRecord] /\ sub \in [Tasks -> SubRecord]
  BY <1>1, Runner DEF Types
<1>3. KeepsPoison
  <2>1. gate' = Waits(gate, I(t)) \/ gate' = Unwaits(gate, I(t))
    BY DEF WaitDrives, WaitReturns
  <2> QED
    BY <1>2, <2>1, GateCounters DEF KeepsPoison, KeepsCounters
<1>4. SameFrames(stack') /\ stack'[1].mode \in {"drive", "run"}
  <2>1. CASE WaitDrives(t, b)
    <3>1. Marks(stack', "drive", Top.on, b) /\ Top.on \in Tasks \cup {NoTask}
      BY <1>2, <2>1 DEF WaitDrives, Marks, Frame
    <3> QED
      BY <1>1, <3>1, TopMarked
  <2>2. CASE WaitReturns(t)
    BY <1>1, <2>2, RunsAgain DEF WaitReturns
  <2> QED
    BY <2>1, <2>2
<1>5. \A u \in Tasks : Steady(u)
  <2>1. CASE task' = task
    BY <2>1 DEF Steady
  <2>2. CASE task' = WithState(task, t, "delivered")
    <3>1. /\ \A v \in Tasks \ {t} : task'[v] = task[v]
          /\ task'[t].inst = task[t].inst /\ task'[t].caller = task[t].caller
          /\ task'[t].park = task[t].park /\ task'[t].cancellable = task[t].cancellable
          /\ task'[t].awaits = task[t].awaits
      BY <1>2, <2>2, StateChanges
    <3> QED
      BY <3>1 DEF Steady
  <2> QED
    BY <2>1, <2>2 DEF WaitDrives, WaitReturns, WithState
<1>6. sub' = sub \/ \E c \in Tasks : HeldBy(c, I(t)) /\ sub' = Deliver(sub, c)
  BY DEF WaitDrives, WaitReturns, TakeFromSet
<1>7. ASSUME NEW d \in Tasks
      PROVE  Kept(d) \/ (HeldBy(d, I(t)) /\ (sub'[d].sleeper => sub[d].sleeper /\ sub'[d].held))
  <2>1. CASE sub' = sub
    BY <2>1, SameIsKept
  <2>2. ASSUME NEW c \in Tasks, HeldBy(c, I(t)), sub' = Deliver(sub, c)
        PROVE  Kept(d) \/ (HeldBy(d, I(t)) /\ (sub'[d].sleeper => sub[d].sleeper /\ sub'[d].held))
    <3>1. CASE d = c
      BY <1>1, <2>2, <3>1, SubsKeep DEF HeldBy
    <3>2. CASE d # c
      BY <1>1, <2>2, <3>2, SubsKeep, SameIsKept
    <3> QED
      BY <3>1, <3>2
  <2> QED
    BY <1>6, <2>1, <2>2
<1> QED
  BY <1>1, <1>3, <1>4, <1>5, <1>7, TopWatches, TopSleepers

\* A synchronous subtask.cancel has its event.
LEMMA CancelReturnsSleepers ==
  ASSUME Core, Core', Sleepers, NEW t, CancelReturns(t)
  PROVE  Sleepers'
<1>1. /\ Types /\ stack # <<>> /\ Top.task = t /\ Top.mode = "sync"
      /\ UNCHANGED <<task, gate, parked>>
      /\ stack' = [stack EXCEPT ![1] = Running(t, Top.via)]
  BY DEF Core, CancelReturns
<1>2. HeldBy(Top.on, I(t)) /\ Top.on \in Tasks
  <2>1. Top = stack[1] /\ 1 \in DOMAIN stack
    BY <1>1, Runner
  <2> QED
    BY <1>1, <2>1, TopFrame DEF Sleepers, FrameWaits, Core, Names, Knows
<1>3. PICK c \in Tasks : c = Top.on
  BY <1>2
<1>4. /\ \A d \in Tasks \ {c} : sub'[d] = sub[d]
      /\ ~sub'[c].sleeper
  <2> DEFINE h == Deliver(sub, c)
             b == FALSE
  <2>1. sub' = Sleeps(h, c, b)
    BY <1>3 DEF CancelReturns, Sleeps
  <2>2. h \in [Tasks -> SubRecord] /\ \A d \in Tasks \ {c} : h[d] = sub[d]
    BY <1>1, DeliverFacts DEF Types
  <2>3. b \in BOOLEAN
    OBVIOUS
  <2> HIDE DEF h, b
  <2>4. LikeBut(sub', h, c) /\ sub'[c].sleeper = b
    BY <2>1, <2>2, <2>3, FlagFacts
  <2> QED
    BY <2>2, <2>4 DEF LikeBut, b
<1>5. \A d \in Tasks : Kept(d) \/ (HeldBy(d, I(t)) /\ ~sub'[d].sleeper)
  BY <1>2, <1>3, <1>4, SameIsKept
<1>6. SameFrames(stack') /\ stack'[1].mode = "run"
  BY <1>1, RunsAgain
<1>7. (\A u \in Tasks : Steady(u)) /\ KeepsPoison
  BY <1>1 DEF Steady, KeepsPoison
<1>8. \A d \in Tasks : Watches(t, d) => Asleep(d)'
  BY <1>1, <1>3, <1>4, TopWatches DEF Asleep
<1> QED
  BY <1>1, <1>5, <1>6, <1>7, <1>8, TopSleepers

\* The caller of a task that gives the baton back first sees it now.
LEMMA SeenSleepers ==
  ASSUME Core, Sleepers, stack # <<>>, NEW t, Top.task = t, Top.via = "start"
  PROVE  /\ ~sub[t].held /\ ~SeenByCaller(t)[t].sleeper
         /\ \A d \in Tasks \ {t} : SeenByCaller(t)[d] = sub[d]
<1>1. Types /\ t \in Tasks
  BY Runner DEF Core
<1>2. ~sub[t].held
  BY TopFrame DEF Sleepers, FrameWaits
<1>3. ~sub[t].sleeper
  BY <1>1, <1>2 DEF Sleepers, Asleep
<1>4. ~NoSubtask.sleeper
  BY DEF NoSubtask
<1> QED
  BY <1>1, <1>2, <1>3, <1>4, SeenFacts

\* EXIT, WAIT and YIELD, and a wait that blocks
LEMMA LeaveSleepers ==
  ASSUME Core, Core', Sleepers, NEW t,
         Exit(t) \/ (\E p \in {"wait", "yield"} : CallbackParks(t, p))
                 \/ (\E b \in BOOLEAN : WaitBlocks(t, b))
  PROVE  Sleepers'
<1>1. Types /\ stack # <<>> /\ Top.task = t /\ Top.mode = "run" /\ stack' = Tail(stack)
  BY DEF Core, Exit, CallbackParks, WaitBlocks, MayWait, Runs, Pop
<1>2. /\ t \in Tasks /\ I(t) \in Insts /\ task \in [Tasks -> TaskRecord]
      /\ gate \in [Insts -> GateSet] /\ task[t] \in TaskRecord /\ ~IsParked(t)
  BY <1>1, Runner DEF Types
<1>3. \A u \in Tasks \ {t} : Steady(u)
  BY <1>2 DEF Exit, CallbackParks, WaitBlocks, Block, Steady
<1>4. /\ task'[t].inst = task[t].inst /\ task'[t].caller = task[t].caller
      /\ \/ parked' = parked
         \/ parked' = Append(parked, t) /\ (task'[t].park # "block" \/ task'[t].awaits = "set")
  <2>1. CASE Exit(t)
    <3>1. task'[t] = RDone(task[t]) /\ parked' = parked
      BY <1>2, <2>1 DEF Exit, RDone
    <3> QED
      BY <1>2, <3>1 DEF RDone, TaskRecord
  <2>2. ASSUME NEW p \in {"wait", "yield"}, CallbackParks(t, p)
        PROVE  /\ task'[t].inst = task[t].inst /\ task'[t].caller = task[t].caller
               /\ task'[t].park = p /\ parked' = Append(parked, t)
    <3>1. task'[t] = RCancellable(RPark(task[t], p), TRUE) /\ parked' = Append(parked, t)
      BY <1>2, <2>2 DEF CallbackParks, RPark, RCancellable
    <3> QED
      BY <1>2, <3>1 DEF RPark, RCancellable, TaskRecord
  <2>3. ASSUME NEW b \in BOOLEAN, WaitBlocks(t, b)
        PROVE  /\ task'[t].inst = task[t].inst /\ task'[t].caller = task[t].caller
               /\ task'[t].awaits = "set" /\ parked' = Append(parked, t)
    <3>1. /\ task'[t] = RCancellable(RAwaits(RPark(task[t], "block"), "set"), b)
          /\ parked' = Append(parked, t)
      BY <1>2, <2>3 DEF WaitBlocks, Block, RPark, RAwaits, RCancellable
    <3> QED
      BY <1>2, <3>1 DEF RPark, RAwaits, RCancellable, TaskRecord
  <2> QED
    BY <2>1, <2>2, <2>3
<1>5. ParkWaits(t)'
  <2>1. CASE parked' = parked
    BY <1>2, <2>1 DEF ParkWaits, IsParked
  <2>2. CASE task'[t].park # "block" \/ task'[t].awaits = "set"
    BY <2>2 DEF ParkWaits
  <2> QED
    BY <1>4, <2>1, <2>2
<1>6. KeepsPoison
  <2>1. \E g \in {gate, Waits(gate, I(t))} :
          gate' = LeaveRun(g, I(t)) \/ gate' = SuspendRun(g, I(t))
    BY DEF Exit, CallbackParks, WaitBlocks, Block
  <2>2. PICK g \in {gate, Waits(gate, I(t))} :
          gate' = LeaveRun(g, I(t)) \/ gate' = SuspendRun(g, I(t))
    BY <2>1
  <2>3. g \in [Insts -> GateSet] /\ KeepsCounters(gate, g)
    BY <1>2, GateCounters DEF KeepsCounters
  <2>4. KeepsCounters(g, gate')
    BY <1>2, <2>2, <2>3, GateCounters
  <2> QED
    BY <2>3, <2>4 DEF KeepsPoison, KeepsCounters
<1>7. \A d \in Tasks : Kept(d) \/ (d = t /\ ~sub[d].held /\ ~sub'[d].sleeper)
  <2>1. sub' = sub \/ (Top.via = "start" /\ sub' = SeenByCaller(t))
    <3>1. Pop
      BY DEF Exit, CallbackParks, WaitBlocks
    <3> QED
      BY <1>1, <3>1 DEF Pop
  <2> QED
    BY <1>1, <2>1, SeenSleepers, SameIsKept
<1> QED
  BY <1>1, <1>3, <1>4, <1>5, <1>6, <1>7, PopSleepers

\* What a step that keeps places and subtask keeps of them.
LEMMA HeldByStays ==
  ASSUME Core, NEW c \in Tasks, NEW t \in Tasks, HeldBy(c, I(t)), sub'[c].held,
         \A u \in Tasks : task'[u].inst = task[u].inst /\ task'[u].caller = task[u].caller
  PROVE  HeldBy(c, I(t))'
<1>1. sub[c].held /\ I(task[c].caller) = I(t)
  BY DEF HeldBy
<1>2. task[c].caller # NoTask
  BY <1>1, HasCaller
<1>3. task[c].caller \in Tasks
  BY <1>2 DEF Core, Types, TaskRecord
<1> QED
  BY <1>1, <1>3 DEF HeldBy, I

\* What others say of a subtask.
SameFlags(q, p) == /\ q.held = p.held /\ q.joined = p.joined
                   /\ q.sleeper = p.sleeper /\ q.delivered = p.delivered

\* A request changes none of it.
LEMMA RequestKeeps ==
  ASSUME Core, NEW c \in Tasks, sub[c].held
  PROVE  Requested(c) \in [Tasks -> SubRecord] /\ \A d \in Tasks : SameFlags(Requested(c)[d], sub[d])
<1>1. sub \in [Tasks -> SubRecord]
  BY DEF Core, Types
<1> DEFINE sb == sub
<1>2. sb \in [Tasks -> SubRecord] /\ sb = sub
  BY <1>1
<1> HIDE DEF sb
<1>3. /\ LikeBut(Requested(c), sub, c) /\ Requested(c)[c].joined = sub[c].joined
      /\ Requested(c)[c].sleeper = sub[c].sleeper
  BY <1>2, FlagFacts
<1>4. ASSUME NEW d \in Tasks PROVE SameFlags(Requested(c)[d], sub[d])
  <2>1. CASE d = c
    BY <1>3, <2>1 DEF LikeBut, SameFlags
  <2>2. CASE d # c
    BY <1>3, <2>2 DEF LikeBut, SameFlags
  <2> QED
    BY <2>1, <2>2
<1> QED
  BY <1>3, <1>4 DEF LikeBut

\* A builtin of t waits for c, or goes on.
LEMMA AwaitSleepers ==
  ASSUME Core, Core', Sleepers, NEW t, stack # <<>>, Top.task = t, Top.mode \notin {"sync", "empty"},
         NEW c \in Tasks, HeldBy(c, I(t)), ~sub[c].delivered,
         NEW async \in BOOLEAN, ~async => ~sub[c].joined,
         NEW sb \in [Tasks -> SubRecord],
         \A d \in Tasks : /\ sb[d].held = sub[d].held /\ sb[d].joined = sub[d].joined
                          /\ sb[d].sleeper = sub[d].sleeper /\ sb[d].delivered = sub[d].delivered,
         NEW states, Blocking(t, c, async, states), AwaitCancel(t, c, async, sb),
         IsPending(states, c)
  PROVE  Sleepers'
<1>1. Types /\ Distinct /\ task \in [Tasks -> TaskRecord] /\ gate \in [Insts -> GateSet]
  BY DEF Core, Located, Placed, Types
<1>2. t \in Tasks /\ I(t) \in Insts /\ Top \in Frame
  BY Runner
<1>3. /\ states \in [Tasks -> TaskRecord]
      /\ \A u \in Tasks : /\ states[u].inst = task[u].inst /\ states[u].caller = task[u].caller
                          /\ states[u].park = task[u].park /\ states[u].awaits = task[u].awaits
                          /\ states[u].cancellable = task[u].cancellable
  <2>1. CASE states = task
    BY <1>1, <2>1
  <2>2. CASE states = WithState(task, c, "pending")
    <3>1. /\ states \in [Tasks -> TaskRecord] /\ \A u \in Tasks \ {c} : states[u] = task[u]
          /\ states[c].inst = task[c].inst /\ states[c].caller = task[c].caller
          /\ states[c].park = task[c].park /\ states[c].awaits = task[c].awaits
          /\ states[c].cancellable = task[c].cancellable
      BY <1>1, <2>2, StateChanges
    <3> QED
      BY <3>1
  <2> QED
    BY <2>1, <2>2 DEF IsPending
<1> DEFINE b == TRUE
           sleeping == Sleeps(sb, c, b)
<1>4. /\ sleeping \in [Tasks -> SubRecord] /\ \A d \in Tasks \ {c} : sleeping[d] = sb[d]
      /\ sleeping[c].held = sub[c].held /\ sleeping[c].joined = sub[c].joined
      /\ sleeping[c].delivered = sub[c].delivered /\ sleeping[c].sleeper = b
  <2>1. b \in BOOLEAN
    OBVIOUS
  <2> HIDE DEF b
  <2>2. /\ LikeBut(Sleeps(sb, c, b), sb, c) /\ Sleeps(sb, c, b)[c].joined = sb[c].joined
        /\ Sleeps(sb, c, b)[c].sleeper = b
    BY <2>1, FlagFacts
  <2> QED
    BY <2>2 DEF LikeBut
<1> HIDE DEF b
<1>5. CASE async
  <2>1. /\ task' = states /\ gate' = gate /\ parked' = parked /\ sub' = sb
        /\ stack' = [stack EXCEPT ![1] = Running(t, Top.via)]
    BY <1>5 DEF Blocking, AwaitCancel
  <2>2. SameFrames(stack') /\ stack'[1].mode = "run"
    BY <1>1, <2>1, RunsAgain
  <2>3. (\A u \in Tasks : Steady(u)) /\ KeepsPoison
    BY <1>3, <2>1 DEF Steady, KeepsPoison
  <2>4. \A d \in Tasks : Kept(d)
    BY <2>1 DEF Kept
  <2> QED
    BY <2>1, <2>2, <2>3, <2>4, TopWatches, TopSleepers
<1>6. CASE ~async /\ task[t].shape = "callback"
  <2>1. /\ task' = states /\ gate' = gate /\ parked' = parked /\ sub' = sleeping
        /\ stack' = [stack EXCEPT ![1] = Syncs(t, Top.via, c)]
    BY <1>6 DEF Blocking, AwaitCancel, Syncs, Sleeps, b
  <2> DEFINE f == Syncs(t, Top.via, c)
  <2>2. f \in Frame /\ f.task = Top.task /\ f.via = Top.via /\ f.mode = "sync" /\ f.on = c
    <3>1. Top.via \in {"start", "resume", "cancel"}
      BY <1>2 DEF Frame
    <3> QED
      BY <1>2, <3>1, SyncsFacts
  <2>3. stack' = [stack EXCEPT ![1] = f]
    BY <2>1
  <2> HIDE DEF f
  <2>4. SameFrames(stack') /\ stack'[1] = f /\ 1 \in DOMAIN stack
    BY <1>1, <2>2, <2>3, TopChanges
  <2>5. (\A u \in Tasks : Steady(u)) /\ KeepsPoison
    BY <1>3, <2>1 DEF Steady, KeepsPoison
  <2>6. HeldBy(c, I(t))'
    BY <1>2, <1>4, <2>1, <2>5, HeldByStays DEF HeldBy, Steady
  <2>7. Asleep(c)'
    <3>1. f \in Frames'
      BY <2>4 DEF SameFrames, Frames, FramesOf
    <3>2. Watches(t, c)'
      BY <2>2, <3>1 DEF Watches
    <3>3. sub'[c].held /\ ~sub'[c].joined /\ ~sub'[c].delivered
      BY <1>4, <1>6, <2>1 DEF HeldBy
    <3> QED
      BY <1>2, <3>2, <3>3 DEF Asleep
  <2>8. \A d \in Tasks : Kept(d) \/ (HeldBy(d, I(t)) /\ Asleep(d)')
    BY <1>4, <2>1, <2>7 DEF Kept
  <2> QED
    BY <2>1, <2>2, <2>4, <2>5, <2>6, <2>8, TopWatches, TopSleepers
<1>7. CASE ~async /\ task[t].shape # "callback"
  <2>1. /\ task' = WithPark(states, t, "block", c, FALSE)
        /\ gate' = SuspendRun(gate, I(t)) /\ parked' = Append(parked, t) /\ stack' = Tail(stack)
    BY <1>7 DEF Blocking, AwaitCancel, WithPark
  <2>2. /\ \A u \in Tasks \ {t} : task'[u] = states[u]
        /\ task'[t].park = "block" /\ task'[t].awaits = c /\ ~task'[t].cancellable
        /\ task'[t].inst = states[t].inst /\ task'[t].caller = states[t].caller
    <3> DEFINE no == FALSE
    <3>1. no \in BOOLEAN /\ "block" \in {"none", "entry", "wait", "yield", "block"} /\ ~no
      OBVIOUS
    <3>2. task' = WithPark(states, t, "block", c, no)
      BY <2>1
    <3> HIDE DEF no
    <3>3. states \in [Tasks -> TaskRecord] /\ t \in Tasks /\ c \in Tasks \cup {"set"}
      BY <1>2, <1>3
    <3> QED
      BY <3>1, <3>2, <3>3, ParkChanges
  <2>3. \/ sub' = sleeping
        \/ Top.via = "start" /\ sub' = [sleeping EXCEPT ![t] = SeenByCaller(t)[t]]
    BY <1>7 DEF AwaitCancel, Sleeps, b
  <2>4. /\ \A d \in Tasks \ {c, t} : sub'[d] = sb[d]
        /\ sub'[c] = sleeping[c]
        /\ t # c => sub'[t] = sb[t] \/ (~sub[t].held /\ ~sub'[t].sleeper)
    <3>1. CASE sub' = sleeping
      BY <1>2, <1>4, <3>1
    <3>2. CASE Top.via = "start" /\ sub' = [sleeping EXCEPT ![t] = SeenByCaller(t)[t]]
      <4>1. ~sub[t].held /\ ~SeenByCaller(t)[t].sleeper
        BY <3>2, SeenSleepers
      <4>2. t # c
        BY <4>1 DEF HeldBy
      <4>3. /\ sub'[t] = SeenByCaller(t)[t] /\ \A d \in Tasks \ {t} : sub'[d] = sleeping[d]
        BY <1>2, <1>4, <3>2
      <4> QED
        BY <1>4, <4>1, <4>2, <4>3
    <3> QED
      BY <2>3, <3>1, <3>2
  <2>5. KeepsPoison
    BY <1>1, <1>2, <2>1, GateCounters DEF KeepsPoison, KeepsCounters
  <2>6. /\ \A u \in Tasks \ {t} : Steady(u)
        /\ task'[t].inst = task[t].inst /\ task'[t].caller = task[t].caller
    BY <1>2, <1>3, <2>2 DEF Steady
  <2>7. HeldBy(c, I(t))'
    <3>1. \A u \in Tasks : task'[u].inst = task[u].inst /\ task'[u].caller = task[u].caller
      BY <2>6 DEF Steady
    <3>2. sub'[c].held
      BY <1>4, <2>4 DEF HeldBy
    <3> QED
      BY <1>2, <3>1, <3>2, HeldByStays
  <2>8. IsParked(t)'
    BY <1>1, <1>2, <2>1, Runner, Parks DEF Core, Located, Placed
  <2>9. ParkWaits(t)'
    BY <2>2, <2>7, <2>8 DEF ParkWaits
  <2>10. Asleep(c)'
    <3>1. Watches(t, c)'
      BY <2>2, <2>8 DEF Watches
    <3>2. sub'[c].held /\ ~sub'[c].joined /\ ~sub'[c].delivered
      BY <1>4, <1>7, <2>4 DEF HeldBy
    <3> QED
      BY <1>2, <3>1, <3>2 DEF Asleep
  <2>11. ASSUME NEW d \in Tasks
         PROVE  \/ Kept(d)
                \/ d = t /\ ~sub[d].held /\ ~sub'[d].sleeper
                \/ HeldBy(d, I(t)) /\ Asleep(d)'
    <3>1. CASE d = c
      BY <2>10, <3>1
    <3>2. CASE d # c /\ sub'[d] = sb[d]
      BY <3>2 DEF Kept
    <3> QED
      BY <2>4, <3>1, <3>2
  <2> QED
    BY <2>1, <2>5, <2>6, <2>9, <2>11, PopSleepers
<1> QED
  BY <1>5, <1>6, <1>7

\* subtask.cancel of a callee that is asked to cancel itself later
LEMMA CancelPendsSleepers ==
  ASSUME Core, Core', Sleepers, NEW t, NEW c \in Tasks, NEW async \in BOOLEAN, CancelPends(t, c, async)
  PROVE  Sleepers'
<1>1. /\ stack # <<>> /\ Top.task = t /\ Top.mode = "run" /\ task[c].state = "started"
      /\ HeldBy(c, I(t)) /\ ~sub[c].delivered /\ (sub[c].joined => async)
      /\ Blocking(t, c, async, WithState(task, c, "pending"))
      /\ AwaitCancel(t, c, async, Requested(c))
  BY DEF CancelPends, MayCancel, MayBlockOn, Runs, WithState
<1>2. IsPending(WithState(task, c, "pending"), c)
  BY <1>1 DEF Mid, IsPending
<1>3. Requested(c) \in [Tasks -> SubRecord] /\ \A d \in Tasks : SameFlags(Requested(c)[d], sub[d])
  BY <1>1, RequestKeeps DEF HeldBy
<1> QED
  BY <1>1, <1>2, <1>3, AwaitSleepers DEF SameFlags

\* The callee that was resumed gave the baton back.
LEMMA CancelContinuesSleepers ==
  ASSUME Core, Core', Sleepers, NEW t, CancelContinues(t)
  PROVE  Sleepers'
<1>1. Types /\ stack # <<>> /\ Top.task = t /\ Top.mode = "cancel"
  BY DEF Core, CancelContinues
<1>2. t \in Tasks /\ 1 \in DOMAIN stack /\ Top = stack[1] /\ Top \in Frame
  BY <1>1, Runner
<1>3. /\ Top.on \in Tasks /\ Top.flag \in BOOLEAN /\ HeldBy(Top.on, I(t))
      /\ ~Top.flag => ~sub[Top.on].joined
  BY <1>1, <1>2, TopFrame DEF Sleepers, FrameWaits, Core, Names, Frame, Knows
<1>4. CASE Resolved(Top.on)
  <2>1. PICK c \in Tasks : c = Top.on
    BY <1>3
  <2>2. /\ stack' = [stack EXCEPT ![1] = Running(t, Top.via)] /\ UNCHANGED <<task, gate, parked>>
        /\ sub' = Deliver(sub, c)
    BY <1>4, <2>1 DEF CancelContinues
  <2>3. SameFrames(stack') /\ stack'[1].mode = "run"
    BY <1>1, <2>2, RunsAgain
  <2>4. (\A u \in Tasks : Steady(u)) /\ KeepsPoison
    BY <2>2 DEF Steady, KeepsPoison
  <2>5. ASSUME NEW d \in Tasks
        PROVE  Kept(d) \/ (HeldBy(d, I(t)) /\ (sub'[d].sleeper => sub[d].sleeper /\ sub'[d].held))
    <3>1. CASE d = c
      BY <1>1, <1>3, <2>1, <2>2, <3>1, SubsKeep DEF HeldBy
    <3>2. CASE d # c
      BY <1>1, <2>2, <3>2, SubsKeep, SameIsKept
    <3> QED
      BY <3>1, <3>2
  <2> QED
    BY <1>1, <2>2, <2>3, <2>4, <2>5, TopWatches, TopSleepers
<1>5. CASE ~Resolved(Top.on)
  <2> DEFINE c == Top.on
             async == Top.flag
  <2>1. /\ c \in Tasks /\ async \in BOOLEAN /\ HeldBy(c, I(t)) /\ (~async => ~sub[c].joined)
        /\ Blocking(t, c, async, task) /\ AwaitCancel(t, c, async, sub) /\ IsPending(task, c)
    BY <1>3, <1>5 DEF CancelContinues, IsPending
  <2>2. ~sub[c].delivered
    BY <1>3, <1>5 DEF Core, Follows
  <2>3. sub \in [Tasks -> SubRecord]
    BY <1>1 DEF Types
  <2> HIDE DEF c, async
  <2> QED
    BY <1>1, <2>1, <2>2, <2>3, AwaitSleepers
<1> QED
  BY <1>4, <1>5

\* The task c gets the baton, from whoever drives or from a builtin of the
\* running task, which then waits for it.
LEMMA PushSleepers ==
  ASSUME Core, Core', Sleepers, NEW c \in Tasks, c \notin OnStack,
         NEW f \in Frame, f.task = c, f.mode \in {"run", "empty"}, f.via = "start" => ~sub'[c].held,
         NEW s, SameFrames(s), stack' = <<f>> \o s, Unpark(c) \/ parked' = parked,
         \A u \in Tasks \ {c} : Steady(u), KeepsPoison,
         task[c].state # "fresh" => task'[c].inst = task[c].inst /\ task'[c].caller = task[c].caller,
         NEW M, \A d \in Tasks : Touches(M, d),
         \/ s = stack /\ M = {c}
         \/ /\ stack # <<>> /\ M = {c, Top.task} /\ Top.mode \notin {"sync", "empty"}
            /\ s[1].mode = "cancel"
            /\ \E x, y \in Tasks : /\ s[1].on = x /\ Top.task = y /\ HeldBy(x, I(y))'
                                   /\ ~s[1].flag => ~sub'[x].joined
                                   /\ Top.via = "start" => ~sub'[y].held,
         \A d \in Tasks : Watches(c, d) => Asleep(d)'
  PROVE  Sleepers'
<1>1. Types /\ Distinct /\ Once(parked) /\ s \in Seq(Frame)
  BY DEF Core, Located, Placed, SameFrames
<1>2. /\ \A h \in Frames' : h = f \/ h \in FramesOf(s)
      /\ f \in Frames' /\ \A h \in FramesOf(s) : h \in Frames'
  BY <1>1, FramesPush
<1>3. /\ \A h \in Frames' : h.task \notin M => h \in Frames
      /\ \A h \in Frames : h.task \notin M => h \in Frames'
      /\ c \in M
  <2>1. CASE s = stack /\ M = {c}
    BY <1>2, <2>1 DEF Frames
  <2>2. CASE stack # <<>> /\ M = {c, Top.task}
    BY <1>1, <1>2, <2>2, FramesTop
  <2> QED
    BY <2>1, <2>2
<1>4. \A u \in Tasks \ {c} : IsParked(u)' <=> IsParked(u)
  <2>1. CASE Unpark(c)
    BY <1>1, <2>1, Unparks DEF Unpark
  <2>2. CASE parked' = parked
    BY <2>2 DEF IsParked
  <2> QED
    BY <2>1, <2>2
<1>5. Moves(M)
  BY <1>3, <1>4 DEF Moves, Steady, KeepsPoison
<1>6. FrameWaits(f)'
  BY DEF FrameWaits
<1>7. ASSUME NEW h \in Frames', h.task \in M PROVE FrameWaits(h)'
  <2>1. CASE h = f
    BY <1>6, <2>1
  <2>2. CASE h # f /\ s = stack /\ M = {c}
    <3>1. h \in Frames /\ h.task = c
      BY <1>2, <1>7, <2>2 DEF Frames
    <3> QED
      BY <1>1, <3>1, FramesAre
  <2>3. ASSUME h # f, stack # <<>>, M = {c, Top.task}, s[1].mode = "cancel",
               NEW x \in Tasks, NEW y \in Tasks, s[1].on = x, Top.task = y, HeldBy(x, I(y))',
               ~s[1].flag => ~sub'[x].joined, Top.via = "start" => ~sub'[y].held
        PROVE  FrameWaits(h)'
    <3>1. h \in FramesOf(s) /\ h.task \in OnStack
      BY <1>1, <1>2, <2>3, FramesTop
    <3>2. h = s[1] /\ h.task = y /\ h.via = Top.via
      BY <1>1, <1>7, <2>3, <3>1, FramesTop
    <3>3. h.mode = "cancel" /\ h.on = x
      BY <2>3, <3>2
    <3> QED
      BY <2>3, <3>2, <3>3 DEF FrameWaits
  <2> QED
    BY <2>1, <2>2, <2>3
<1>8. \A h \in Frames' : h.task \in OnStack'
  BY DEF Frames, FramesOf, OnStack
<1>9. ASSUME NEW m \in M PROVE ParkWaits(m)'
  <2>1. m \in OnStack'
    <3>1. CASE m = c
      BY <1>2, <1>8, <3>1
    <3>2. CASE m # c
      <4>1. stack # <<>> /\ m = Top.task /\ s[1] \in FramesOf(s) /\ s[1].task = m
        <5>1. stack # <<>> /\ m = Top.task
          BY <3>2
        <5>2. s[1].task = Top.task /\ 1 \in DOMAIN s
          BY <1>1, <5>1, FramesTop
        <5> QED
          BY <5>1, <5>2 DEF FramesOf
      <4>2. s[1] \in Frames'
        BY <1>2, <4>1
      <4>3. \E h \in Frames' : h.task = m
        BY <4>1, <4>2
      <4> QED
        BY <1>8, <4>3
    <3> QED
      BY <3>1, <3>2
  <2>2. \A u \in Tasks : u \in OnStack' => ~IsParked(u)'
    BY DEF Core, Located, Placed
  <2>3. m \in Tasks
    BY <2>1, StackedAreTasks DEF Core
  <2> QED
    BY <2>1, <2>2, <2>3, NotParkedWaits
<1>10. \A d \in Tasks : \A m \in M : Watches(m, d) => Asleep(d)'
  BY TopWatches
<1> QED
  BY <1>5, <1>7, <1>9, <1>10, SleepersMove

\* A task that has not been started is in no table and waits for nothing.
LEMMA FreshSleeps ==
  ASSUME Core, NEW c \in Tasks, task[c].state = "fresh"
  PROVE  /\ ~sub[c].held /\ ~sub[c].sleeper /\ \A d : ~Watches(c, d)
         /\ \A x \in {"starting", "started"} : ~SubState(c, x)[c].held /\ ~SubState(c, x)[c].sleeper
<1>1. /\ c \notin OnStack /\ ~IsParked(c) /\ sub[c] = NoSubtask /\ Types
      /\ sub \in [Tasks -> SubRecord]
  BY FreshIs DEF Core, Follows, Types
<1>2. \A f \in Frames : f.task # c
  BY <1>1, FramesAre
<1>3. ~NoSubtask.held /\ ~NoSubtask.sleeper
  BY DEF NoSubtask
<1>4. ASSUME NEW x \in {"starting", "started"}
      PROVE  ~SubState(c, x)[c].held /\ ~SubState(c, x)[c].sleeper
  <2>1. SubState(c, x)[c] = [NoSubtask EXCEPT !.state = x]
    BY <1>1 DEF SubState
  <2> QED
    BY <2>1 DEF NoSubtask
<1> QED
  BY <1>1, <1>2, <1>3, <1>4 DEF Watches

\* start, and the first segment runs
LEMMA StartsSleepers ==
  ASSUME Core, Core', Sleepers, NEW c \in Tasks, NEW i \in Insts, NEW s, NEW caller,
         Starts(c, i, s, caller)
  PROVE  Sleepers'
<1>1. /\ task[c].state = "fresh"
      /\ gate' = [gate EXCEPT ![i].owner = c, ![i].mayEnter = FALSE]
      /\ stack' = <<Running(c, "start")>> \o stack /\ parked' = parked
      /\ \A u \in Tasks \ {c} : task'[u] = task[u]
      /\ sub' = sub \/ sub' = SubState(c, "started")
  BY DEF Starts, CanStart, Core, Types, SubState
<1>2. Types /\ c \notin OnStack /\ gate \in [Insts -> GateSet] /\ sub \in [Tasks -> SubRecord]
  BY <1>1, FreshIs DEF Core, Types
<1>3. ~sub[c].held /\ ~sub[c].sleeper /\ (\A d : ~Watches(c, d)) /\ ~sub'[c].held /\ ~sub'[c].sleeper
  BY <1>1, FreshSleeps
<1>4. KeepsPoison
  <2>1. \E o, m : Turned(gate, gate', i, o, m, 0, 0)
    BY <1>1, <1>2, OwnerTurns
  <2> QED
    BY <1>2, <2>1, TurnedCounters DEF KeepsCounters, KeepsPoison
<1>5. \A d \in Tasks : Touches({c}, d)
  <2>1. \A d \in Tasks \ {c} : sub'[d] = sub[d]
    BY <1>1, <1>2 DEF SubState
  <2> QED
    BY <1>3, <2>1, SameIsKept DEF Touches
<1>6. Running(c, "start") \in Frame /\ Running(c, "start").task = c
      /\ Running(c, "start").mode = "run" /\ SameFrames(stack)
  BY <1>2, RunningFacts DEF SameFrames, Types
<1>7. \A u \in Tasks \ {c} : Steady(u)
  BY <1>1 DEF Steady
<1> DEFINE f == Running(c, "start")
           M == {c}
<1>8. /\ f \in Frame /\ f.task = c /\ f.mode = "run" /\ stack' = <<f>> \o stack
      /\ M = {c} /\ \A d \in Tasks : Touches(M, d)
  BY <1>1, <1>5, <1>6
<1> HIDE DEF f, M
<1> QED
  BY <1>1, <1>2, <1>3, <1>4, <1>6, <1>7, <1>8, PushSleepers

\* start, and the task parks at entry
LEMMA ParksSleepers ==
  ASSUME Core, Core', Sleepers, NEW c \in Tasks, NEW i \in Insts, NEW s, NEW caller,
         ParksAtEntry(c, i, s, caller)
  PROVE  Sleepers'
<1>1. /\ task[c].state = "fresh" /\ gate' = [gate EXCEPT ![i].waiting = @ + 1]
      /\ stack' = stack /\ parked' = Append(parked, c)
      /\ \A u \in Tasks \ {c} : task'[u] = task[u]
      /\ \A d \in Tasks \ {c} : sub'[d] = sub[d]
  BY DEF ParksAtEntry, CanStart, Core, Types
<1>2. /\ Types /\ Once(parked) /\ c \notin OnStack /\ ~IsParked(c) /\ gate \in [Insts -> GateSet]
      /\ sub[c] = NoSubtask /\ sub \in [Tasks -> SubRecord]
  BY <1>1, FreshIs DEF Core, Located, Placed, Types, Follows
<1>3. \A u \in Tasks \ {c} : IsParked(u)' <=> IsParked(u)
  BY <1>1, <1>2, Parks
<1>4. task'[c].park = "entry"
  BY <1>2 DEF ParksAtEntry, Fresh, Types, TaskRecord
<1>5. KeepsPoison
  <2>1. Counted(gate, gate', i, 1, 0)
    BY <1>1, <1>2, CountTurns
  <2> QED
    BY <2>1 DEF Counted, Turned, KeepsPoison
<1>6. ~sub[c].held /\ ~sub'[c].sleeper /\ \A d : ~Watches(c, d)
  <2>1. ~sub[c].held /\ ~sub[c].sleeper /\ \A d : ~Watches(c, d)
    BY <1>1, FreshSleeps
  <2>2. sub' = sub \/ sub' = [sub EXCEPT ![c].state = "starting", ![c].held = TRUE]
    BY DEF ParksAtEntry
  <2>3. sub'[c] = sub[c] \/ sub'[c] = [[NoSubtask EXCEPT !.state = "starting"] EXCEPT !.held = TRUE]
    BY <1>2, <2>2
  <2> QED
    BY <2>1, <2>3 DEF NoSubtask
<1>7. Frames' = Frames
  BY <1>1 DEF Frames
<1>8. \A f \in Frames : f.task # c
  BY <1>2, FramesAre
<1> DEFINE M == {c}
<1>9. Moves(M)
  BY <1>1, <1>3, <1>5, <1>7 DEF Moves, KeepsPoison
<1>10. \A d \in Tasks : Touches(M, d)
  BY <1>1, <1>6, SameIsKept DEF Touches
<1>11. ParkWaits(c)'
  BY <1>4 DEF ParkWaits
<1>12. /\ \A f \in Frames' : f.task \in M => FrameWaits(f)'
       /\ \A m \in M : ParkWaits(m)' /\ \A d \in Tasks : Watches(m, d) => Asleep(d)'
  BY <1>6, <1>7, <1>8, <1>11
<1> HIDE DEF M
<1> QED
  BY <1>9, <1>10, <1>12, SleepersMove

\* Calls of the host and of guests
LEMMA CallSleepers ==
  ASSUME Core, Core', Sleepers, NEW c \in Tasks, NEW i \in Insts, NEW s \in Shapes,
         Call(c, i, s) \/ CallExport(Baton, c, i, s)
  PROVE  Sleepers'
<1>1. \E x, caller : Starts(c, i, x, caller) \/ ParksAtEntry(c, i, x, caller)
  BY DEF Call, CallExport
<1> QED
  BY <1>1, StartsSleepers, ParksSleepers

\* An event that is taken changes nothing else, but that nobody sleeps for it.
LEMMA TakenSubs ==
  ASSUME NEW sb \in [Tasks -> SubRecord], NEW c \in Tasks,
         \/ sub' = Deliver(sb, c)
         \/ sub' = Sleeps(Deliver(sb, c), c, FALSE)
  PROVE  /\ \A d \in Tasks \ {c} : sub'[d] = sb[d]
         /\ sub'[c].held = sb[c].held /\ sub'[c].joined = sb[c].joined
         /\ sub'[c].sleeper => sb[c].sleeper
         /\ sub' = Sleeps(Deliver(sb, c), c, FALSE) => ~sub'[c].sleeper
<1> DEFINE h == Deliver(sb, c)
<1>1. /\ h \in [Tasks -> SubRecord] /\ \A d \in Tasks \ {c} : h[d] = sb[d]
      /\ h[c].held = sb[c].held /\ h[c].joined = sb[c].joined /\ h[c].sleeper = sb[c].sleeper
  BY DeliverFacts
<1> HIDE DEF h
<1>2. CASE sub' = h /\ sub' # Sleeps(h, c, FALSE)
  BY <1>1, <1>2 DEF h
<1>3. CASE sub' = Sleeps(h, c, FALSE)
  <2> DEFINE b == FALSE
  <2>1. sub' = Sleeps(h, c, b) /\ b \in BOOLEAN /\ ~b
    BY <1>3
  <2> HIDE DEF b
  <2>2. LikeBut(sub', h, c) /\ sub'[c].joined = h[c].joined /\ sub'[c].sleeper = b
    BY <1>1, <2>1, FlagFacts
  <2> QED
    BY <1>1, <2>1, <2>2 DEF LikeBut
<1> QED
  BY <1>2, <1>3 DEF h

\* The subtasks when c is resumed in its guest code.
LEMMA ResumedSubs ==
  ASSUME Core, Sleepers, NEW c \in Tasks, IsParked(c) \/ task[c].park = "yield",
         NEW sb \in [Tasks -> SubRecord], \A d \in Tasks : SameFlags(sb[d], sub[d]),
         NEW via, NEW s, NEW b,
         ResumeLoop(c, via, s, sb, b) \/ ResumeBlocked(c, via, s, sb, b)
  PROVE  \A d \in Tasks : /\ sub'[d].held = sub[d].held /\ sub'[d].joined = sub[d].joined
                          /\ sub'[d].sleeper => sub[d].sleeper
                          /\ Kept(d) \/ HeldBy(d, I(c))
<1>1. \/ sub' = sb
      \/ TakeFromSet(I(c), sb)
      \/ /\ task[c].park = "block" /\ task[c].awaits # "set"
         /\ sub' = Sleeps(Deliver(sb, task[c].awaits), task[c].awaits, FALSE)
  BY DEF ResumeLoop, ResumeBlocked, Sleeps
<1>2. CASE sub' = sb
  BY <1>2 DEF SameFlags, Kept
<1>3. ASSUME NEW e \in Tasks, HeldBy(e, I(c)),
             sub' = Deliver(sb, e) \/ sub' = Sleeps(Deliver(sb, e), e, FALSE)
      PROVE  \A d \in Tasks : /\ sub'[d].held = sub[d].held /\ sub'[d].joined = sub[d].joined
                              /\ sub'[d].sleeper => sub[d].sleeper
                              /\ Kept(d) \/ HeldBy(d, I(c))
  <2>1. /\ \A d \in Tasks \ {e} : sub'[d] = sb[d]
        /\ sub'[e].held = sb[e].held /\ sub'[e].joined = sb[e].joined
        /\ sub'[e].sleeper => sb[e].sleeper
    BY <1>3, TakenSubs
  <2>2. ASSUME NEW d \in Tasks
        PROVE  /\ sub'[d].held = sub[d].held /\ sub'[d].joined = sub[d].joined
               /\ sub'[d].sleeper => sub[d].sleeper
               /\ Kept(d) \/ HeldBy(d, I(c))
    <3>1. CASE d = e
      BY <1>3, <2>1, <3>1 DEF SameFlags
    <3>2. CASE d # e
      BY <2>1, <3>2 DEF SameFlags, Kept
    <3> QED
      BY <3>1, <3>2
  <2> QED
    BY <2>2
<1>4. CASE TakeFromSet(I(c), sb)
  BY <1>3, <1>4 DEF TakeFromSet
<1>5. CASE /\ task[c].park = "block" /\ task[c].awaits # "set"
           /\ sub' = Sleeps(Deliver(sb, task[c].awaits), task[c].awaits, FALSE)
  <2>1. task[c].awaits \in Tasks
    BY <1>5 DEF Core, Types, TaskRecord
  <2>2. HeldBy(task[c].awaits, I(c))
    BY <1>5 DEF Sleepers, ParkWaits
  <2> QED
    BY <1>3, <1>5, <2>1, <2>2
<1> QED
  BY <1>1, <1>2, <1>4, <1>5

\* Its place and its gate.
LEMMA ResumedPlaces ==
  ASSUME Core, NEW c \in Tasks, I(c) \in Insts, NEW via, NEW s, NEW sb, NEW b,
         ResumeLoop(c, via, s, sb, b) \/ ResumeBlocked(c, via, s, sb, b)
  PROVE  /\ KeepsPoison /\ \A u \in Tasks \ {c} : Steady(u)
         /\ task'[c].inst = task[c].inst /\ task'[c].caller = task[c].caller
<1>1. /\ Types /\ task \in [Tasks -> TaskRecord] /\ task[c] \in TaskRecord
      /\ gate \in [Insts -> GateSet]
  BY DEF Core, Types
<1>2. \A u \in Tasks \ {c} : Steady(u)
  <2>1. \A u \in Tasks \ {c} : task'[u] = task[u]
    BY <1>1 DEF ResumeLoop, ResumeBlocked
  <2> QED
    BY <2>1 DEF Steady
<1>3. task'[c].inst = task[c].inst /\ task'[c].caller = task[c].caller
  <2>1. CASE ResumeLoop(c, via, s, sb, b)
    <3>1. task'[c] = RState(task[c], StateAfter(c, b))
      BY <1>1, <2>1 DEF ResumeLoop, RState
    <3> QED
      BY <1>1, <3>1 DEF RState, TaskRecord
  <2>2. CASE ResumeBlocked(c, via, s, sb, b)
    <3>1. task'[c] = RCancellable(RAwaits(RPark(RState(task[c], StateAfter(c, b)), "none"), "set"), FALSE)
      BY <1>1, <2>2 DEF ResumeBlocked, RState, RPark, RAwaits, RCancellable
    <3> QED
      BY <1>1, <3>1 DEF RState, RPark, RAwaits, RCancellable, TaskRecord
  <2> QED
    BY <2>1, <2>2
<1>4. KeepsPoison
  <2>1. \E g \in {gate, Unwaits(gate, I(c))} : gate' = EnterRun(g, c)
    BY DEF ResumeLoop, ResumeBlocked
  <2>2. PICK g \in {gate, Unwaits(gate, I(c))} : gate' = EnterRun(g, c)
    BY <2>1
  <2>3. g \in [Insts -> GateSet] /\ KeepsCounters(gate, g)
    BY <1>1, GateCounters DEF KeepsCounters
  <2>4. KeepsCounters(g, gate')
    BY <2>2, <2>3, GateCounters
  <2> QED
    BY <2>3, <2>4 DEF KeepsPoison, KeepsCounters
<1> QED
  BY <1>2, <1>3, <1>4

\* What a task that is resumed in its guest code waited for.
LEMMA ResumedSleep ==
  ASSUME Core, Core', Sleepers, NEW c \in Tasks, c \notin OnStack, I(c) \in Insts,
         IsParked(c) \/ task[c].park = "yield",
         NEW sb \in [Tasks -> SubRecord], \A d \in Tasks : SameFlags(sb[d], sub[d]),
         NEW via, NEW s, NEW b, b => task[c].cancellable,
         ResumeLoop(c, via, s, sb, b) \/ ResumeBlocked(c, via, s, sb, b),
         NEW f, f \in Frames', f.task = c,
         ResumeBlocked(c, via, s, sb, b) /\ ~Cancels(c, b) /\ ~Awaited(c, task[c].awaits) =>
           f.mode = "empty",
         NEW d \in Tasks, Watches(c, d)
  PROVE  Asleep(d)'
<1>1. IsParked(c) /\ task[c].park = "block" /\ task[c].awaits = d /\ d # "set" /\ Types
  BY FramesAre, TasksAssumption DEF Watches, Core
<1>2. HeldBy(d, I(c)) /\ ~task[c].cancellable
  BY <1>1 DEF Sleepers, ParkWaits
<1>3. ~Cancels(c, b) /\ ResumeBlocked(c, via, s, sb, b)
  BY <1>1, <1>2 DEF Cancels, ResumeLoop
<1>4. CASE Awaited(c, d)
  <2>1. sub' = Sleeps(Deliver(sb, d), d, FALSE)
    BY <1>1, <1>3, <1>4 DEF ResumeBlocked, Sleeps
  <2>2. ~sub'[d].sleeper
    BY <2>1, TakenSubs
  <2> QED
    BY <2>2 DEF Asleep
<1>5. CASE ~Awaited(c, d)
  <2>1. sub' = sb /\ f.mode = "empty"
    BY <1>1, <1>3, <1>5 DEF ResumeBlocked
  <2>2. SameFlags(sub'[d], sub[d])
    BY <2>1
  <2>3. /\ KeepsPoison /\ task'[c].inst = task[c].inst /\ task'[c].caller = task[c].caller
        /\ \A u \in Tasks \ {c} : Steady(u)
    BY ResumedPlaces
  <2>4. sub[d].held /\ I(task[d].caller) = I(c) /\ task[d].caller \in Tasks
    <3>1. sub[d].held /\ I(task[d].caller) = I(c)
      BY <1>2 DEF HeldBy
    <3>2. task[d].caller # NoTask
      BY <3>1, HasCaller
    <3> QED
      BY <3>1, <3>2 DEF Core, Types, TaskRecord
  <2>5. \A u \in Tasks : task'[u].inst = task[u].inst /\ task'[u].caller = task[u].caller
    BY <2>3 DEF Steady
  <2>6. I(task[d].caller)' = I(task[d].caller) /\ I(c)' = I(c)
    BY <2>4, <2>5 DEF I
  <2>7. Watches(c, d)'
    BY <2>1, <2>4, <2>6 DEF Watches
  <2>8. sub[d].sleeper => (~gate[I(c)].poisoned => ~sub[d].joined /\ ~sub[d].delivered)
    BY <2>4 DEF Sleepers, Asleep
  <2>9. gate[I(task[d].caller)]'.poisoned = gate[I(c)].poisoned
    BY <2>3, <2>4, <2>6 DEF KeepsPoison, I
  <2> QED
    BY <2>2, <2>4, <2>7, <2>8, <2>9 DEF Asleep, SameFlags
<1> QED
  BY <1>4, <1>5

\* A task that is resumed in its guest code.
LEMMA ResumedSleepers ==
  ASSUME Core, Core', Sleepers, NEW c \in Tasks, c \notin OnStack, Owns(c),
         IsParked(c) \/ task[c].park = "yield",
         NEW sb \in [Tasks -> SubRecord], \A d \in Tasks : SameFlags(sb[d], sub[d]),
         NEW via \in {"resume", "cancel"}, NEW s, SameFrames(s), NEW b, b => task[c].cancellable,
         ResumeLoop(c, via, s, sb, b) \/ ResumeBlocked(c, via, s, sb, b),
         Unpark(c) \/ parked' = parked,
         \/ s = stack
         \/ /\ stack # <<>> /\ Top.mode = "run" /\ s[1].mode = "cancel"
            /\ \E x \in Tasks : /\ s[1].on = x /\ HeldBy(x, I(Top.task))
                                /\ ~s[1].flag => ~sub[x].joined
  PROVE  Sleepers'
<1>1. I(c) \in Insts
  BY DEF Owns
<1>2. \A d \in Tasks : /\ sub'[d].held = sub[d].held /\ sub'[d].joined = sub[d].joined
                       /\ sub'[d].sleeper => sub[d].sleeper
                       /\ Kept(d) \/ HeldBy(d, I(c))
  BY ResumedSubs
<1>3. /\ KeepsPoison /\ task'[c].inst = task[c].inst /\ task'[c].caller = task[c].caller
      /\ \A u \in Tasks \ {c} : Steady(u)
  BY <1>1, ResumedPlaces
<1>4. PICK f \in Frame : /\ f.task = c /\ f.mode \in {"run", "empty"} /\ f.via = via
                         /\ stack' = <<f>> \o s
                         /\ ResumeBlocked(c, via, s, sb, b) /\ ~Cancels(c, b) /\ ~Awaited(c, task[c].awaits)
                              => f.mode = "empty"
  <2>1. CASE ResumeLoop(c, via, s, sb, b)
    <3>1. stack' = <<Running(c, via)>> \o s /\ ~ResumeBlocked(c, via, s, sb, b)
      BY <2>1 DEF ResumeLoop, ResumeBlocked
    <3>2. /\ Running(c, via) \in Frame /\ Running(c, via).task = c /\ Running(c, via).via = via
          /\ Running(c, via).mode = "run"
      BY RunningFacts
    <3> QED
      BY <3>1, <3>2
  <2>2. CASE ResumeBlocked(c, via, s, sb, b)
    <3> DEFINE w == Cancels(c, b) \/ Awaited(c, task[c].awaits)
               m == IF w THEN "run" ELSE "empty"
    <3>1. stack' = <<Woken(c, via, m)>> \o s
      BY <2>2 DEF ResumeBlocked, Woken
    <3>2. m \in {"run", "empty"} /\ (~w => m = "empty")
      OBVIOUS
    <3> HIDE DEF m
    <3>3. Woken(c, via, m) \in Frame /\ Woken(c, via, m).task = c /\ Woken(c, via, m).via = via
          /\ Woken(c, via, m).mode = m
      BY <3>2, WokenFacts
    <3> QED
      BY <3>1, <3>2, <3>3
  <2> QED
    BY <2>1, <2>2
<1>5. f \in Frames'
  <2>1. Types /\ s \in Seq(Frame)
    BY DEF Core, SameFrames
  <2> QED
    BY <1>4, <2>1, FramesPush
<1>6. \A d \in Tasks : Watches(c, d) => Asleep(d)'
  BY <1>1, <1>4, <1>5, ResumedSleep
<1>7. \A M : c \in M => \A d \in Tasks : Touches(M, d)
  BY <1>2 DEF Touches, HeldBy
<1>8. f.via # "start"
  BY <1>4
<1>9. CASE s = stack
  <2> DEFINE M == {c}
  <2>1. M = {c} /\ \A d \in Tasks : Touches(M, d)
    BY <1>7
  <2> HIDE DEF M
  <2> QED
    BY <1>3, <1>4, <1>6, <1>8, <1>9, <2>1, PushSleepers
<1>10. ASSUME stack # <<>>, Top.mode = "run", s[1].mode = "cancel",
              NEW x \in Tasks, s[1].on = x, HeldBy(x, I(Top.task)), ~s[1].flag => ~sub[x].joined
       PROVE  Sleepers'
  <2>1. PICK y \in Tasks : y = Top.task
    BY <1>10, Runner
  <2> DEFINE M == {c, y}
  <2>2. M = {c, Top.task} /\ \A d \in Tasks : Touches(M, d)
    BY <1>7, <2>1
  <2> HIDE DEF M
  <2>3. HeldBy(x, I(y))'
    <3>1. \A u \in Tasks : task'[u].inst = task[u].inst /\ task'[u].caller = task[u].caller
      BY <1>3 DEF Steady
    <3>2. sub'[x].held /\ HeldBy(x, I(y))
      BY <1>2, <1>10, <2>1 DEF HeldBy
    <3> QED
      BY <3>1, <3>2, HeldByStays
  <2>4. Top.via = "start" => ~sub'[y].held
    BY <1>2, <1>10, <2>1, TopFrame DEF Sleepers, FrameWaits
  <2>5. ~s[1].flag => ~sub'[x].joined
    BY <1>2, <1>10
  <2>6. /\ stack # <<>> /\ M = {c, Top.task} /\ Top.mode \notin {"sync", "empty"}
        /\ s[1].mode = "cancel"
        /\ \E v, w \in Tasks : /\ s[1].on = v /\ Top.task = w /\ HeldBy(v, I(w))'
                               /\ ~s[1].flag => ~sub'[v].joined
                               /\ Top.via = "start" => ~sub'[w].held
    BY <1>10, <2>1, <2>2, <2>3, <2>4, <2>5
  <2> QED
    BY <1>3, <1>4, <1>6, <1>8, <2>2, <2>6, PushSleepers
<1> QED
  BY <1>9, <1>10

\* The state of a subtask is none of that.
LEMMA StateKeeps ==
  ASSUME Types, NEW c \in Tasks, NEW x, sub' = sub \/ sub' = SubState(c, x)
  PROVE  \A d \in Tasks : Kept(d)
<1>1. sub \in [Tasks -> SubRecord] /\ sub[c] \in SubRecord
  BY DEF Types
<1>2. CASE sub' = SubState(c, x)
  <2>1. sub'[c] = [sub[c] EXCEPT !.state = x] /\ \A d \in Tasks \ {c} : sub'[d] = sub[d]
    BY <1>1, <1>2 DEF SubState
  <2>2. Kept(c)
    BY <1>1, <2>1 DEF Kept, SubRecord
  <2> QED
    BY <2>1, <2>2, SameIsKept
<1> QED
  BY <1>2, SameIsKept

\* A task that waits to enter enters.
LEMMA EntersSleepers ==
  ASSUME Core, Core', Sleepers, NEW c \in Tasks, IsParked(c), ResumeEntry(c), Unpark(c)
  PROVE  Sleepers'
<1>1. Types /\ task[c] \in TaskRecord /\ c \notin OnStack /\ I(c) \in Insts
      /\ gate \in [Insts -> GateSet]
  BY Somewhere DEF Core, Located, Placed, Types
<1>2. /\ task[c].park = "entry" /\ gate' = EnterRun(Uncounted(gate, I(c)), c)
      /\ stack' = <<Running(c, "resume")>> \o stack
      /\ \A u \in Tasks \ {c} : task'[u] = task[u]
      /\ task'[c].inst = task[c].inst /\ task'[c].caller = task[c].caller
  BY <1>1 DEF ResumeEntry, Types, TaskRecord
<1>3. \A d \in Tasks : Kept(d)
  BY <1>1, StateKeeps DEF ResumeEntry, SubState
<1>4. KeepsPoison
  <2> DEFINE g == Uncounted(gate, I(c))
             z == -1
  <2>1. z \in Int
    OBVIOUS
  <2>2. Counted(gate, g, I(c), z, 0)
    BY <1>1, CountTurns
  <2>3. gate' = EnterRun(g, c)
    BY <1>2
  <2> HIDE DEF g, z
  <2>4. Turned(g, gate', I(c), c, FALSE, 0, 0)
    BY <1>1, <2>2, <2>3, CountKeepsOwner, RunTurns
  <2> QED
    BY <2>2, <2>4 DEF Counted, Turned, KeepsPoison
<1>5. \A u \in Tasks \ {c} : Steady(u)
  BY <1>2 DEF Steady
<1>6. \A d : ~Watches(c, d)
  BY <1>1, <1>2, FramesAre DEF Watches
<1> DEFINE f == Running(c, "resume")
           M == {c}
<1>7. /\ f \in Frame /\ f.task = c /\ f.mode = "run" /\ f.via # "start"
      /\ stack' = <<f>> \o stack /\ M = {c} /\ SameFrames(stack)
  BY <1>1, <1>2, RunningFacts DEF SameFrames, Types
<1>8. \A d \in Tasks : Touches(M, d)
  BY <1>3 DEF Touches
<1> HIDE DEF f, M
<1> QED
  BY <1>1, <1>2, <1>4, <1>5, <1>6, <1>7, <1>8, PushSleepers

\* step
LEMMA StepSleepers ==
  ASSUME Core, Core', Sleepers, Step
  PROVE  Sleepers'
<1>1. Types /\ Located /\ ReadyIndexes # {} /\ Unpark(FirstReady)
  BY DEF Core, Step
<1> DEFINE c == FirstReady
           via == "resume"
           b == FALSE
<1>2. c \in Tasks /\ IsParked(c) /\ Ready(c) /\ Unpark(c)
  BY <1>1, FirstReadyIs
<1>3. \/ ResumeEntry(c)
      \/ ResumeLoop(c, via, stack, sub, b) \/ ResumeBlocked(c, via, stack, sub, b)
  BY DEF Step
<1>4. via \in {"resume", "cancel"} /\ ~b
  OBVIOUS
<1> HIDE DEF c, via, b
<1>5. CASE ResumeEntry(c)
  BY <1>2, <1>5, EntersSleepers
<1>6. CASE ResumeLoop(c, via, stack, sub, b) \/ ResumeBlocked(c, via, stack, sub, b)
  <2>1. c \notin OnStack /\ I(c) \in Insts
    BY <1>1, <1>2, Somewhere DEF Located, Placed
  <2>2. Owns(c)
    <3>1. CASE task[c].park = "block"
      BY <1>1, <1>2, <2>1, <3>1 DEF Located, Exclusivity, HasFrames, Owns
    <3>2. CASE task[c].park \in {"wait", "yield"}
      BY <1>2, <2>1, <3>2 DEF Ready, HeldByOther, Owns
    <3> QED
      BY <1>6, <3>1, <3>2 DEF ResumeLoop, ResumeBlocked
  <2>3. SameFrames(stack) /\ sub \in [Tasks -> SubRecord] /\ \A d \in Tasks : SameFlags(sub[d], sub[d])
    BY <1>1 DEF SameFrames, Types, SameFlags
  <2> QED
    BY <1>2, <1>4, <1>6, <2>1, <2>2, <2>3, ResumedSleepers
<1> QED
  BY <1>3, <1>5, <1>6

\* The marks of a builtin that resumes the callee.
LEMMA CancelFrame ==
  ASSUME Core, stack # <<>>, Top.mode = "run",
         NEW c \in Tasks, task[c].caller # NoTask, NEW b \in BOOLEAN, NEW s,
         s = [stack EXCEPT ![1].mode = "cancel", ![1].on = c, ![1].flag = b]
  PROVE  SameFrames(s) /\ s[1].mode = "cancel" /\ s[1].on = c /\ (b => s[1].flag)
<1>1. SameFrames(s)
  BY CancelMarks DEF SameDrives
<1>2. 1 \in DOMAIN stack /\ Top = stack[1] /\ Top \in Frame /\ stack \in Seq(Frame)
  BY Runner DEF Core, Types
<1>3. s[1] = [[[Top EXCEPT !.mode = "cancel"] EXCEPT !.on = c] EXCEPT !.flag = b]
  BY <1>2
<1> QED
  BY <1>1, <1>2, <1>3 DEF Frame

\* A task is cancelled before it enters, by a builtin of t.
LEMMA EntryCancelledSleepers ==
  ASSUME Core, Core', Sleepers, NEW c \in Tasks, NEW t, Runs(t), HeldBy(c, I(t)),
         EntryCancelled(c, Requested(c)), stack' = stack, c \notin OnStack, I(c) \in Insts,
         task[c].park # "block", (IsParked(c) /\ Unpark(c)) \/ (~IsParked(c) /\ parked' = parked)
  PROVE  Sleepers'
<1>1. /\ Types /\ Once(parked) /\ task \in [Tasks -> TaskRecord] /\ task[c] \in TaskRecord
      /\ gate \in [Insts -> GateSet] /\ stack # <<>> /\ Top.task = t /\ Top.mode = "run"
      /\ sub[c].held
  BY DEF Core, Located, Placed, Types, Runs, HeldBy
<1>2. t \in Tasks /\ t \in OnStack /\ t # c /\ Owns(t) /\ ~IsParked(t)
  BY <1>1, Runner, TopFrame
<1>3. /\ \A u \in Tasks \ {c} : task'[u] = task[u]
      /\ task'[c].inst = task[c].inst /\ task'[c].caller = task[c].caller
  BY <1>1 DEF EntryCancelled, TaskRecord
<1>4. ~IsParked(c)' /\ \A u \in Tasks \ {c} : IsParked(u)' <=> IsParked(u)
  <2>1. CASE Unpark(c)
    BY <1>1, <2>1, Unparks DEF Unpark
  <2>2. CASE ~IsParked(c) /\ parked' = parked
    BY <2>2 DEF IsParked
  <2> QED
    BY <2>1, <2>2
<1>5. KeepsPoison
  <2> DEFINE z == -1
  <2>1. Counted(gate, gate', I(c), z, 0)
    BY <1>1, CountTurns DEF EntryCancelled
  <2> QED
    BY <2>1 DEF Counted, Turned, KeepsPoison
<1>6. /\ \A d \in Tasks \ {c} : Kept(d)
      /\ sub'[c].held = sub[c].held /\ sub'[c].sleeper = sub[c].sleeper
  <2> DEFINE p == Requested(c)
             q == Resolve(p, c, "cancelled")
  <2>1. p \in [Tasks -> SubRecord] /\ \A d \in Tasks : SameFlags(p[d], sub[d])
    BY <1>1, RequestKeeps
  <2>2. sub' = Deliver(q, c)
    BY DEF EntryCancelled
  <2> HIDE DEF p
  <2>3. q \in [Tasks -> SubRecord] /\ (\A d \in Tasks \ {c} : q[d] = p[d])
        /\ q[c].held = p[c].held /\ q[c].sleeper = p[c].sleeper
    BY <2>1, ResolveFacts
  <2> HIDE DEF q
  <2>4. (\A d \in Tasks \ {c} : sub'[d] = q[d])
        /\ sub'[c].held = q[c].held /\ sub'[c].sleeper = q[c].sleeper
    BY <2>2, <2>3, DeliverFacts
  <2> QED
    BY <2>1, <2>3, <2>4 DEF SameFlags, Kept
<1> DEFINE M == {c, t}
<1>7. Frames' = Frames /\ (\A f \in Frames : f.task # c) /\ \A f \in Frames : f.task = t => f = Top
  BY <1>1, FramesAre, TopFrame DEF Frames
<1>8. Moves(M)
  BY <1>3, <1>4, <1>5, <1>7 DEF Moves, KeepsPoison
<1>9. \A d \in Tasks : Touches(M, d)
  BY <1>1, <1>2, <1>6 DEF Touches
<1>10. ASSUME NEW f \in Frames', f.task \in M PROVE FrameWaits(f)'
  <2>1. f = Top /\ f.task = t /\ f.mode = "run" /\ f \in Frames
    BY <1>1, <1>7, <1>10
  <2>2. f.via = "start" => ~sub[t].held
    BY <2>1 DEF Sleepers, FrameWaits
  <2>3. sub'[t].held = sub[t].held
    BY <1>2, <1>6 DEF Kept
  <2>4. f.via = "start" => ~sub'[f.task].held
    BY <2>1, <2>2, <2>3
  <2> QED
    BY <2>1, <2>4 DEF FrameWaits
<1>11. \A m \in M : ParkWaits(m)'
  BY <1>2, <1>4, NotParkedWaits
<1>12. \A d \in Tasks : \A m \in M : ~Watches(m, d)
  <2>1. \A d : ~Watches(t, d)
    BY <1>1, TopWatches
  <2>2. \A d : ~Watches(c, d)
    BY <1>7 DEF Watches
  <2> QED
    BY <2>1, <2>2
<1> HIDE DEF M
<1> QED
  BY <1>8, <1>9, <1>10, <1>11, <1>12, SleepersMove

\* subtask.cancel of a callee that has not entered
LEMMA CancelAtEntrySleepers ==
  ASSUME Core, Core', Sleepers, NEW t, NEW c \in Tasks, CancelAtEntry(t, c)
  PROVE  Sleepers'
<1>1. task[c].state = "initial" /\ IsParked(c) /\ Unpark(c) /\ EntryCancelled(c, Requested(c))
      /\ stack' = stack /\ Runs(t) /\ HeldBy(c, I(t))
  BY DEF CancelAtEntry, MayCancel
<1>2. task[c].park # "block"
  BY <1>1 DEF Core, Located, Life
<1>3. c \notin OnStack /\ I(c) \in Insts
  BY <1>1, Somewhere DEF Core, Located, Placed
<1> QED
  BY <1>1, <1>2, <1>3, EntryCancelledSleepers

\* subtask.cancel that resumes the callee
LEMMA CancelResumesSleepers ==
  ASSUME Core, Core', Sleepers, NEW t, NEW c \in Tasks, NEW async \in BOOLEAN,
         CancelResumes(t, c, async)
  PROVE  Sleepers'
<1>1. /\ Types /\ Located /\ HeldBy(c, I(t)) /\ sub[c].held /\ stack # <<>> /\ Top.mode = "run"
      /\ Top.task = t /\ IsParked(c) /\ Unpark(c) /\ Inline(c) /\ (~async => ~sub[c].joined)
  BY DEF Core, CancelResumes, MayCancel, HeldBy, Runs, MayBlockOn
<1>2. task[c].caller # NoTask
  BY <1>1, HasCaller
<1> DEFINE s == [stack EXCEPT ![1].mode = "cancel", ![1].on = c, ![1].flag = async]
           b == TRUE
           via == "cancel"
<1>3. ResumeLoop(c, via, s, Requested(c), b) \/ ResumeBlocked(c, via, s, Requested(c), b)
  BY DEF CancelResumes
<1>4. via \in {"resume", "cancel"}
  OBVIOUS
<1>5. SameFrames(s) /\ s[1].mode = "cancel" /\ s[1].on = c /\ (async => s[1].flag)
  BY <1>1, <1>2, CancelFrame
<1> HIDE DEF s, b, via
<1>6. c \notin OnStack /\ Owns(c) /\ task[c].cancellable
  BY <1>1, InlineIs DEF Located, Placed, Owns, Inline
<1>7. Requested(c) \in [Tasks -> SubRecord] /\ \A d \in Tasks : SameFlags(Requested(c)[d], sub[d])
  BY <1>1, RequestKeeps
<1> QED
  BY <1>1, <1>3, <1>4, <1>5, <1>6, <1>7, ResumedSleepers

\* subtask.cancel of a callee that only looks parked
LEMMA CancelStaleSleepers ==
  ASSUME Core, Core', Sleepers, NEW t, NEW c \in Tasks, CancelStale(t, c)
  PROVE  Sleepers'
<1>1. /\ Types /\ Located /\ Life(c)
      /\ HeldBy(c, I(t)) /\ sub[c].held /\ Runs(t) /\ Top.task = t
      /\ stack # <<>> /\ Top.mode = "run" /\ ~IsParked(c)
      /\ parked' = parked
      /\ task[c].state = "initial" \/ Inline(c)
  BY DEF Core, Located, CancelStale, MayCancel, HeldBy, Runs
<1>2. t \in Tasks /\ Top \in Frame /\ task[c].caller # NoTask
  BY <1>1, Runner, HasCaller
<1>3. task[c].park # "block" => c \notin OnStack
  <2>1. CASE task[c].state = "initial"
    BY <1>1, <2>1 DEF Life
  <2>2. CASE Inline(c)
    <3>1. task[c].park # "block" => gate[I(c)].owner = NoTask
      BY <2>2, InlineIs
    <3>2. c \in OnStack => gate[I(c)].owner = c
      BY <1>1 DEF Located, Exclusivity, HasFrames
    <3> QED
      BY <3>1, <3>2, TasksAssumption
  <2> QED
    BY <1>1, <2>1, <2>2
<1>4. I(c) \in Insts
  <2>1. task[c].state # "fresh"
    BY <1>1 DEF Inline
  <2> QED
    BY <1>1, <2>1, Somewhere
<1>5. CASE \E m \in {"hung", "panic"} : stack' = [stack EXCEPT ![1].mode = m]
                                        /\ UNCHANGED <<task, gate, sub>>
  <2>1. PICK m \in {"hung", "panic"} : stack' = [stack EXCEPT ![1].mode = m]
    BY <1>5
  <2>2. Marks(stack', m, Top.on, Top.flag) /\ Top.on \in Tasks \cup {NoTask} /\ Top.flag \in BOOLEAN
    BY <1>2, <2>1 DEF Marks, Frame
  <2>3. SameFrames(stack') /\ stack'[1].mode = m
    BY <1>1, <2>2, TopMarked
  <2>4. (\A u \in Tasks : Steady(u)) /\ KeepsPoison /\ \A d \in Tasks : Kept(d)
    BY <1>5, SameIsKept DEF Steady, KeepsPoison
  <2> QED
    BY <1>1, <2>3, <2>4, TopWatches, TopSleepers
<1>6. CASE task[c].park = "entry" /\ EntryCancelled(c, Requested(c)) /\ stack' = stack
  BY <1>1, <1>3, <1>4, <1>6, EntryCancelledSleepers
<1>7. CASE task[c].park = "yield"
           /\ ResumeLoop(c, "cancel",
                         [stack EXCEPT ![1].mode = "cancel", ![1].on = c, ![1].flag = TRUE],
                         Requested(c), TRUE)
  <2> DEFINE b == TRUE
             via == "cancel"
             s == [stack EXCEPT ![1].mode = "cancel", ![1].on = c, ![1].flag = b]
  <2>1. ResumeLoop(c, via, s, Requested(c), b) /\ task[c].park = "yield"
    BY <1>7
  <2>2. b \in BOOLEAN /\ b /\ via \in {"resume", "cancel"}
    OBVIOUS
  <2> HIDE DEF b, via
  <2>3. SameFrames(s) /\ s[1].mode = "cancel" /\ s[1].on = c /\ (b => s[1].flag)
    BY <1>1, <1>2, <2>2, CancelFrame
  <2> HIDE DEF s
  <2>4. c \notin OnStack /\ Owns(c) /\ task[c].cancellable
    <3>1. Inline(c)
      BY <1>1, <2>1 DEF Life
    <3> QED
      BY <1>3, <2>1, <3>1, InlineIs DEF Owns, Inline
  <2>5. Requested(c) \in [Tasks -> SubRecord] /\ \A d \in Tasks : SameFlags(Requested(c)[d], sub[d])
    BY <1>1, RequestKeeps
  <2> QED
    BY <1>1, <2>1, <2>2, <2>3, <2>4, <2>5, ResumedSleepers
<1> QED
  BY <1>5, <1>6, <1>7 DEF CancelStale

\* Whoever waits is unwound, and its instance is poisoned.
LEMMA WatcherDies ==
  ASSUME Core, NEW own, ~own => stack # <<>> /\ Top.mode \notin {"sync", "empty"},
         NEW m \in Tasks, NEW d, Watches(m, d)
  PROVE  m \in Trapped(own) \cup Aborted
<1>1. ASSUME NEW f \in Frames, f.task = m, f.mode \in {"sync", "empty"}
      PROVE  m \in Trapped(own)
  <2>1. DOMAIN stack = 1..Len(stack) /\ Len(stack) \in Nat
    BY DEF Core, Types
  <2>2. PICK k \in DOMAIN stack : f = stack[k]
    BY <1>1 DEF Frames, FramesOf
  <2>3. ~own => k # 1
    <3>1. stack # <<>> => Top = stack[1]
      BY TopIs DEF Core
    <3> QED
      BY <1>1, <2>2, <3>1
  <2>4. k \in (IF own THEN 1 ELSE 2)..Len(stack)
    BY <2>1, <2>2, <2>3
  <2> QED
    BY <1>1, <2>2, <2>4 DEF Trapped
<1>2. CASE IsParked(m) /\ task[m].park = "block"
  BY <1>2 DEF Aborted, Reaped
<1> QED
  BY <1>1, <1>2 DEF Watches

\* A trap, a failed task or a deadlock.
LEMMA UnwindSleepers ==
  ASSUME Core, Sleepers, NEW g \in [Insts -> GateSet],
         \A i \in Insts : g[i].poisoned = gate[i].poisoned,
         NEW own \in BOOLEAN, ~own => stack # <<>> /\ Top.mode \notin {"sync", "empty"},
         Unwind(g, own)
  PROVE  Sleepers'
<1>1. Types /\ Once(parked) /\ sub' = sub /\ stack' = <<>> /\ parked' = Filtered(parked, Reaped)
  BY DEF Core, Located, Placed, Unwind
<1>2. \A f \in Frames' : FALSE
  BY <1>1 DEF Frames, FramesOf
<1>3. \A u \in Tasks : /\ task'[u].inst = task[u].inst /\ task'[u].caller = task[u].caller
                       /\ task'[u].park \in {"none", task[u].park}
  BY <1>1, UnwoundTasks DEF Who
<1>4. \A i \in Insts :
        gate'[i].poisoned <=> gate[i].poisoned \/ \E t \in Trapped(own) \cup Aborted : I(t) = i
  BY UnwoundGates
<1>5. ASSUME NEW u \in Tasks PROVE ParkWaits(u)'
  <2>1. IsParked(u)' => IsParked(u) /\ u \notin Reaped
    BY <1>1, Unparks
  <2>2. task'[u].park = "block" => task[u].park = "block"
    BY <1>3
  <2> QED
    BY <2>1, <2>2 DEF ParkWaits, Reaped
<1>6. ASSUME NEW d \in Tasks, sub[d].sleeper
      PROVE  sub[d].held /\ gate[I(task[d].caller)]'.poisoned
  <2>1. sub[d].held
    BY <1>6 DEF Sleepers, Asleep
  <2>2. task[d].caller # NoTask /\ Located
    BY <2>1, HasCaller DEF Core
  <2>3. task[d].caller \in Tasks /\ task[task[d].caller].state # "fresh"
    BY <1>1, <2>2 DEF Types, TaskRecord, Located, Life
  <2>4. I(task[d].caller) \in Insts
    BY <1>1, <2>2, <2>3, Somewhere
  <2>5. I(task[d].caller)' = I(task[d].caller)
    BY <1>3, <2>3 DEF I
  <2>6. gate'[I(task[d].caller)].poisoned
    <3>1. CASE gate[I(task[d].caller)].poisoned
      BY <1>4, <2>4, <3>1
    <3>2. CASE ~gate[I(task[d].caller)].poisoned
      <4>1. PICK m \in Tasks : Watches(m, d)
        BY <1>6, <3>2 DEF Sleepers, Asleep
      <4>2. m \in Trapped(own) \cup Aborted /\ I(m) = I(task[d].caller)
        BY <4>1, WatcherDies, WatcherIs
      <4> QED
        BY <1>4, <2>4, <4>2
    <3> QED
      BY <3>1, <3>2
  <2> QED
    BY <2>1, <2>5, <2>6
<1>7. \A d \in Tasks : Asleep(d)'
  BY <1>1, <1>6 DEF Asleep
<1> QED
  BY <1>2, <1>5, <1>7 DEF Sleepers

\* A trap, a failed task, a deadlock
LEMMA TrapSleepers ==
  ASSUME Core, Sleepers, GuestTrap \/ TaskFails \/ Deadlock
  PROVE  Sleepers'
<1>1. \E own \in BOOLEAN : /\ Unwind(gate, own)
                           /\ ~own => stack # <<>> /\ Top.mode = "run"
  BY DEF GuestTrap, TaskFails, Deadlock
<1>2. gate \in [Insts -> GateSet]
  BY DEF Core, Types
<1> QED
  BY <1>1, <1>2, UnwindSleepers

\* backpressure.inc and .dec
LEMMA BackpressureSleepers ==
  ASSUME Core, Core', Sleepers, NEW t, NEW d \in {1, -1}, Backpressure(t, d)
  PROVE  Sleepers'
<1>1. Types /\ stack # <<>> /\ Top.task = t /\ Top.mode = "run"
      /\ gate[I(t)].backpressure \in 0..(BackpressureLimit - 1)
  BY DEF Core, Backpressure, Runs
<1>2. t \in Tasks /\ I(t) \in Insts /\ gate \in [Insts -> GateSet] /\ gate[I(t)] \in GateSet
      /\ Top = stack[1]
  BY <1>1, Runner DEF Types
<1> DEFINE n == gate[I(t)].backpressure + d
           g == [gate EXCEPT ![I(t)].backpressure = n]
           own == TRUE
<1>3. n \in -1..BackpressureLimit /\ own \in BOOLEAN /\ own
  BY <1>1, <1>2, TasksAssumption DEF GateSet
<1>4. \/ gate' = g /\ UNCHANGED <<task, sub, parked, stack, root>>
      \/ Unwind(g, own)
  BY DEF Backpressure
<1>5. /\ g[I(t)] = [gate[I(t)] EXCEPT !.backpressure = n]
      /\ \A j \in Insts \ {I(t)} : g[j] = gate[j]
      /\ g = [j \in Insts |-> g[j]]
  BY <1>2
<1> HIDE DEF g, n, own
<1>6. g[I(t)] \in GateSet /\ g[I(t)].poisoned = gate[I(t)].poisoned
  BY <1>2, <1>3, <1>5 DEF GateSet
<1>7. g \in [Insts -> GateSet] /\ \A i \in Insts : g[i].poisoned = gate[i].poisoned
  BY <1>2, <1>5, <1>6
<1>8. CASE gate' = g /\ UNCHANGED <<task, sub, parked, stack, root>>
  <2>1. (\A u \in Tasks : Steady(u)) /\ KeepsPoison /\ (\A d2 \in Tasks : Kept(d2)) /\ SameFrames(stack')
    BY <1>1, <1>7, <1>8, SameIsKept DEF Steady, KeepsPoison, SameFrames, Types
  <2> QED
    BY <1>1, <1>2, <1>8, <2>1, TopWatches, TopSleepers
<1>9. CASE Unwind(g, own)
  BY <1>3, <1>7, <1>9, UnwindSleepers
<1> QED
  BY <1>4, <1>8, <1>9

\* Nothing that is said of sleepers changes.
LEMMA SameSleepers ==
  ASSUME Sleepers, UNCHANGED <<task, gate, sub, parked, stack>>
  PROVE  Sleepers'
<1>1. \A u : IsParked(u)' <=> IsParked(u)
  BY DEF IsParked
<1>2. Frames' = Frames
  BY DEF Frames
<1>3. (\A f \in Frames' : FrameWaits(f)') /\ \A u \in Tasks : ParkWaits(u)'
  BY <1>1, <1>2 DEF Sleepers, FrameWaits, ParkWaits, HeldBy, I
<1>4. \A m, d \in Tasks : Watches(m, d)' <=> Watches(m, d)
  BY <1>1, <1>2 DEF Watches, I
<1>5. \A d \in Tasks : Asleep(d)'
  BY <1>4 DEF Sleepers, Asleep, I
<1> QED
  BY <1>3, <1>5 DEF Sleepers

\* Every step leaves the sleepers their waiters.
LEMMA NextSleepers ==
  ASSUME Core, Core', Sleepers, Next
  PROVE  Sleepers'
<1>1. CASE \/ \E t \in Tasks, i \in Insts, s \in Shapes : Call(t, i, s)
           \/ \E c \in Tasks, i \in Insts, s \in Shapes : CallExport(Baton, c, i, s)
  BY <1>1, CallSleepers
<1>2. CASE TaskReturn(Baton) \/ TaskCancel(Baton) \/ WaitIsCancelled(Baton)
  BY <1>2, StatesSleepers
<1>3. CASE \/ Exit(Baton) \/ \E p \in {"wait", "yield"} : CallbackParks(Baton, p)
           \/ \E b \in BOOLEAN : WaitBlocks(Baton, b)
  BY <1>3, LeaveSleepers
<1>4. CASE WaitReturns(Baton) \/ \E b \in BOOLEAN : WaitDrives(Baton, b)
  BY <1>4, DriveSleepers
<1>5. CASE \/ Poll(Baton)
           \/ \E c \in Tasks : \/ Join(Baton, c) \/ SubtaskDrop(Baton, c)
                               \/ CancelResolved(Baton, c)
  BY <1>5, SubsSleepers
<1>6. CASE Backpressure(Baton, 1) \/ Backpressure(Baton, -1)
  <2>1. \E d \in {1, -1} : Backpressure(Baton, d)
    BY <1>6
  <2> QED
    BY <2>1, BackpressureSleepers
<1>7. CASE CancelContinues(Baton) \/ CancelReturns(Baton)
  BY <1>7, CancelContinuesSleepers, CancelReturnsSleepers
<1>8. ASSUME NEW c \in Tasks,
             \/ CancelAtEntry(Baton, c) \/ CancelStale(Baton, c)
             \/ \E async \in BOOLEAN : CancelResumes(Baton, c, async)
                                       \/ CancelPends(Baton, c, async)
      PROVE  Sleepers'
  BY <1>8, CancelAtEntrySleepers, CancelStaleSleepers, CancelResumesSleepers, CancelPendsSleepers
<1>9. CASE Step
  BY <1>9, StepSleepers
<1>10. CASE GuestTrap \/ TaskFails \/ Deadlock
  BY <1>10, TrapSleepers
<1>11. CASE CallReturns
  BY <1>11, SameSleepers DEF CallReturns
<1> QED
  BY <1>1, <1>2, <1>3, <1>4, <1>5, <1>6, <1>7, <1>8, <1>9, <1>10, <1>11 DEF Next

\* Nobody sleeps yet.
LEMMA SleepersInit ==
  ASSUME Init
  PROVE  Sleepers
<1>1. (\A f \in Frames : FALSE) /\ \A u : ~IsParked(u)
  BY DEF Init, Frames, FramesOf, IsParked
<1>2. \A d \in Tasks : ~sub[d].sleeper
  BY DEF Init, NoSubtask
<1> QED
  BY <1>1, <1>2 DEF Sleepers, ParkWaits, Asleep

\* It is inductive beside the first.
LEMMA SleepersStep ==
  ASSUME Core, Core', Sleepers, [Next]_taskVars
  PROVE  Sleepers'
BY NextSleepers, SameSleepers DEF taskVars

\* It says what the property does.
LEMMA SleepersWait ==
  ASSUME Core, Sleepers
  PROVE  SyncWaiterIsWaiting
<1> SUFFICES ASSUME NEW c \in Tasks, sub[c].sleeper, ~gate[I(task[c].caller)].poisoned
             PROVE  /\ ~sub[c].joined /\ ~sub[c].delivered
                    /\ \/ \E k \in DOMAIN stack :
                              \/ stack[k].mode = "sync" /\ stack[k].on = c
                              \/ stack[k].mode = "empty" /\ I(stack[k].task) = I(task[c].caller)
                       \/ \E t \in Tasks : IsParked(t) /\ task[t].park = "block" /\ task[t].awaits = c
  BY DEF SyncWaiterIsWaiting
<1>1. ~sub[c].joined /\ ~sub[c].delivered /\ \E m \in Tasks : Watches(m, c)
  BY DEF Sleepers, Asleep
<1>2. PICK m \in Tasks : Watches(m, c)
  BY <1>1
<1>3. ASSUME NEW f \in Frames, f.task = m,
             \/ f.mode = "sync" /\ f.on = c
             \/ f.mode = "empty" /\ I(m) = I(task[c].caller)
      PROVE  \E k \in DOMAIN stack :
               \/ stack[k].mode = "sync" /\ stack[k].on = c
               \/ stack[k].mode = "empty" /\ I(stack[k].task) = I(task[c].caller)
  BY <1>3 DEF Frames, FramesOf
<1> QED
  BY <1>1, <1>2, <1>3 DEF Watches

-----------------------------------------------------------------------------
(* Every task is in one place, its state and its park agree, and its       *)
(* subtask follows it: the invariant that the theorems below rest on.      *)
THEOREM CoreHolds == Spec => []Core
<1>1. Init => Core
  BY CoreInit
<1>2. Core /\ [Next]_taskVars => Core'
  BY CoreStep
<1> QED
  BY <1>1, <1>2, PTL DEF Spec

(* Guest code of at most one task of an instance is in the middle of       *)
(* something, and that task owns the exclusive (task.go:293-344).          *)
THEOREM ExclusivityHolds == Spec => []Exclusivity
<1>1. Core => Exclusivity
  BY DEF Core, Located
<1> QED
  BY <1>1, CoreHolds, PTL

(* An instance refuses entry exactly while a frame of its own is on the    *)
(* stack, after traps and nested drives too (task.go:315-344).             *)
THEOREM EntryRefused == Spec => []EntryIsRefusedWhileRunning
<1>1. Core => EntryIsRefusedWhileRunning
  BY DEF Core, Located
<1> QED
  BY <1>1, CoreHolds, PTL

(* A resolution that the caller has not been told of is an event that it   *)
(* will find (async_host_import.go:157-159, waitable.go:103-115).          *)
THEOREM ResolutionsAreSeen == Spec => []EveryResolutionIsSeen
<1>1. Core => EveryResolutionIsSeen
  BY DEF Core, Follows, EveryResolutionIsSeen
<1> QED
  BY <1>1, CoreHolds, PTL

(* numWaiting of a waitable set is the number of tasks parked or driving   *)
(* on it, in an instance that nothing has poisoned (waitable.go:160-169).  *)
THEOREM WaitersAreCounted == Spec => []SetWaitersAreCounted
<1>1. Core => SetWaitersAreCounted
  BY DEF Core, WaitersAtLeast, SetWaitersAreCounted
<1> QED
  BY <1>1, CoreHolds, PTL

(* Every variable keeps its type: numWaiting never goes below zero, where  *)
(* waitable-set.drop would find no waiters (waitable.go:160-169).          *)
THEOREM Typed == Spec => []TypeOK
<1>1. Core => TypeOK
  <2> SUFFICES ASSUME Core PROVE TypeOK
    OBVIOUS
  <2>1. Types /\ WaitersAtLeast
    BY DEF Core
  <2>2. ASSUME NEW i \in Insts PROVE gate[i] \in GateRecord
    <3>1. gate[i] \in GateSet /\ gate[i].waiters >= Cardinality(SetWaiters(i))
      BY <2>1 DEF Types, WaitersAtLeast
    <3>2. Cardinality(SetWaiters(i)) \in Nat
      BY <2>1, WaitersFinite, FS_CardinalityType
    <3>3. gate[i].waiters \in Nat
      BY <3>1, <3>2 DEF GateSet
    <3> QED
      BY <3>1, <3>3 DEF GateSet, GateRecord
  <2>3. gate \in [Insts -> GateRecord]
    BY <2>1, <2>2 DEF Types
  <2> QED
    BY <2>1, <2>3 DEF Types, TypeOK
<1> QED
  BY <1>1, CoreHolds, PTL

(* The callee's progress as its caller sees it only goes forward           *)
(* (waitable.go:233-242, async_host_import.go:386-430).                    *)
THEOREM SubtaskAdvances == Spec => SubtaskOnlyAdvances
<1>1. Core /\ [Next]_taskVars =>
        [\A c \in Tasks : sub[c].state # sub'[c].state =>
           \/ sub[c].state \in {"returned", "unstarted", "unreturned"} /\ sub'[c] = NoSubtask
           \/ sub[c].state = "none" /\ sub'[c].state \in {"starting", "started"}
           \/ sub[c].state = "starting" /\ sub'[c].state \in {"started", "unstarted"}
           \/ sub[c].state = "started" /\ sub'[c].state \in {"returned", "unreturned"}]_taskVars
  BY CoreStep DEF Advances
<1> QED
  BY <1>1, CoreHolds, PTL DEF Spec, SubtaskOnlyAdvances

(* Where no task fails, numWaiting and the backpressure counter of a live  *)
(* instance never fall below what they count (task.go:301-313,             *)
(* async_builtins.go:646-668).                                             *)
THEOREM EntriesAreCounted ==
  ASSUME "fail" \notin Faults
  PROVE  Spec => []EntryCountersHold
<1>1. Init => Core /\ Entries
  BY CoreInit, EntriesInit
<1>2. Core /\ Entries /\ [Next]_taskVars => (Core /\ Entries)'
  BY CoreStep, EntriesStep
<1>3. Core /\ Entries => EntryCountersHold
  BY DEF Entries
<1> QED
  BY <1>1, <1>2, <1>3, PTL DEF Spec

(* Where no task fails, tasks enter an instance in the order in which they *)
(* came to its gate: none overtakes another (task.go:301-313).             *)
THEOREM EntersInOrder ==
  ASSUME "fail" \notin Faults
  PROVE  Spec => EntryInOrder
<1>1. Init => Core /\ Entries
  BY CoreInit, EntriesInit
<1>2. Core /\ Entries /\ [Next]_taskVars => (Core /\ Entries)'
  BY CoreStep, EntriesStep
<1>3. Core /\ Entries /\ [Next]_taskVars =>
        [\A t \in Tasks :
           task[t].state # "started" /\ task'[t].state = "started" =>
              \A u \in ParkedAtEntry(task'[t].inst) :
                 u = t \/ \E j, k \in DOMAIN parked :
                            j < k /\ parked[j] = t /\ parked[k] = u]_taskVars
  BY CoreStep, EntriesStep DEF InOrder
<1> QED
  BY <1>1, <1>2, <1>3, PTL DEF Spec, EntryInOrder

(* A subtask that a synchronous cancel waits for has its waiter, of the    *)
(* caller's instance, and is in no waitable set, where another task would  *)
(* take its event: also after a trap, a cancellation or a nested drive     *)
(* (async_builtins.go:324-326, :425-427, :455-473).                        *)
THEOREM SyncWaitersWait == Spec => []SyncWaiterIsWaiting
<1>1. Init => Sleepers
  BY SleepersInit
<1>2. Core /\ Core' /\ Sleepers /\ [Next]_taskVars => Sleepers'
  BY SleepersStep
<1>3. Core /\ Sleepers => SyncWaiterIsWaiting
  BY SleepersWait
<1> QED
  BY <1>1, <1>2, <1>3, CoreHolds, PTL DEF Spec
=============================================================================
