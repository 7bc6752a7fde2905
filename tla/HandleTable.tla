---------------------------- MODULE HandleTable ----------------------------
(***************************************************************************)
(* The per-instance handle table (internal/instance/resource.go) together  *)
(* with the calls that use it: resource canons run by guest code, borrows  *)
(* lent to synchronous and asynchronous host imports, borrows minted for a *)
(* callee task, destructors started by Instance.DropResource, and Close.   *)
(*                                                                         *)
(* All of it runs under the instance's call lease (syncCallMu), so at any  *)
(* moment one goroutine is active and its nested calls form a stack: an    *)
(* export call entered by the host, in it a host import, in that a         *)
(* re-entrant export call or DropResource, and so on.  `frames' is that    *)
(* stack.  What outlives a frame is a lend held by an unresolved subtask.  *)
(***************************************************************************)
EXTENDS Integers, Sequences, FiniteSets

CONSTANTS Objects,        \* identities of table entries (Go pointers)
          Tags,           \* resource types
          GuestDtorTags,  \* types whose destructor is a guest core function
          HostDtorTags,   \* types whose destructor is a host callback
          Tasks,          \* callee tasks that borrows can be scoped to
          Subtasks,       \* async host import calls
          MaxHandle,      \* largest handle (2^32-1 in the code)
          MaxFrames,      \* bound on call nesting
          MaxArgs,        \* bound on borrow arguments of one call
          MaxLends,       \* bound on the lends of one entry
          NoObject, NoTask, NoSubtask, NoTag

ASSUME HandleTableAssumption ==
  /\ MaxHandle \in Nat \ {0}
  /\ MaxFrames \in Nat \ {0}
  /\ MaxArgs \in Nat
  /\ MaxLends \in Nat
  /\ GuestDtorTags \subseteq Tags
  /\ HostDtorTags \subseteq Tags
  /\ GuestDtorTags \cap HostDtorTags = {}
  /\ NoObject \notin Objects
  /\ NoTask \notin Tasks
  /\ NoSubtask \notin Subtasks
  /\ NoTag \notin Tags

VARIABLES
  entries,     \* handleTable.entries: handle -> entry
  next,        \* handleTable.next
  free,        \* handleTable.free, a LIFO stack of handles
  closed,      \* handleTable.closed
  obj,         \* contents of every entry ever created
  frames,      \* stack of calls in progress, the innermost last
  lenders,     \* subtask.lenders of every async host import call
  open,        \* subtasks whose resolve has not been delivered
  numBorrows,  \* task.numBorrows
  returned,    \* tasks that have returned
  poisoned     \* Instance.poisoned

tableVars == <<entries, next, free, closed>>
callVars  == <<frames, lenders, open, numBorrows, returned, poisoned>>
vars == <<entries, next, free, closed, obj, frames, lenders, open,
          numBorrows, returned, poisoned>>

Handles == 1..MaxHandle

(***************************************************************************)
(* Entries.  kind "none" marks an identity that has not been allocated.    *)
(* "other" stands for every non-resource kind of the table (waitable sets, *)
(* subtasks, stream and future ends, error contexts).                      *)
(***************************************************************************)
Entry == [kind : {"none", "resource", "other"}, tag : Tags \cup {NoTag},
          own : BOOLEAN, scope : Tasks \cup {NoTask}, lendCount : Int]

NewEntry(kind, tag, own, scope) ==
  [kind |-> kind, tag |-> tag, own |-> own, scope |-> scope, lendCount |-> 0]
NoEntry == NewEntry("none", NoTag, FALSE, NoTask)
Resource(tag, own, scope) == NewEntry("resource", tag, own, scope)
Other == NewEntry("other", NoTag, FALSE, NoTask)

(***************************************************************************)
(* Frames.  guest says whether guest code runs on top of the frame.        *)
(*   root   the host, outside every call                                   *)
(*   lift   a sync host import lifting its arguments                       *)
(*   alift  an async host import lifting its arguments                     *)
(*   call   a host import's Go function                                    *)
(*   hdrop  DropResource running a host destructor (or none)               *)
(*   gdrop  DropResource running a guest destructor                        *)
(***************************************************************************)
Lend == [tag : Tags, h : Handles, o : Objects]
Frame == [kind : {"root", "lift", "alift", "call", "hdrop", "gdrop"},
          guest : BOOLEAN, lends : Seq(Lend), sub : Subtasks \cup {NoSubtask},
          h : Handles \cup {0}, o : Objects \cup {NoObject}]

NewFrame(kind, guest, sub, h, o) ==
  [kind |-> kind, guest |-> guest, lends |-> <<>>, sub |-> sub, h |-> h, o |-> o]
CallFrame(kind, sub) == NewFrame(kind, FALSE, sub, 0, NoObject)
DropFrame(kind, h, o) == NewFrame(kind, kind = "gdrop", NoSubtask, h, o)

Top == frames[Len(frames)]
Pop == SubSeq(frames, 1, Len(frames) - 1)
Push(f) == Append(frames, f)
SetTop(f) == [frames EXCEPT ![Len(frames)] = f]

GuestRuns == Top.guest
\* Go code of the embedder runs: outside a call, in an import, in a host dtor.
HostRuns == ~Top.guest /\ Top.kind \in {"root", "call", "hdrop"}

(***************************************************************************)
(* handleTable.addEntry, removeEntry and lookup.                           *)
(***************************************************************************)
FirstHandleZero == 0       \* mutant: index 0 is not reserved
FirstHandle == 1

NextHandle == IF free # <<>> THEN free[Len(free)] ELSE next

PopFreeNothing == free     \* mutant: the reused index stays on the free list
PopFree == IF free # <<>> THEN SubSeq(free, 1, Len(free) - 1) ELSE free

AddEntry(o, e) ==
  /\ ~closed
  /\ NextHandle <= MaxHandle
  /\ obj[o].kind = "none"
  /\ entries' = [x \in DOMAIN entries \cup {NextHandle} |->
                   IF x = NextHandle THEN o ELSE entries[x]]
  /\ free' = PopFree
  /\ next' = IF free # <<>> THEN next ELSE next + 1
  /\ obj' = [obj EXCEPT ![o] = e]
  /\ UNCHANGED closed

RemoveEntryTwice(h) ==     \* mutant: the index is freed twice
  /\ entries' = [x \in DOMAIN entries \ {h} |-> entries[x]]
  /\ free' = Append(Append(free, h), h)
  /\ UNCHANGED <<next, closed>>

RemoveEntryLeaks(h) ==     \* mutant: the index is not freed
  /\ entries' = [x \in DOMAIN entries \ {h} |-> entries[x]]
  /\ UNCHANGED <<free, next, closed>>

RemoveEntry(h) ==
  /\ entries' = [x \in DOMAIN entries \ {h} |-> entries[x]]
  /\ free' = Append(free, h)
  /\ UNCHANGED <<next, closed>>

Resolves(tag, h) ==
  /\ h \in DOMAIN entries
  /\ obj[entries[h]].kind = "resource"
  /\ obj[entries[h]].tag = tag

-----------------------------------------------------------------------------
Init ==
  /\ entries = [h \in {} |-> NoObject]
  /\ next = FirstHandle
  /\ free = <<>>
  /\ closed = FALSE
  /\ obj = [o \in Objects |-> NoEntry]
  /\ frames = <<CallFrame("root", NoSubtask)>>
  /\ lenders = [s \in Subtasks |-> <<>>]
  /\ open = {}
  /\ numBorrows = [t \in Tasks |-> 0]
  /\ returned = {}
  /\ poisoned = FALSE

-----------------------------------------------------------------------------
(***************************************************************************)
(* Entering and leaving guest code.  A poisoned instance is not entered    *)
(* again; guest code that was running below the trap goes on.              *)
(***************************************************************************)
EnterGuest ==
  /\ HostRuns /\ ~poisoned /\ ~closed
  /\ frames' = SetTop([Top EXCEPT !.guest = TRUE])
  /\ UNCHANGED <<tableVars, obj, lenders, open, numBorrows, returned, poisoned>>

LeaveGuest ==
  /\ GuestRuns /\ Top.kind # "gdrop"
  /\ frames' = SetTop([Top EXCEPT !.guest = FALSE])
  /\ UNCHANGED <<tableVars, obj, lenders, open, numBorrows, returned, poisoned>>

\* A trap unwinds the guest frames down to the host code that entered them.
GuestTrap ==
  /\ GuestRuns /\ Top.kind # "gdrop"
  /\ frames' = SetTop([Top EXCEPT !.guest = FALSE])
  /\ poisoned' = TRUE
  /\ UNCHANGED <<tableVars, obj, lenders, open, numBorrows, returned>>

-----------------------------------------------------------------------------
(***************************************************************************)
(* Minting handles: resource.new and lower_own (NewOwn), a host-minted     *)
(* borrow (NewBorrow), a borrow scoped to a callee task (NewBorrowScoped), *)
(* and the entries of the other kinds.                                     *)
(***************************************************************************)
Storing == Top.kind \notin {"lift", "alift"}

NewOwn(o, tag) ==
  /\ Storing
  /\ AddEntry(o, Resource(tag, TRUE, NoTask))
  /\ UNCHANGED callVars

NewBorrow(o, tag) ==
  /\ Storing
  /\ AddEntry(o, Resource(tag, FALSE, NoTask))
  /\ UNCHANGED callVars

NewBorrowScoped(o, tag, t) ==
  /\ Storing /\ t \notin returned
  /\ numBorrows' = [numBorrows EXCEPT ![t] = @ + 1]
  /\ AddEntry(o, Resource(tag, FALSE, t))
  /\ UNCHANGED <<frames, lenders, open, returned, poisoned>>

NewOther(o) ==
  /\ Storing
  /\ AddEntry(o, Other)
  /\ UNCHANGED callVars

RemoveOther(h) ==
  /\ GuestRuns
  /\ obj[entries[h]].kind = "other"
  /\ RemoveEntry(h)
  /\ UNCHANGED <<obj, callVars>>

-----------------------------------------------------------------------------
(***************************************************************************)
(* Drop, called by canon resource.drop.  The destructor of an owned entry  *)
(* runs after the removal, in the same guest activity, and changes nothing *)
(* here.  A drop that is refused traps (GuestTrap).                        *)
(***************************************************************************)
ReleaseScopeForgets(e) == UNCHANGED numBorrows   \* mutant

ReleaseScope(e) ==
  IF e.own THEN UNCHANGED numBorrows
           ELSE numBorrows' = [numBorrows EXCEPT ![e.scope] = @ - 1]

Drop(tag, h) ==
  LET e == obj[entries[h]] IN
  /\ GuestRuns
  /\ Resolves(tag, h)
  /\ e.lendCount = 0
  /\ e.own \/ e.scope # NoTask
  /\ ReleaseScope(e)
  /\ RemoveEntry(h)
  /\ UNCHANGED <<obj, frames, lenders, open, returned, poisoned>>

TaskReturnUnchecked(t) ==  \* mutant: the borrows still held are not checked
  /\ GuestRuns /\ t \notin returned
  /\ returned' = returned \cup {t}
  /\ UNCHANGED <<tableVars, obj, frames, lenders, open, numBorrows, poisoned>>

\* task.return and task.cancel refuse while the task still holds borrows.
TaskReturn(t) ==
  /\ GuestRuns /\ t \notin returned
  /\ numBorrows[t] = 0
  /\ returned' = returned \cup {t}
  /\ UNCHANGED <<tableVars, obj, frames, lenders, open, numBorrows, poisoned>>

-----------------------------------------------------------------------------
(***************************************************************************)
(* A host import lifts its arguments one by one.  A borrow argument lends  *)
(* the handle: on the frame for a synchronous import, on the subtask for   *)
(* an asynchronous one.  An own argument is taken out of the table.  An    *)
(* argument that does not lift makes the import panic, which traps the     *)
(* caller before the release of the lends is scheduled.                    *)
(***************************************************************************)
BeginCall ==
  /\ GuestRuns /\ Len(frames) < MaxFrames
  /\ frames' = Push(CallFrame("lift", NoSubtask))
  /\ UNCHANGED <<tableVars, obj, lenders, open, numBorrows, returned, poisoned>>

BeginAsyncCall(s) ==
  /\ GuestRuns /\ Len(frames) < MaxFrames
  /\ s \notin open /\ lenders[s] = <<>>
  /\ open' = open \cup {s}
  /\ frames' = Push(CallFrame("alift", s))
  /\ UNCHANGED <<tableVars, obj, lenders, numBorrows, returned, poisoned>>

Lent(o) == /\ obj[o].lendCount < MaxLends
           /\ obj' = [obj EXCEPT ![o].lendCount = @ + 1]

LiftBorrow(tag, h) ==
  /\ Top.kind = "lift" /\ Len(Top.lends) < MaxArgs
  /\ Resolves(tag, h)
  /\ Lent(entries[h])
  /\ frames' = SetTop([Top EXCEPT !.lends =
                         Append(@, [tag |-> tag, h |-> h, o |-> entries[h]])])
  /\ UNCHANGED <<tableVars, lenders, open, numBorrows, returned, poisoned>>

LiftAsyncBorrow(tag, h) ==
  /\ Top.kind = "alift" /\ Len(lenders[Top.sub]) < MaxArgs
  /\ Resolves(tag, h)
  /\ Lent(entries[h])
  /\ lenders' = [lenders EXCEPT ![Top.sub] = Append(@, entries[h])]
  /\ UNCHANGED <<tableVars, frames, open, numBorrows, returned, poisoned>>

TakeOwnOfLent(tag, h) ==   \* mutant: outstanding lends are not checked
  /\ Top.kind \in {"lift", "alift"}
  /\ Resolves(tag, h)
  /\ obj[entries[h]].own
  /\ RemoveEntry(h)
  /\ UNCHANGED <<obj, callVars>>

TakeOwn(tag, h) ==
  /\ Top.kind \in {"lift", "alift"}
  /\ Resolves(tag, h)
  /\ obj[entries[h]].own
  /\ obj[entries[h]].lendCount = 0
  /\ RemoveEntry(h)
  /\ UNCHANGED <<obj, callVars>>

LiftFails ==
  /\ Top.kind \in {"lift", "alift"}
  /\ LET below == frames[Len(frames) - 1] IN
       IF below.kind = "gdrop"
       THEN frames' = SubSeq(frames, 1, Len(frames) - 2)
       ELSE frames' = [Pop EXCEPT ![Len(frames) - 1] = [below EXCEPT !.guest = FALSE]]
  /\ poisoned' = TRUE
  /\ UNCHANGED <<tableVars, obj, lenders, open, numBorrows, returned>>

RunCall ==
  /\ Top.kind \in {"lift", "alift"}
  /\ frames' = SetTop([Top EXCEPT !.kind = "call"])
  /\ UNCHANGED <<tableVars, obj, lenders, open, numBorrows, returned, poisoned>>

(***************************************************************************)
(* The host function returned (or panicked): the deferred Unlend loop      *)
(* looks every lent handle up again and ignores the ones it cannot release.*)
(***************************************************************************)
LendsOn(lends, o) ==
  Cardinality({i \in 1..Len(lends) : /\ Resolves(lends[i].tag, lends[i].h)
                                     /\ entries[lends[i].h] = o})
Unlend(e, n) == [e EXCEPT !.lendCount = IF @ < n THEN 0 ELSE @ - n]

ReturnCall ==
  /\ Top.kind = "call" /\ ~GuestRuns
  /\ obj' = [o \in Objects |-> Unlend(obj[o], LendsOn(Top.lends, o))]
  /\ frames' = Pop
  /\ UNCHANGED <<tableVars, lenders, open, numBorrows, returned, poisoned>>

(***************************************************************************)
(* The SUBTASK event is delivered: deliverResolve releases the lends       *)
(* through the entry pointers it kept, whatever became of the handles.     *)
(***************************************************************************)
LifterOf(s) == \E i \in 1..Len(frames) : frames[i].sub = s

DeliverResolve(s) ==
  /\ GuestRuns /\ s \in open /\ ~LifterOf(s)
  /\ obj' = [o \in Objects |->
               [obj[o] EXCEPT !.lendCount =
                  @ - Cardinality({i \in 1..Len(lenders[s]) : lenders[s][i] = o})]]
  /\ lenders' = [lenders EXCEPT ![s] = <<>>]
  /\ open' = open \ {s}
  /\ UNCHANGED <<tableVars, frames, numBorrows, returned, poisoned>>

-----------------------------------------------------------------------------
(***************************************************************************)
(* Instance.DropResource, called by host code: dropOwnedWithDtor validates *)
(* the handle, unlocks the table, runs the destructor, and removes the     *)
(* handle if it still names the same entry.  A destructor that fails       *)
(* leaves the handle live; a guest destructor that traps poisons.          *)
(***************************************************************************)
BeginDropResource(h) ==
  LET o == entries[h]
      kind == IF obj[o].tag \in GuestDtorTags THEN "gdrop" ELSE "hdrop" IN
  /\ HostRuns /\ ~closed /\ Len(frames) < MaxFrames
  /\ obj[o].kind = "resource" /\ obj[o].own /\ obj[o].lendCount = 0
  /\ frames' = Push(DropFrame(kind, h, o))
  /\ UNCHANGED <<tableVars, obj, lenders, open, numBorrows, returned, poisoned>>

DtorReturned == \/ Top.kind = "gdrop"
                \/ Top.kind = "hdrop" /\ ~GuestRuns

StillExists(h, o) == h \in DOMAIN entries   \* mutant: any entry will do
StillNames(h, o) == h \in DOMAIN entries /\ entries[h] = o

\* Guest destructors and validations that fail poison (err with guestDtor).
FinishDropResource ==
  /\ DtorReturned
  /\ IF StillNames(Top.h, Top.o)
     THEN RemoveEntry(Top.h) /\ UNCHANGED poisoned
     ELSE UNCHANGED tableVars /\ poisoned' = (poisoned \/ Top.kind = "gdrop")
  /\ frames' = Pop
  /\ UNCHANGED <<obj, lenders, open, numBorrows, returned>>

DtorFails ==
  /\ DtorReturned
  /\ Top.kind = "gdrop" \/ obj[Top.o].tag \in HostDtorTags
  /\ poisoned' = (poisoned \/ Top.kind = "gdrop")
  /\ frames' = Pop
  /\ UNCHANGED <<tableVars, obj, lenders, open, numBorrows, returned>>

(***************************************************************************)
(* Instance.Close takes the lease, so no call is in progress; it drains    *)
(* the table (handleTable.close).                                          *)
(***************************************************************************)
Close ==
  /\ Len(frames) = 1 /\ HostRuns /\ ~closed
  /\ closed' = TRUE
  /\ entries' = [h \in {} |-> NoObject]
  /\ free' = <<>>
  /\ UNCHANGED <<next, obj, callVars>>

-----------------------------------------------------------------------------
Mint == \E o \in Objects :
          \/ NewOther(o)
          \/ \E tag \in Tags : \/ NewOwn(o, tag)
                               \/ NewBorrow(o, tag)
                               \/ \E t \in Tasks : NewBorrowScoped(o, tag, t)

Lift == \/ LiftFails \/ RunCall
        \/ \E tag \in Tags, h \in DOMAIN entries :
             LiftBorrow(tag, h) \/ LiftAsyncBorrow(tag, h) \/ TakeOwn(tag, h)

Guest == \/ GuestTrap \/ LeaveGuest \/ BeginCall
         \/ \E s \in Subtasks : BeginAsyncCall(s) \/ DeliverResolve(s)
         \/ \E t \in Tasks : TaskReturn(t)
         \/ \E h \in DOMAIN entries : \/ RemoveOther(h)
                                      \/ \E tag \in Tags : Drop(tag, h)

Host == \/ EnterGuest \/ ReturnCall \/ FinishDropResource \/ DtorFails \/ Close
        \/ \E h \in DOMAIN entries : BeginDropResource(h)

Next == Mint \/ Lift \/ Guest \/ Host

Spec == Init /\ [][Next]_vars

-----------------------------------------------------------------------------
(* Every variable has its type (resource.go, waitable.go and task.go). *)
TypeOK ==
  /\ DOMAIN entries \subseteq Handles
  /\ entries \in [DOMAIN entries -> Objects]
  /\ next \in 1..(MaxHandle + 1)
  /\ free \in Seq(Handles)
  /\ closed \in BOOLEAN
  /\ obj \in [Objects -> Entry]
  /\ frames \in Seq(Frame) /\ frames # <<>>
  /\ lenders \in [Subtasks -> Seq(Objects)]
  /\ open \subseteq Subtasks
  /\ numBorrows \in [Tasks -> Int]
  /\ returned \subseteq Tasks
  /\ poisoned \in BOOLEAN

(* The index space of an open table is split into live handles and the free *)
(* stack, which holds no index twice: removeEntry, TakeOwn, Drop and        *)
(* dropOwnedWithDtor push exactly the index they delete, once, and addEntry *)
(* never hands out a handle that is in use (resource.go:119-124, 265-285).  *)
FreeRange == {free[i] : i \in 1..Len(free)}
HandlesPartitioned ==
  ~closed => /\ \A i, j \in 1..Len(free) : i # j => free[i] # free[j]
             /\ FreeRange \cap DOMAIN entries = {}
             /\ FreeRange \cup DOMAIN entries = 1..(next - 1)

(* task.numBorrows is the number of live borrow handles scoped to the task, *)
(* through every way a handle can come and go, so task.return's check       *)
(* (task.go:151, 186) sees each borrow the callee still holds.              *)
BorrowsCounted ==
  ~closed => \A t \in Tasks :
    numBorrows[t] = Cardinality({h \in DOMAIN entries : obj[entries[h]].scope = t})

(* A task that returned left no borrow behind in its table: the callee can  *)
(* not use the caller's resource after the call (resource.go:366-371).      *)
BorrowsEndWithTask ==
  \A h \in DOMAIN entries : obj[entries[h]].scope \notin returned

(* Lends are never released early: an entry's lendCount covers every borrow *)
(* argument of a host import still running and of every subtask whose       *)
(* resolve was not delivered, and a handle lent to a running synchronous    *)
(* import still names the entry that was lent.  Unlend works by (type,      *)
(* handle) and would otherwise release somebody else's lend.                *)
HeldByFrames(o) ==
  {p \in (1..Len(frames)) \X (1..MaxArgs) :
     /\ p[2] <= Len(frames[p[1]].lends)
     /\ frames[p[1]].lends[p[2]].o = o}
HeldBySubtasks(o) ==
  {p \in open \X (1..MaxArgs) : p[2] <= Len(lenders[p[1]]) /\ lenders[p[1]][p[2]] = o}
LendsHeld(o) == Cardinality(HeldByFrames(o)) + Cardinality(HeldBySubtasks(o))
LendsCovered ==
  ~closed =>
    /\ \A o \in Objects : obj[o].lendCount >= LendsHeld(o)
    /\ \A i \in 1..Len(frames) : \A j \in 1..Len(frames[i].lends) :
         /\ frames[i].lends[j].h \in DOMAIN entries
         /\ entries[frames[i].lends[j].h] = frames[i].lends[j].o

(* DropResource removes the entry it validated or nothing, although guest   *)
(* and host code run between the check and the removal and may drop the     *)
(* handle and have its index reused (resource.go:561).                      *)
DropResourceRemovesWhatItValidated ==
  [][\A h \in DOMAIN entries \ DOMAIN entries' :
       Top.kind \in {"hdrop", "gdrop"} /\ Len(frames') < Len(frames)
         => entries[h] = Top.o]_vars

(* Handle numbering is dense: the index space grows only while every index  *)
(* given out before is live (resource.go:119-123).                          *)
GrowsOnlyWhenFull == [][next' # next => DOMAIN entries = 1..(next - 1)]_vars

(* The table implements the partial map the runtime relies on. *)
Stored == {o \in Objects : obj[o].kind # "none"}
Map == INSTANCE HandleMap WITH map <- entries, seen <- Stored, shut <- closed
RefinesHandleMap == Map!MapSpec

-----------------------------------------------------------------------------
(* resource.go:569: "Lend increments h's outstanding-lend count, blocking   *)
(* TakeOwn/Drop until released via Unlend".  DropResource re-checks only    *)
(* the entry's identity after the destructor ran, not its lendCount.        *)
LentHandleIsNotConsumed ==
  [][\A h \in DOMAIN entries \ DOMAIN entries' :
       closed' \/ obj[entries[h]].lendCount = 0]_vars

(* host_import.go:966: "The lend is released after the call (see the        *)
(* wrapper's Unlend)".  The release is scheduled only after every argument  *)
(* was lifted, so lends of an import whose argument list does not lift stay.*)
LendsEndWithTheirCall ==
  \A h \in DOMAIN entries : obj[entries[h]].lendCount = LendsHeld(entries[h])
=============================================================================
