------------------------------ MODULE Channels ------------------------------
(***************************************************************************)
(* The streams and futures of i/stream.go, i/stream_builtins.go and        *)
(* i/stream_host.go: one shared rendezvous object with a readable and a    *)
(* writable end.  Each end is held by a guest instance (a table entry with *)
(* a pending event) or by the host (a Go value with a callback).           *)
(*                                                                         *)
(* At most one buffer is parked in the shared object; `parked' names the   *)
(* end it belongs to.  The other side copies straight from or into it.  A  *)
(* guest end learns the result of its parked copy when its event is read,  *)
(* a host end when its callback runs, which is at once.  The elements are  *)
(* the numbers 1, 2, ... in the order the writer offers them.              *)
(***************************************************************************)
EXTENDS Integers, Sequences, FiniteSets, FiniteSetsExt

CONSTANTS
    Insts,          \* guest instances
    Host,           \* the embedder, as the holder of an end
    NoEnd,          \* no buffer is parked
    MaxLen,         \* bound: the longest buffer
    MaxElems,       \* bound: the number of elements ever offered
    CallsBack       \* a host callback starts a copy or closes its end inline

ASSUME ChannelsAssumption ==
    /\ Host \notin Insts
    /\ NoEnd \notin {"r", "w"}
    /\ MaxLen \in Nat \ {0} /\ MaxElems \in Nat
    /\ CallsBack \in BOOLEAN

Ends == {"r", "w"}
Peer(e) == IF e = "r" THEN "w" ELSE "r"
Results == {"completed", "dropped", "cancelled"}

VARIABLES
    kind,       \* "stream" or "future"
    plain,      \* the elements are bare or numbers: they need no lifting
    home,       \* who holds each end
    dropped,    \* the shared object's flag
    parked,     \* the end whose buffer is parked, or NoEnd
    state,      \* copy state of each end; "gone" once dropped
    buf,        \* the buffer of each end's copy: its length and progress
    event,      \* the pending event of each end: see Events
    joined,     \* the ends that are members of a waitable set
    blocked,    \* the ends with a synchronous waiter (syncWaiter)
    told,       \* elements each end has been told were copied
    taken,      \* elements that left the writer
    received,   \* elements the reader's progress counts, in order
    lost,       \* elements the writer's progress counts and the reader's never did
    failed,     \* the ends whose copy call failed: it trapped or panicked
    trapped     \* instances that trapped: their code does not run any more

chanVars == <<kind, plain, home, dropped, parked, state, buf, event, joined, blocked,
              told, taken, received, lost, failed, trapped>>

(* "progress" is the event of a partial copy, COMPLETED with a live        *)
(* reclaim of the parked buffer; the others are final results.             *)
Events == {"none", "progress"} \cup Results
NoBuf == [len |-> 0, done |-> 0]
Buffers == {b \in [len : 0..MaxLen, done : 0..MaxLen] : b.done <= b.len}

Guest(e) == home[e] \in Insts
Room(e) == buf[e].len - buf[e].done
Copying(e) == state[e] \in {"copying", "cancelling"}
Runs(e) == home[e] \notin trapped

(* Streams copy any number of elements, a future exactly one.              *)
Lengths == IF kind = "future" THEN {1} ELSE 0..MaxLen

(* How many elements may move at once.                                     *)
MoveAll(n, room) == n
Movable(n, room) == Min({n, room})

(* What the result word says of a buffer.                                  *)
ReportOffer(b) == b.len
Reported(b) == b.done

(* The copy state an end takes when it learns the result of its copy.      *)
After(e, r) ==
    IF \/ r = "dropped"
       \/ kind = "future" /\ (r = "completed" \/ ~Guest(e))
    THEN "done" ELSE "idle"

Init ==
    /\ kind \in {"stream", "future"}
    /\ plain \in BOOLEAN
    /\ home \in [Ends -> Insts \cup {Host}]
    /\ \E e \in Ends : Guest(e)
    /\ dropped = FALSE /\ parked = NoEnd
    /\ state = [e \in Ends |-> "idle"]
    /\ buf = [e \in Ends |-> NoBuf]
    /\ event = [e \in Ends |-> "none"]
    /\ joined = {} /\ blocked = {}
    /\ told = [e \in Ends |-> 0]
    /\ taken = 0 /\ received = <<>> /\ lost = 0
    /\ failed = {} /\ trapped = {}

-----------------------------------------------------------------------------
(* The ends in DOMAIN res learn the result of their copy; b gives the      *)
(* buffers with their progress, s the other copy states.                   *)
Learn(res, b, s) ==
    /\ state' = [e \in Ends |-> IF e \in DOMAIN res THEN After(e, res[e]) ELSE s[e]]
    /\ buf' = [e \in Ends |-> IF e \in DOMAIN res THEN NoBuf ELSE b[e]]
    /\ told' = [e \in Ends |-> told[e] + IF e \in DOMAIN res THEN Reported(b[e]) ELSE 0]

(* The result r of the copy of e: its own call returns it.                 *)
Returned(e, r) == [x \in {e} |-> r]

(* The result of e's call together with that of the parked end p: a host   *)
(* end's callback fires at once, a guest end gets an event.                *)
Notified(e, r, p, q) == [x \in {e} \cup ({p} \ {y \in Ends : Guest(y)}) |->
                            IF x = e THEN r ELSE q]
Posted(p, ev) == IF Guest(p) THEN [event EXCEPT ![p] = ev] ELSE event

(* The bookkeeping a copy call that does not fail leaves alone.            *)
Fixed == UNCHANGED <<kind, plain, home, joined, lost, failed>>

(* A copy call of end e with a buffer of n elements: what it needs.  A     *)
(* call in another state traps before it changes anything.                 *)
CanCopy(e, n) ==
    /\ Runs(e) /\ state[e] = "idle"
    /\ e = "w" => told["w"] + n <= MaxElems

Buffered(e, n) == [buf EXCEPT ![e] = [len |-> n, done |-> 0]]
Started(e) == [state EXCEPT ![e] = "copying"]

(* shared.dropped: the call returns DROPPED.  A future's reader never gets *)
(* here (the code panics with BUG), which NoReadOfDroppedFuture states.    *)
CopyOnDropped(e, n) ==
    /\ CanCopy(e, n) /\ dropped
    /\ kind = "future" => e = "w"
    /\ Learn(Returned(e, "dropped"), Buffered(e, n), state)
    /\ Fixed /\ UNCHANGED <<dropped, parked, event, blocked, taken, received, trapped>>

(* A synchronous guest call blocks until its event is there, which it may  *)
(* not do with an end that is in a waitable set.                           *)
MayWait(e, sync) == sync => Guest(e) /\ e \notin joined
Waits(e, sync) == blocked' = IF sync THEN blocked \cup {e} ELSE blocked

(* Nothing is parked: the buffer is.                                       *)
CopyParks(e, n, sync) ==
    /\ CanCopy(e, n) /\ ~dropped /\ parked = NoEnd
    /\ MayWait(e, sync)
    /\ parked' = e
    /\ state' = Started(e) /\ buf' = Buffered(e, n)
    /\ Waits(e, sync)
    /\ Fixed /\ UNCHANGED <<dropped, event, told, taken, received, trapped>>

(* What may be copied between two ends: the same instance may hold both    *)
(* only when no element needs lifting.                                     *)
MayMeet(e, n) ==
    /\ CanCopy(e, n) /\ ~dropped /\ parked = Peer(e)
    /\ Guest(e) /\ home[e] = home[Peer(e)] => plain

(* The next k elements of the writer's buffer: its pointer follows its     *)
(* progress.                                                               *)
OfferedFromStart(b, k) == [i \in 1..k |-> told["w"] + i]
Offered(b, k) == [i \in 1..k |-> told["w"] + b["w"].done + i]

(* The elements are stored at the reader.                                  *)
Store(b, k) ==
    /\ received' = received \o Offered(b, k)
    /\ taken' = taken + k

(* A guest end stays parked until it reads its event; a host end reclaims  *)
(* its buffer at once.                                                     *)
MetParked(p) == IF Guest(p) THEN p ELSE NoEnd

(* Both sides of a stream have room: elements are copied, the caller       *)
(* completes and the parked copy gets a "progress" event.                  *)
StreamMeets(e, n) ==
    /\ kind = "stream" /\ MayMeet(e, n) /\ n > 0 /\ Room(Peer(e)) > 0
    /\ LET p == Peer(e)
           b == Buffered(e, n)
           k == Movable(n, Room(p))
           moved == [x \in Ends |-> [b[x] EXCEPT !.done = @ + k]]
       IN /\ Learn(Notified(e, "completed", p, "completed"), moved, state)
          /\ event' = Posted(p, "progress")
          /\ parked' = MetParked(p)
          /\ Store(b, k)
    /\ Fixed /\ UNCHANGED <<dropped, blocked, trapped>>

(* A future's one element is copied and both copies complete.              *)
SettledKeeps(p) == p
Settled(p) == NoEnd
FutureMeets(e, n) ==
    /\ kind = "future" /\ MayMeet(e, n)
    /\ LET p == Peer(e)
           b == Buffered(e, n)
           moved == [x \in Ends |-> [b[x] EXCEPT !.done = 1]]
       IN /\ Learn(Notified(e, "completed", p, "completed"), moved, state)
          /\ event' = Posted(p, "completed")
          /\ parked' = Settled(p)
          /\ Store(b, 1)
    /\ Fixed /\ UNCHANGED <<dropped, blocked, trapped>>

(* An empty buffer meets a parked one with room, or an empty write meets   *)
(* an empty parked read: the caller completes, the parked end hears        *)
(* nothing.                                                                *)
CopyPasses(e, n) ==
    /\ kind = "stream" /\ MayMeet(e, n) /\ n = 0
    /\ \/ Room(Peer(e)) > 0
       \/ e = "w" /\ buf["r"].len = 0
    /\ Learn(Returned(e, "completed"), Buffered(e, n), state)
    /\ Fixed /\ UNCHANGED <<dropped, parked, event, blocked, taken, received, trapped>>

(* The parked buffer has no room left: its copy completes and the caller   *)
(* parks in its place.  A host end hears of it in a callback, in which it  *)
(* may start its next copy or close its end, before the caller parks.      *)
CopyTakesOver(e, n, sync, again) ==
    /\ kind = "stream" /\ MayMeet(e, n) /\ Room(Peer(e)) = 0
    /\ ~(e = "w" /\ n = 0 /\ buf["r"].len = 0)
    /\ MayWait(e, sync)
    /\ LET p == Peer(e)
           b == Buffered(e, n)
           res == IF Guest(p) THEN <<>> ELSE Returned(p, "completed")
           next == [nothing |-> "idle", copy |-> "copying", close |-> "done"][again]
       IN /\ again # "nothing" => CallsBack /\ ~Guest(p)
          /\ again = "copy" /\ p = "w" => told["w"] + buf["w"].done + 1 <= MaxElems
          /\ state' = [x \in Ends |-> IF x = e THEN "copying"
                                      ELSE IF x \in DOMAIN res THEN next ELSE state[x]]
          /\ buf' = [x \in Ends |-> IF x \in DOMAIN res
                                    THEN [len |-> IF again = "copy" THEN 1 ELSE 0, done |-> 0]
                                    ELSE b[x]]
          /\ told' = [x \in Ends |-> told[x] + IF x \in DOMAIN res THEN b[x].done ELSE 0]
          /\ event' = Posted(p, "completed")
          /\ dropped' = (again = "close")
    /\ parked' = e
    /\ Waits(e, sync)
    /\ Fixed /\ UNCHANGED <<taken, received, trapped>>

(* The call of end e fails after the end was marked as copying: guest code *)
(* traps, a call of the host panics.  Nobody is notified.                  *)
Fails(e) ==
    /\ state' = Started(e)
    /\ failed' = failed \cup {e}
    /\ trapped' = IF Guest(e) THEN trapped \cup {home[e]} ELSE trapped
    /\ blocked' = {x \in blocked : home[x] # home[e]}
    /\ UNCHANGED <<kind, plain, home, joined, dropped, parked, event, told, received>>

(* Both ends in one instance and elements that need lifting.               *)
CopyWithinInstance(e, n) ==
    /\ CanCopy(e, n) /\ ~dropped /\ parked = Peer(e)
    /\ Guest(e) /\ home[e] = home[Peer(e)] /\ ~plain
    /\ Fails(e)
    /\ buf' = Buffered(e, n)
    /\ UNCHANGED <<taken, lost>>

(* Element i + 1 of a guest writer is lent out, or does not lift.  The i   *)
(* elements before it have left the writer's table and are stored nowhere; *)
(* no progress is counted.                                                 *)
CopyFailsAtWriter(e, n, i) ==
    /\ ~plain /\ Guest("w")
    /\ MayMeet(e, n) /\ n > 0 /\ Room(Peer(e)) > 0
    /\ i < Movable(n, Room(Peer(e)))
    /\ Fails(e)
    /\ buf' = Buffered(e, n)
    /\ taken' = taken + i /\ lost' = lost

(* A guest reader cannot store what was lifted: its memory or allocator    *)
(* refuses it, or a host writer offered a value of another type (the host's *)
(* calls do not check it).  Between two guests plain elements are moved    *)
(* without lifting.  The writer's progress counts all the elements by now, *)
(* the reader's none, whatever its memory holds of them.  A future's       *)
(* result word has no progress.                                            *)
CopyFailsAtReader(e, n) ==
    /\ Guest("r") /\ (Guest("w") => ~plain)
    /\ MayMeet(e, n) /\ n > 0 /\ Room(Peer(e)) > 0
    /\ Fails(e)
    /\ LET b == Buffered(e, n)
           k == Movable(n, Room(Peer(e)))
           counted == IF kind = "stream" THEN k ELSE 0
       IN /\ buf' = [b EXCEPT !["w"].done = @ + counted]
          /\ taken' = taken + k /\ lost' = lost + counted

(* stream.read, stream.write, future.read, future.write and the host's     *)
(* Write, Read, Set, Get.                                                  *)
Copy(e, n) ==
    \/ CopyOnDropped(e, n)
    \/ \E sync \in BOOLEAN : CopyParks(e, n, sync)
    \/ StreamMeets(e, n)
    \/ FutureMeets(e, n)
    \/ CopyPasses(e, n)
    \/ \E sync \in BOOLEAN, again \in {"nothing", "copy", "close"} :
          CopyTakesOver(e, n, sync, again)
    \/ CopyWithinInstance(e, n)
    \/ \E i \in 0..MaxLen : CopyFailsAtWriter(e, n, i)
    \/ CopyFailsAtReader(e, n)

-----------------------------------------------------------------------------
(* Reclaiming empties whatever is parked.                                  *)
KeepParked(e) == parked
Reclaim(e) == IF event[e] = "progress" THEN NoEnd ELSE parked

(* getPendingEvent: the event is evaluated when it is read.                *)
TakeEvent(e) ==
    /\ Learn(Returned(e, IF event[e] = "progress" THEN "completed" ELSE event[e]), buf, state)
    /\ event' = [event EXCEPT ![e] = "none"]
    /\ parked' = Reclaim(e)

(* The event reaches the guest through the waitable set the end is in, or  *)
(* the blocked call returns with it.                                       *)
Deliver(e) ==
    /\ Guest(e) /\ Runs(e)
    /\ event[e] # "none" /\ (e \in joined \/ e \in blocked)
    /\ TakeEvent(e)
    /\ blocked' = blocked \ {e}
    /\ Fixed /\ UNCHANGED <<dropped, taken, received, trapped>>

(* waitable.join: into a set, or out of any.                               *)
Join(e) ==
    /\ Guest(e) /\ Runs(e) /\ state[e] # "gone" /\ e \notin blocked
    /\ joined' = IF e \in joined THEN joined \ {e} ELSE joined \cup {e}
    /\ UNCHANGED <<kind, plain, home, dropped, parked, state, buf, event, blocked, told,
                   taken, received, lost, failed, trapped>>

(* A partial copy that did not fill its buffer can still be cancelled.     *)
LivePending(e) == event[e] = "progress" /\ Room(e) > 0

(* Cancelling settles the copy that is parked, whoever owns it.            *)
CancelParked(e) ==
    /\ parked # NoEnd
    /\ LET mine == parked = e
           res == IF mine \/ ~Guest(parked) THEN Returned(parked, "cancelled") ELSE <<>>
           now == [state EXCEPT ![e] = "cancelling"]
       IN /\ Learn(res, buf, now)
          /\ event' = IF mine THEN [event EXCEPT ![e] = "none"] ELSE Posted(parked, "cancelled")
    /\ parked' = NoEnd

(* stream.cancel-read/-write and future.cancel-*.  Its synchronous form    *)
(* may not be used on an end in a waitable set.  Nothing keeps code that   *)
(* runs while the task of a blocked copy sleeps from cancelling it.        *)
CancelCopy(e) ==
    /\ Guest(e) /\ Runs(e) /\ state[e] = "copying"
    /\ \/ (event[e] = "none" \/ LivePending(e)) /\ CancelParked(e)
       \/ event[e] # "none" /\ ~LivePending(e) /\ TakeEvent(e)
    /\ Fixed /\ UNCHANGED <<dropped, blocked, taken, received, trapped>>

(* An end whose call failed, or whose copy was displaced, has nothing to   *)
(* settle: it is only marked.                                              *)
CancelNothing(e) ==
    /\ parked = NoEnd
    /\ state' = [state EXCEPT ![e] = "cancelling"]
    /\ UNCHANGED <<buf, told, event, parked>>

(* StreamWriter.Cancel, StreamReader.Cancel, FutureReader.Cancel: a host   *)
(* writer of a future has none.                                            *)
HostCancel(e) ==
    /\ ~Guest(e) /\ state[e] = "copying"
    /\ kind = "future" => e = "r"
    /\ CancelParked(e) \/ CancelNothing(e)
    /\ Fixed /\ UNCHANGED <<dropped, blocked, taken, received, trapped>>

(* A busy end may not leave; a future's writer only when its value was     *)
(* taken or refused.                                                       *)
MayLeaveIdle(e) == ~Copying(e) /\ state[e] # "gone"
MayLeave(e) ==
    /\ ~Copying(e) /\ state[e] # "gone"
    /\ kind = "future" /\ e = "w" => state[e] = "done"

(* Only the first drop settles the parked copy.                            *)
DropKeeps == parked
DropSettles == IF dropped THEN parked ELSE NoEnd

(* stream.drop-*, future.drop-* and the host's Close.                      *)
DropEnd(e) ==
    /\ Runs(e) /\ MayLeave(e)
    /\ LET p == parked
           res == IF dropped \/ p = NoEnd \/ p \in {x \in Ends : Guest(x)}
                  THEN <<>> ELSE Returned(p, "dropped")
       IN /\ Learn(res, buf, [state EXCEPT ![e] = IF Guest(e) THEN "gone" ELSE "done"])
          /\ event' = IF dropped \/ p = NoEnd THEN event ELSE Posted(p, "dropped")
    /\ dropped' = TRUE
    /\ parked' = DropSettles
    /\ joined' = joined \ {e}
    /\ UNCHANGED <<kind, plain, home, blocked, taken, received, lost, failed, trapped>>

(* The readable end crosses a call boundary (lift_async_value): an idle    *)
(* end outside any set leaves the table.                                   *)
CanLift == Guest("r") /\ Runs("r") /\ state["r"] = "idle" /\ "r" \notin joined

(* A fresh idle readable end is made at the receiver h.                    *)
Mint(h) ==
    /\ home' = [home EXCEPT !["r"] = h]
    /\ UNCHANGED <<kind, plain, dropped, parked, state, buf, event, joined, blocked, told,
                   taken, received, lost, failed, trapped>>

(* As an argument of a host function, or of another instance's export.     *)
LiftToHost == CanLift /\ Mint(Host)
LiftToGuest(i) == CanLift /\ i # home["r"] /\ i \notin trapped /\ Mint(i)

(* The embedder hands a reader it does not use to guest code, and forgets  *)
(* it.                                                                     *)
HostGives(i) == home["r"] = Host /\ state["r"] = "idle" /\ i \notin trapped /\ Mint(i)

(* Guest code of an instance traps; its blocked goroutines are unwound.    *)
GuestTrap(i) ==
    /\ i \notin trapped
    /\ trapped' = trapped \cup {i}
    /\ blocked' = {e \in blocked : home[e] # i}
    /\ UNCHANGED <<kind, plain, home, dropped, parked, state, buf, event, joined, told,
                   taken, received, lost, failed>>

Next ==
    \/ \E e \in Ends : \E n \in Lengths : Copy(e, n)
    \/ \E e \in Ends : Deliver(e) \/ Join(e) \/ CancelCopy(e) \/ HostCancel(e) \/ DropEnd(e)
    \/ LiftToHost
    \/ \E i \in Insts : LiftToGuest(i) \/ HostGives(i) \/ GuestTrap(i)

Spec == Init /\ [][Next]_chanVars

-----------------------------------------------------------------------------
(* Every variable has its type.                                            *)
TypeOK ==
    /\ kind \in {"stream", "future"} /\ plain \in BOOLEAN
    /\ home \in [Ends -> Insts \cup {Host}]
    /\ dropped \in BOOLEAN
    /\ parked \in Ends \cup {NoEnd}
    /\ state \in [Ends -> {"idle", "copying", "cancelling", "done", "gone"}]
    /\ buf \in [Ends -> Buffers]
    /\ event \in [Ends -> Events]
    /\ joined \subseteq Ends /\ blocked \subseteq Ends
    /\ told \in [Ends -> Nat]
    /\ taken \in Nat /\ received \in Seq(Nat) /\ lost \in Nat
    /\ failed \subseteq Ends /\ trapped \subseteq Insts

(* A copy in flight is parked, or its end already has the event that ends  *)
(* it, unless its call failed; and the parked buffer belongs to a copy in  *)
(* flight that has neither failed nor been settled (sharedStream's pending *)
(* fields against streamEnd.state).                                        *)
CopyIsTracked ==
    /\ \A e \in Ends \ failed : Copying(e) => parked = e \/ event[e] \in Results
    /\ parked # NoEnd => /\ Copying(parked) /\ parked \notin failed
                         /\ event[parked] \in {"none", "progress"}

(* Nothing waits in a channel that was dropped: drop notifies the parked   *)
(* end, and a later copy is refused instead of parked.  The one exception  *)
(* is a copy that displaced a full one of the host whose callback closed   *)
(* its end before the copy was parked (stream.go:290-291, 374-375).        *)
NothingParkedOnceDropped ==
    dropped /\ parked # NoEnd =>
        CallsBack /\ ~Guest(Peer(parked)) /\ state[Peer(parked)] = "done"

(* The reader gets every element once and in the writer's order, although  *)
(* the writer re-offers what it was told was not taken.                    *)
InOrder == \A i \in 1..Len(received) : received[i] = i

(* What the writer was told of beyond what the reader was.                *)
Excess(e) == IF e = "w" THEN lost ELSE 0

(* An end without a copy in flight knows how many elements were copied:    *)
(* the progress in the result words adds up (packCopyResult is computed    *)
(* when the event is read, not when it is set).  The writer's sum exceeds  *)
(* the reader's only by what one failed call took, after which the end     *)
(* that failed is stuck for good.                                          *)
TotalsAgree ==
    /\ \A e \in Ends : ~Copying(e) => told[e] = Len(received) + Excess(e)
    /\ lost > 0 => \E e \in failed : Copying(e)

(* A future that was dropped has no reader left that could read it: the    *)
(* panic in sharedFuture.read is unreachable.                              *)
NoReadOfDroppedFuture == kind = "future" /\ dropped => state["r"] # "idle"

(* Elements that leave the writer arrive at the reader (the comment of     *)
(* guestBuffer.read: on a trap the elements before are "already            *)
(* transferred").                                                          *)
ElementsArrive == taken = Len(received)

(* The count an end is told is that of the elements that were transferred  *)
(* (the comment of StreamWriter.Write: "the number of elements actually    *)
(* transferred").                                                          *)
CountsWhatArrived == \A e \in Ends : ~Copying(e) => told[e] = Len(received)

(* The copy a synchronous waiter sleeps on is in flight (the comment in    *)
(* cancelCopyHostFunc: no sync waiter can exist while guest code runs).    *)
SleepersHaveACopy == \A e \in blocked : Copying(e)

(* A result that is final is only ever read: no cancel, drop or copy of    *)
(* the peer replaces it.                                                   *)
FinalResultStands ==
    [][\A e \in Ends : event[e] \in Results => event'[e] \in {event[e], "none"}]_chanVars

(* The protocol keeps the promise of Rendezvous.                           *)
Promise == INSTANCE Rendezvous WITH
    offer <- [e \in Ends |-> IF Copying(e) THEN Room(e) ELSE -1],
    moved <- Len(received),
    closed <- dropped,
    Writer <- "w"

KeepsPromise == Promise!PromiseSpec
=============================================================================
