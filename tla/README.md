# Component-model runtime: TLA+ verification project

This directory holds TLA+ models of the Go package `component-model` (a
WebAssembly Component Model runtime for the Wago engine), the TLC configurations
that check them on small instances, and proofs checked by TLAPS.  Paths below
are relative to `src/` of the repository; `internal/instance/` is written `i/`.

## 1. The system

An embedder compiles a component, instantiates it, calls exports and closes it.
Guest code runs inside an *instance*; it calls canonical built-ins and host
imports.  Everything that moves state is in `i/`; the rest decodes, lays out or
adapts.

| component | state | operations | interacts with |
|---|---|---|---|
| handle table (`i/resource.go`) | `entries`, `next`, `free`, `closed`; per entry own/scope/`lendCount` | `NewOwn`, `NewBorrow(Scoped)`, `Drop`, `TakeOwn`, `Lend`/`Unlend`, `DropResource`, `close` | every canon and every host import; a mutex of its own, released while a destructor runs |
| host import wrappers (`i/host_import.go`, `i/async_host_import.go`) | the lends of a call, `AsyncCall.{state,inCall,sub}` | lift arguments, run the Go function, deferred `Unlend`, `AsyncCall.Resolve/Defer/ResolveCancelled` | handle table, scheduler, mailbox, ABI |
| `CallAsync` (`i/callasync.go`) | `in.pending`, `asyncActive`, `mailbox`; `PendingCall.{driver,cancelRequested,lease,calls,done}`; one mutex `amu`, one condition variable | `CallAsync`, `Await`, `Cancel`, `queueExternalCompletion`, `drainMailbox`, `finishAsync` | lease, scheduler, reaper, `Close` |
| instance (`i/instance.go`, `i/async_lift.go`) | `syncCallMu` (the execution lease), `poisoned`, `tasks`, child instances | `Call`, `DropResource`, `Close` | all of the above |
| scheduler (`i/sched.go`) | `runq`, `parked`, `pumping` | `enqueue`, `park`, `step`, `drive`, `driveToQuiescence`, `drainReady`, `pumpSnapshot` | shared by a whole composition tree |
| guest tasks (`i/task.go`, `i/guest_task.go`) | task state, `park`, `numBorrows`, `inst.exclusive`, `backpressure`, `numWaitingToEnter` | start, run, wait, yield, resume, return, cancel, exit | scheduler, waitables |
| stackful tasks (`i/stackful_task.go`) | a goroutine per task, `park`, two channels | baton hand-over, block, reap | scheduler, `CallAsync` (the reaper) |
| guest threads (`i/thread.go`) | thread table, `park` | yield, suspend, resume-later, `spawn` (unreachable: `thread.new-indirect` refuses when it is bound) | scheduler |
| waitables, sets, subtasks (`i/waitable.go`, `i/async_builtins.go`) | pending event, set membership, `numWaiting`, subtask state, `lenders`, `resolveDelivered` | join, wait, poll, drop, subtask.cancel, task.return, backpressure | handle table, tasks |
| streams and futures (`i/stream*.go`) | `pendingBuffer`, `dropped`, copy state of each end | read, write, cancel, drop, transfer of an end | handle table, waitables |
| error contexts (`i/errorcontext.go`) | immutable entries | new, debug-message, drop | handle table |
| graph, composition (`i/graph.go`, `i/composition.go`, `i/shim.go`, `i/importrewrite.go`, `i/public_host.go`) | nested instances, link maps, `closers` | instantiate, roll back, close | engine, compile cache |
| compile cache (`i/compilecache.go`) | four maps under a state lock | get-or-compile, `Close` | engine |
| canonical ABI (`internal/abi`) | none of its own | layout, flattening, `Load`, `Store`, flat lowering and lifting, spills | guest memory and allocator |
| binary decoder, LEB128 (`internal/binary`, `internal/leb128`) | none | parse | |
| engine adapter, plugin, public API (`internal/engine`, root, `register`) | lifecycle flags | | |

**What is hard.** Guest code, host Go functions, destructors and other
goroutines call back into the runtime at almost every point:

* the handle table is unlocked while a destructor runs, and the handle it was
  validating may be dropped, reused or lent meanwhile;
* lends of an asynchronous import outlive the call that made them;
* `CallAsync` publishes the call, starts the guest and claims the driver role
  in separate steps, while `Close`, `Await`, `Cancel` and `Resolve` run in other
  goroutines; contexts may end at any time;
* completions are queued from goroutines the runtime does not own, in any number
  and at any time, also for calls that have settled;
* tasks parked by one call are seen by the driver of the next one; a trap unwinds
  through built-ins of several instances, each of which holds a gate or a count;
* the result of a stream copy is computed when its event is read, not when it is
  set, and the peer acts in between;
* instantiation fails at any step of any nested component;
* an offset or a joined flat type is computed at several places that must agree.

**What makes each component correct.**

* *handle table*: no handle in use is handed out again; dropped indices are
  reusable exactly once; a borrow scope is counted exactly; a lent handle is not
  consumed; a lend ends with its call or subtask, never earlier.
* *CallAsync*: one goroutine drives at a time and only with the lease; the lease
  has one holder; a completion is applied at most once and not after its call
  settled, and is not lost before; nobody sleeps on work; `Cancel` and `Close`
  terminate; a poisoned instance is not entered.
* *scheduler, tasks*: exclusivity and backpressure gate entry, in order; the gate's
  counts survive every unwinding; a resolution is seen once by the caller.
* *waitables*: a set that is waited on is counted; an event is there when a
  synchronous waiter is woken for it.
* *streams*: what is read is what was written, in order, once; a copy in progress
  is always notified; a final result stands; a dropped peer is noticed.
* *instantiation*: a failed instantiation leaves nothing open; imports go where the
  component says.
* *compile cache*: one module per key survives a race, losers are closed, what is
  handed out is usable until the cache is closed.
* *ABI*: values arrive as they were given, flat or through memory; the host writes
  only into memory it was given.

## 2. Modules

| module | models | how |
|---|---|---|
| `HandleMap` | what the table promises | abstract partial map: allocate an unused handle for a fresh entry, remove, shut |
| `HandleTable` | `i/resource.go` and its callers | one action per table operation and per step of a call that uses it |
| `HandleTableProofs`, `HandleTableBorrows` | | theorems about `HandleTable` |
| `CallAsync` | `i/callasync.go`, lease, `Close`, scheduler driver, `AsyncCall` | one step per section under `amu`, program counters per goroutine |
| `SeqOps` (used by `CallAsync`, `Tasks`) | the slices of `i/sched.go` and `i/stackful_task.go` | what is left of a sequence when elements are removed, without recursion |
| `SeqFacts` | | lemmas on `SeqOps`, least elements, sequences that repeat nothing |
| `CallAsyncProofs` | | theorems about `CallAsync` |
| `Rendezvous` | what a stream or future promises its two ends | abstract: offers are made, elements move between open offers, offers are settled |
| `Channels` | `i/stream.go`, `i/stream_builtins.go`, `i/stream_host.go` | one action per built-in or host method and outcome |
| `ChannelsProofs`, `ChannelsPromise` | | theorems about `Channels`; the refinement of `Rendezvous` |
| `Tasks` | `i/task.go`, `i/guest_task.go`, `i/stackful_task.go`, the shared scheduler, `i/waitable.go`, the task and subtask built-ins of `i/async_builtins.go`, the guest-to-guest lower of `i/async_lift.go` | one action per built-in, park, resumption and exit; a stack of frames for the goroutine that holds the baton |
| `TasksProofs` | | theorems about `Tasks` |
| `CompileCache` | `i/compilecache.go` | look-up, computation and store as separate steps per caller |
| `Instantiation` (extends `CompileCache`) | `i/graph.go`, `i/composition.go`, the instantiation part of `i/instance.go`, `i/shim.go`, `i/importrewrite.go` | the loop over core instances and nested instances as frames with a program counter; every step may fail |
| `InstantiationProofs` | | theorems about `Instantiation` and `CompileCache` |
| `AbiLayout` | `internal/abi/layout.go`, `flatten.go` | functions from types to size, alignment, offsets and flat types, computed once in `Init` |
| `AbiMemory` (extends `AbiLayout`) | `internal/abi/memory.go` | `Load` and `Store` as operators on values and a memory with the guest's allocator |
| `AbiFlat` (extends `AbiMemory`) | `internal/abi/flat.go`, `coreval.go`, `plan.go` | lowering to and lifting from core values, with joins, coercions and spills |
| `AbiCall` (extends `AbiFlat`) | the four crossings of a call in `i/instance.go` and `i/host_import.go` | the composition: an export that calls an import and returns what it returned |
| `MC...` | | instances for TLC: symmetry, views, tables of types, compositions and calls |

### HandleTable and the code

`entries`, `next`, `free`, `closed` are the fields of `handleTable`; `obj` maps
the identity of each entry (a Go pointer) to its contents, so that "the same
entry" and "the same handle" can be told apart, as the code does with
`cur != e` (resource.go:561).  Everything runs under the instance's lease, so
one goroutine is active and its nested calls form the stack `frames`: an export
call entered by the host, an import called by that guest code, a `DropResource`
called by that host function, and so on.  Guest-run canons (`Drop`, `TakeOwn`
through lifting, `TaskReturn`, ...) need guest code on top of the stack, embedder
operations need host code on top.  `DropResource` is three actions, as the code
unlocks the table around the destructor: validate, destructor (whatever frames
are pushed meanwhile), remove.  Lifting the arguments of an import is one action
per argument, because each may fail after the earlier ones were lent.

Simplifications, each with its reason:

* `next` never wraps: `MaxHandle` bounds it, a table with 2^32 entries does not
  fit in memory.
* After `close` an allocation returns 0 and changes nothing, so it is no step.
* An import whose Go function fails panics into the guest, which traps: that is
  `ReturnCall` (the deferred `Unlend`) followed by `GuestTrap`.
* Suspension of a frame inside a stackful task breaks the stack order; the model
  keeps to calls that return in LIFO order.
* Read-only operations (`Rep`, `IsOwn`, lookups for diagnostics) are not actions.

### CallAsync and the code

A goroutine `g` has an operation `op[g]`, a label `pc[g]` and the call `on[g]`
it is about.  Every section of the code under `amu` is one step and so is every
section of guest or host code between two places where another goroutine can
be noticed.  `locked` is `syncCallMu`; `lease[t]` is `PendingCall.lease` while it
is true; `acond.Wait` is label `asleep`, and `Signal`/`Broadcast` move a sleeper
to `wait`, from where it re-evaluates the loop condition of `Await`.  A context that
ends is a step of its own (`ContextEnds`), its watcher goroutine another
(`Watcher`), since the Broadcast comes later.  `Resolve` from a goroutine
of the host is two steps when the code reads `asyncActive` first and acts on it
later (`ResolveBegins`, then `ResolveQueues` or `ResolveApplies`).

Guest code is whatever the running goroutine lets it do: call an async import,
wait, wake another task, exit or trap; host Go functions may resolve at once,
defer a thunk, or return and leave it to a completer.  The scheduler is `runq`
before `parked`, the first ready parked task in registration order.

Simplifications:

* unlocking the lease and waking `Close` are one step (`ReleasePendingLease`);
* a failure to apply a completion is a nondeterministic choice (the code fails on
  result lowering, or on a cancellation nobody requested);
* thunks do not panic; each call (task) is made once; `Close` is called once;
* `CloseOverlaps` says whether `Close` may run while `CallAsync` is between its first
  step and the end of its initial pump.  The code has no guard there.
  `call_async_mixed` has TRUE and the theorems hold for both values; the other runs of
  `CallAsync` have FALSE, and `CloseFinishes` is a claim under that restriction only
  (section 5);
* `overtaken` is bookkeeping of the model: it is set by a `Close` whose `Cancel` finds
  the call published and the driver flag clear while its `CallAsync` is still at work
  (callasync.go:166-177).  From then on there are two drivers, which the code allows
  (section 5); `OneGoroutineDrives` and `LeaseHasOneHolder` except those states and no
  others, so a `Close` before the publication, after the flag is set or after the call
  has settled is covered;
* `Deadlines` names the operations whose context may end before they do.

### Channels and the code

One shared object (`sharedStream` or `sharedFuture`) and its two ends, `"r"` and
`"w"`.  `parked` names the end whose buffer is the pending one, `buf` holds length and
progress of both ends' buffers, `state` the copy state of the ends, `event` what is
pending at a guest end.  A host end learns its result in its callback, at once; a
guest end when its event is read (`TakeEvent`), because the code stores closures and
evaluates them at delivery.  `told` adds up the result words, `received` is what the
reader has, `taken` what has left the writer; these three are bookkeeping of the
model.  An element is its number in the writer's order; the writer offers
again what it was told was not taken.

A copy call that succeeds is one of six actions: the channel is dropped, nothing is
parked, both sides have room (stream or future), zero-length handshake, take-over of
a full parked buffer.  `CallsBack` says whether host callbacks act inline; with TRUE,
`CopyTakesOver` lets the callback start a copy or close the end between the clearing of
the parked buffer and the parking of the new one.

A copy call can fail at three places, after its end was marked as copying and before
anybody is notified: both ends are in one instance (`CopyWithinInstance`), an element of
a guest writer does not lift or is lent out (`CopyFailsAtWriter`: the elements before it
have left the writer's table and no progress is counted), or the guest reader cannot
store what was lifted (`CopyFailsAtReader`: its memory or allocator refuses, or a host
writer offered a value of the wrong type, which `Write` and `Set` do not check).
`copyElements` calls `src.read`, which counts the writer's progress, before `dst.write`
can fail (stream.go:400-413, 163, 191-193, 226): `lost` counts what the writer's progress
then has and the reader's never gets.  `failed` names the ends whose call failed; they
stay copying for good, a guest's because its instance trapped, the host's because its
callback never runs (`CancelNothing` is the cancel of such an end).  The peer goes on:
it may be told of the lost elements when it cancels.

### Tasks and the code

`stack` is what the one goroutine with the baton is in the middle of: the head runs
guest code, the frames below wait for it in a call, a nested drive, a cancel or a
synchronous wait.  The empty stack is the host's `Call`, which drives the scheduler.
`gate` has the fields of an instance that guard entry (`exclusiveOwner`, `mayEnter`,
`numWaitingToEnter`, `backpressure`, `poisoned`) and the waiter count of its one
waitable set; `sub` is the subtask a guest caller holds for each callee.  A task is a
callback lift, a callback lift whose segments run on goroutines of their own
(`promoted`: its instance `MayBlockSync`) or a stackful lift.  Failure is a fault of a
running task; its unwinding (`Unwind`) pops frames one after the other, undoing what
each had taken, as deferred functions and error returns do, up to the host's `Call`,
whose reaper then deals with what is parked.

`SyncWaiterIsWaiting` speaks of a waiter in the caller's *instance*, since any task of it may
cancel a subtask.  An instance with two stackful tasks shows the difference: one of them may
wait for a subtask the other has called.  The instances of section 3 have one
stackful task per caller; the difference appeared in the attempt to prove an earlier form.

Left out: `pumping` (it guards against other goroutines and host imports, which are in
`CallAsync`), `instantiating`, `waitable-set.new` and `.drop`, `context.get/set`, host
imports.

### Instantiation, CompileCache and the code

Each caller builds its own tree from one component and shares the cache.  `frames` is
the recursion of `instantiateGraph`, one frame with a program counter per component;
`mods` are the modules open in the Runtime, `closers` and `subs` what the `Close` of a
component will close, `links` what each import was resolved to.  In the cache, a
look-up that misses (`reading`), the computation (`built`) and the store are separate
steps, with the state lock held for reading from the first to the last.  A core
module's bytes are a number.  A resolver key is a pair of what it is made from and a number:
a "with" name, the empty name's replacement, or the prefixed key of a core instance or
canon group.  A "with" name may be spelled like a group's key (the code tests for that
collision), not like a core instance's (coreInstanceKey's comment rules it out:
`InstantiationAssumption`).  `Tree` is the least set that is closed under sub-instances,
which is what the recursion of `Close` visits.

### Abi* and the code

A type is a name of the table `Types`, the counterpart of a type index and its resolver;
what layout and flattening say of each type is computed once, in `Init`, into the
variable `types`, and never changes (the code computes it on demand and caches
it).  A value is a record with its Go type, its bytes, its parts and its case.  `Store`
threads a memory with an allocator through the value; the allocator is one of four:
it gives memory it has (`fixed`), grows memory when it must, returns addresses astray,
or does not exist.  The call has five phases and passes each value four times:
lowered as arguments, lifted by the import, lowered as its result, lifted from the
export.

## 3. Runs

Passing:

| run | question | bounds |
|---|---|---|
| `handle_table` | do index allocation, borrow counts and lends survive nested calls, async imports, both kinds of destructor and `Close`; does the table implement `HandleMap` | 3 entries, 2 handles, nesting 3, 1 borrow argument per call, 2 lends per entry, 1 task, 1 subtask: 0.5M states |
| `call_async` | two successive `CallAsync` calls with racing `Resolve`s: applied at most once, not lost while the call lives, never after it settled | 2 goroutines, 2 calls, 2 imports, 1 completer: 0.84M states |
| `call_async_mixed` | one driver, one lease holder, no sleeper with something to do, with `CallAsync`, `Await`, `Cancel`, `Call` and `Close` from three goroutines a `Close` at any time and `Await` contexts that end anywhere | 3 goroutines, one stackful `CallAsync` task, one `Call`, 1 import, 1 completer; the states in which a `Close` has overtaken the `CallAsync` are reached and checked, and not followed further: 1.45M states |
| `call_async_fair` | a cancelled call settles and `Close` finishes (liveness) | 2 goroutines, one `CallAsync`, one `Call`, 1 wake-up between guest tasks, one import that resolves in the call, by a thunk, or never: 117k states |
| `channels` | no copy in flight is forgotten, elements arrive in order and are reported, results stand, drops are noticed; the protocol implements `Rendezvous` | 2 guest instances and the host, buffers up to 2, 4 elements, copies that fail at the writer and at the reader, callbacks do not act inline: 39k states |
| `tasks` | exclusivity, the gate, waiter counts and subtask events through nested calls, parks, cancellations in every state, failures and the reaper | 3 tasks of all shapes in a chain of 3 instances, failures, waitable sets, `subtask.cancel`: 1.05M states |
| `tasks_entry` | entry in order and true counters under backpressure | 4 callback tasks, 2 instances, backpressure counter to 2, `subtask.cancel`: 1.0M states |
| `instantiation` | an error leaves nothing open, imports go where the component says, the cache is coherent and what it gives out is usable | 2 callers with one cache, 34 compositions of at most 3 components and 4 core instances, any step failing, `Close` of the cache at any time: 559k states |
| `abi` | values arrive as given through every kind of type, join, padding and both spills; the host writes only into blocks it was given | 120 calls over 34 parameter lists, each with 4 allocators: 2387 states |

Expected violations:

| run | what the code does |
|---|---|
| `call_async_cancel_hangs` | `Await` tests its context (callasync.go:317) before `cancelRequested` (321): a `Cancel` that counts on the active driver is left waiting when that driver's context ends |
| `streams_callback_lost` | with `CallsBack`: a copy that a host callback starts while a peer takes over its full buffer is overwritten (stream.go:348, 375) and never completes |
| `abi_grown_memory` | the slice over guest memory is taken before the allocator runs (memory.go:906): a block in memory that `cabi_realloc` has just grown is refused |

Why the bounds suffice for what is asked.

* Index reuse errors need one index freed, reused and freed again beside a live one:
  two handles and three entries.  A stale handle after a destructor needs the frame
  of the drop, a frame inside it and the outer caller: nesting three.
* The subtle races of `CallAsync` are between a driver, an operation that wants to
  become one and a third that closes or completes: three goroutines (or two and a
  completer).  The liveness properties relate the operation that waits and the one
  that drives: two goroutines; that every wake-up reaches its sleeper is checked with
  three (`NoLostWakeup`).  Two imports are needed to see a batch of the mailbox split
  by a failing completion, two calls to see a completion of the first arrive in the
  second.
* After a `Close` has overtaken a `CallAsync` the first two properties of
  `call_async_mixed` claim nothing, which is why its constraint `Followed` leaves those
  states' successors out.  Without the constraint TLC finds 2.35M states, and all three
  properties hold in them, `NoLostWakeup` as it stands.
* A stream copy that is partial, continued and finished needs a buffer of two and a
  few elements more; the readable end moves between two guests and the host.
* A task that waits behind one that waits needs a third that holds the gate: three
  tasks; a trap that unwinds a bystander needs a caller, a callee and a callee of the
  callee: the chain.  Order of entry needs one holder and three that wait: four.
* Two callers are the race of the cache (the winner and a loser); three components
  are a parent, a provider and a consumer.
* The ABI's limits are scaled so that both sides of each are met by small values:
  `MaxFlatParams` 4 for 16, `MaxTypeDepth` 4 for 64, offsets to 255 for 2^32-1, a memory of
  64 bytes.  Numbers are below 2^16, texts are ASCII, `maxListElements` is left out, and
  growing does not move memory.

The results of section 4 on the handle table, `CallAsync`, streams, tasks and instantiation
hold for all bounds.

`CHECK_DEADLOCK FALSE` in every configuration but `Instantiation.cfg`: all tasks,
elements and calls may be used up, the table closed, or a call left pending that nobody
awaits; the program is idle then.

**Fairness** (`CallAsync!FairSpec`): weak fairness of each goroutine's runtime
steps and of the guest/host code it runs (Go schedules every goroutine; guest
code and Go functions are assumed not to run for ever); strong fairness of
taking `syncCallMu` (Go's mutex hands over to a waiter that starves).  None for
what the embedder starts, for contexts ending, or for `Resolve`: nobody has to
call them, and a stalled import is a legitimate state.  The other modules state no
liveness: whether a task or a copy goes on is up to guest code.

The liveness runs use no symmetry; the safety runs use symmetry where members are
interchangeable, and those of `CallAsync` a VIEW that forgets the dead local variables
of idle goroutines (`call_async_mixed` also forgets `applied` and `stray`, which no step
and none of its properties reads).

## 4. What is proved

`HandleTableProofs`, for every value of the constants that satisfies
`HandleTableAssumption` (the sentinels are not members of the sets they extend,
the bounds are natural numbers, guest and host destructor types are disjoint):

* `TypeCorrect`: `Spec => []TypeOK`;
* `IndexSpacePartitioned`: `Spec => []HandlesPartitioned`;
* `ImplementsHandleMap`: `Spec => Map!MapSpec`, the refinement of `HandleMap`.

All rest on `Invariance`, `Spec => []IInv`.  `HandlesPartitioned` alone is not
inductive: to see that a removal frees an index that is not already free one
needs the types of `entries` and `free`; to see that an allocation stores an entry
that has never been stored (what `HandleMap!Allocate` asks) one needs that the
entries in the table are objects already created; to see that a call that ends leaves
a frame below it, for the type of `frames`, one needs that the host is at the bottom
of the stack and nowhere else.  `IInv` is `TypeOK`, `StackOK`, `HandlesPartitioned`
and `EntriesCreated`.  The proofs are arranged one lemma per
operation; the lemmas on the tail of a sequence take care of the free stack and of
the call stack.  The refinement theorem shows that each action is an `Allocate`, a
`Remove`, a `Shut` or a stutter of the map.

`HandleTableBorrows`, under the same assumptions:

* `BorrowCountExact`: `Spec => []BorrowsCounted`;
* `NoBorrowOutlivesItsTask`: `Spec => []BorrowsEndWithTask`;
* `DropResourceIsExact`: `Spec => DropResourceRemovesWhatItValidated`;
* `NumberingIsDense`: `Spec => GrowsOnlyWhenFull`;
* `LendsAreNotReleasedEarly`: `Spec => []LendsCovered`.

With these every property of the `handle_table` run is a theorem.  `DropResourceIsExact` and
`NumberingIsDense` follow from `IInv` and a lemma on what a step can do to the table
(`StepShape`).  The borrow theorems need `ScopeInv` beside `IInv`: only borrowed
resources have a scope (so taking or dropping an owned entry, or another kind,
leaves the counts alone), the entry a destructor runs for was created and has no
scope (so the removal after the destructor takes no borrow with it), and a closed
table is empty.  `AddScoped` and `RemoveScoped` are the two counting steps; every
other action keeps scopes and keeps or pops the frames of drops (`QuietStep`).  That a
returning task leaves no borrow then follows from the count being zero, and that
none comes later from the guard of `NewBorrowScoped`.

`LendsCovered` is about every entry and every handle lent by a frame, and two removals do not look
at `lendCount`.  One is of the other kinds of entry, so what a frame has lent must be a
resource (`FrameOK`).  The other is the end of `DropResource`, after a destructor that may have
lent the handle again: by then the calls it made are over, and the calls below the
destructor cannot have lent the entry, as it was not lent when the destructor started and only
the call on top lends (`DropsUnlent`).  What stays lent is held by subtasks, through the entry,
not the handle.  New entries are not lent because subtasks name only entries that were
created (`SubtaskOK`).  Releases subtract what the positions of a frame or a subtask can be paired with
(`Paired`, `Released`), which needs that they are finitely many: `open` is finite and nobody
lends beyond `MaxArgs`.

`ChannelsProofs`, for any number of instances and any bounds, from `ChannelsAssumption`
(the sentinels are outside the sets they extend, the bounds are natural numbers), whether
or not host callbacks act inline; these are all the invariants and the action property that
the `channels` run checks:

* `TypeCorrect`, `DroppedIsEmpty`, `ReadInOrder`, `TotalsOfResults`, `NoLateRead`:
  `Spec => []` of `TypeOK`, `NothingParkedOnceDropped`, `InOrder`, `TotalsAgree`,
  `NoReadOfDroppedFuture`;
* `ResultsStand`: `Spec => FinalResultStands`;
* `CopiesTracked`, the only one that assumes `CallsBack = FALSE`: `Spec => []CopyIsTracked`
  (with `TRUE`, `streams_callback_lost` refutes it).

The inductive invariant `ChannelInv` has four parts.  `Tracked` contains the two halves of
`CopyIsTracked`: a copy in flight is parked, has its event, has failed or was displaced by an
inline callback (`NoneForgotten`), and the parked buffer is that of an open copy
(`ParkedIsOpen`).  It adds that only a guest end that is copying has an event
(`EventsBelong`: without it a delivered event could make an idle end of a parked copy) and
that a failed end is stuck (`FailuresStay`: it is copying, not parked, without event, its
instance has trapped; so no later copy meets it and nothing moves after elements were
lost).  `FutureInv` is about futures: the parked buffer is untouched (`FutureFresh`, so a
meeting always moves one element), a writer's final event says that the reader has its value
or is gone (`FutureTold`), and therefore the reader is over when the writer may leave
(`FutureSettled`).  `Books` says of each end that what it was told plus the progress of
its open copy is what the reader has, plus, for the writer, what one failed call took
(`Accounted`, `Excess`); `InOrder` follows since the next element the writer offers is
then the next the reader lacks.

`ChannelsPromise`: `PromiseKept`, `Spec => KeepsPromise`, the refinement of `Rendezvous`
under the same assumption, inline callbacks and failures included.  A copy call is an
`Offer`, a `Displace` when it takes the place of a full buffer, or a `Fail`; reading an
event, a cancel and a drop are a `Settle`; the rest is a stutter.  `LearnMoves` is the common
part: ends that learn a result settle their offers and are told of all that moved, by
`Accounted`.  `Rendezvous` says what a failure may do: the writer's count may exceed the
reader's by what one failed call took, the failed offer stays open for good, and nothing
moves any more.

`CallAsyncProofs`, for any number of goroutines, calls, AsyncCalls, wake-ups and resolving
host goroutines, from `CallAsyncAssumption` (the sentinels are outside the sets they extend,
`MaxSignals` is a natural number), with a `Close` at any time:

* `DrivenByOne`, `LeaseIsHeldOnce`: `Spec => []` of `OneGoroutineDrives` and
  `LeaseHasOneHolder`, which have the exception of `overtaken` in them;
* `TypeCorrect`, `AppliedOnce`, `NoWakeupIsLost`: `Spec => [](overtaken \/ P)` for `TypeOK`,
  `AppliedAtMostOnce`, `NoLostWakeup`;
* `SettledStaySilent`: `Spec /\ []~overtaken => SettledCallsStaySilent`;
* `NoneAcceptedIsLost`: `Spec => [](overtaken \/ AcceptedIsNotLost)` when no goroutine uses the
  synchronous `Call` (`SyncTasks = {}`, the instance of `call_async`).  With it the claim is
  false (section 5); `RegisteredIsReachable` states what remains true: it holds of the
  AsyncCalls that a pending call has registered;
* `OvertakingNeedsOverlap`: `Spec => []~overtaken` when `~CloseOverlaps`.  An embedder that never
  calls `Close` during a `CallAsync`, nor the reverse, has all of these without exception.

The invariant is `overtaken \/ Inv` (`InvHolds`): every step into a state that is not overtaken
preserves `Inv` (`InvStep`), and `overtaken` stays (`OvertakenStays`).  The step that needs the
hypothesis is `ControlTakesDriver`: a `Cancel` that finds the driver flag clear meets another
goroutine at work on the call only if that is a `CallAsync` and the `Cancel` a `Close`'s, as
`Roles` says that only a `Close` knows of a call before `CallAsync` returns it.

`Inv` is layered, each layer inductive under those before it.  `OneGoroutineDrives`
and `LeaseHasOneHolder` compare labels of two goroutines, and neither is inductive: that a
second goroutine cannot begin to drive depends on who has published, claimed, settled or
joined a call.  `Control` says this by the *role* of a goroutine: `Owner` (it alone may pump,
finish or reap its call), `Framed` (a `Call` or `Close` that holds the lease in its own frame),
`Settles`, `Early` (`CallAsync` before it has the driver role).  `OneHolder` relates the roles to
the lease, `Settling` to `pending` and `asyncActive`, `Roles` to the driver flag and to the state
of a task that has not started.  Most actions leave all roles alone (`Quiet`) or move one goroutine within its
role (`Works`); the dozen that begin, settle or hand over a call are proved one by one.  On top
of `Control`: a resolved completion is in one place only (`Mail`, `Applying`), reaches the
driver while its call lives (`Registered`, `AllRegistered`), and a sleeper's reason to wake comes
with a `Broadcast` or with a watcher that is still to run (`Asleep`).

`SeqFacts` has the facts about slices these proofs need, for sequences of any length: a
filtered sequence keeps the elements that pass, once and in order, and what is removed is gone.
The library's induction theorems cannot be instantiated, so `SetInduction` states induction for
a *set* of numbers, from their well-foundedness.

`TasksProofs`, for any number of tasks and instances, any composition of lifts and any faults,
from `TasksAssumption` (the sentinels are outside the sets they extend, lowers and exports are of
the composition's instances, the counter's limit is positive):

* `ExclusivityHolds`, `EntryRefused`, `ResolutionsAreSeen`: `Spec => []` of `Exclusivity`,
  `EntryIsRefusedWhileRunning`, `EveryResolutionIsSeen`;
* `WaitersAreCounted`, `Typed`: `Spec => []` of `SetWaitersAreCounted` and `TypeOK`;
* `SubtaskAdvances`: `Spec => SubtaskOnlyAdvances`;
* `EntriesAreCounted`, `EntersInOrder`, assuming `"fail" \notin Faults`:
  `Spec => []EntryCountersHold` and `Spec => EntryInOrder`;
* `SyncWaitersWait`: `Spec => []SyncWaiterIsWaiting`.

The inductive invariant is `Core`.  `Exclusivity` says that a task with guest frames owns its
instance's exclusive, and a step that pops a frame must know that no other task of the instance
is on the stack: hence `Placed` (no task is on the stack twice, parked twice, or
both) and `Life`, what a task's state and park say of the place it is in (one that has not
entered is not on the stack; a park for entry belongs to one that has not entered).
`Names` says that a frame that waits for a subtask knows one that has a caller, and `Follows` that the
subtask's state is the task's state as its caller is told it.  The two are needed for
`EveryResolutionIsSeen`, because a step that resolves a task sets the event of another
record.  Every action changes the records of at most two tasks, and `SubStep` says how a step
treats a subtask: it keeps, tells, forgets, resolves, enters or begins it.  An unwinding changes
any number of frames; there the lemmas (`UnwindFine` and those it cites) are about the state
reached, whatever the number of frames popped.

`WaitersAtLeast`, the last part of `Core`, is what `SetWaitersAreCounted` becomes when it has to be
inductive: of a poisoned instance numWaiting may only be too high, as the reaper takes parked
waiters without counting them down.  Every push, pop and park says whether its task sits down
at the set or gets up (`Sits`, `SameDrives`), and the counting lemmas (`Tally` and those
after it) turn that into the cardinality of `SetWaiters`.  That numWaiting is a natural number,
which `TypeOK` says, follows only from this count, so `Core` has the weaker `Types`.

The entry gate has an invariant of its own, `Entries`, inductive beside `Core`: the counters of a
live instance cover what they count, and (`EntryPark`) a task whose park is for entry
and that has not resolved is parked, on the stack, or its instance is poisoned.  The second part
is what lets `CancelStale` be excluded: cancelling a task that is no longer parked takes
numWaiting down a second time, and only in a poisoned instance may that happen.  With numWaiting
never too low, a call that enters at once finds nobody parked at entry (`NobodyWaits`), which is
half of `EntryInOrder`; the other half is that a ready task at entry is the first of its
instance in the parked sequence.  The hypothesis is needed: a task that fails
leaves its instance unpoisoned (§5), so its count goes wrong there.  Traps and
deadlocks are covered.

`SyncWaiterIsWaiting` is about a flag of a subtask and about frames and parks that other tasks
pushed and popped since it was set, so it needs to know what each of those waits for: `Sleepers`,
also inductive beside `Core` and under every fault.  A frame or a park that waits for a subtask is
of the instance that has it in its table (`FrameWaits`, `ParkWaits`), and only a task that may
have the exclusive touches that table (`Touches`); by `Exclusivity` a task that waits with frames
has it, so nobody else of the instance takes or drops the subtask meanwhile (`HeldIsKept`,
`AsleepStays`).  Two facts are less obvious.  A task its caller still runs is in no table
(`via = "start"`), or the caller's look at it when it gives the baton back could put a subtask
to sleep that nobody waits for.  And a task that parks for a subtask is not cancellable, or a
cancellation would wake it and leave the flag set.  A waiter that is woken too early keeps the
flag, with a frame that is about to panic (§5), which `Watches` counts as waiting; when frames are
unwound, whoever waited is trapped or aborted, and the instance is poisoned (`WatcherDies`).

`InstantiationProofs`, for any number of callers and any set of compositions that satisfies
`InstantiationAssumption` (`nested` and `core` are slices, no "with" name is spelled like the key of a
core instance, a group has no arguments, each component has one place).  These are all the
invariants that the `instantiation` run checks:

* `NothingIsLeft`, `LinksAreWritten`, `CompiledUsable`, `CacheCoherent`: `Spec => []` of
  `NothingLeaks`, `LinkedAsWritten`, `CompiledIsUsable`, `CacheIsCoherent`.

`Inv` has one part per caller's tree and one for the cache.  An error in any frame closes that
frame's sub-instances only if its phase can have some; so the proof that every way out closes
what is live needs to know what each frame has made so far: `Stack` (a frame waits at the
nested instance the frame above it makes, and every component is in one frame only),
`Placed` (a sub-instance is one the component has), `Fresh` (what is not live has no
sub-instances yet).  From these `AllUnwound` shows that the union of what the frames close is
`Live`, and `Owned`, that every open module is in the closers of something live, gives
`NothingLeaks`.  `LinkedAsWritten` rests on `Registered`: the key of a core instance that is there
resolves to it, as the fallback names never overwrite it (`FallbackIsNoIdentity`).  For the
cache, `CacheOwnsCompiled` is inductive once it is known that whoever has computed a value
is still looking it up (`Cache`); `KeyedByStored` also needs what the caller knows: the key it
looks up is the one its tree asks for (`Fetching`), and the component its tree is built from is the
stored one (`DecodedStored`).  `CompiledIsUsable` follows from `GotStored`: what a caller holds is
what is stored, and what is stored is open.

Every safety property that the passing runs check of the other modules is a theorem.
Model-checked only: everything about `Abi*`, since what a `RECURSIVE` operator computes is out of
the prover's reach and these modules recurse over types; and liveness under fairness
(`CancelSettles`, `CloseFinishes`), as facts about `ENABLED` are.

## 5. Where the code falls short

Three disagreements are runs (section 3) and findings.  The others were found with the
same models; the properties that state them are kept in the modules, unchecked by any
listed run, and TLC refutes each under the configuration named here or the obvious one.

Handle table:

* a guest destructor started by `DropResource` lends the handle to an async import that
  stays unresolved; the handle is removed although it is lent (resource.go:561 re-checks
  identity, not `lendCount`): `LentHandleIsNotConsumed`;
* an import whose second argument does not lift leaves the first one lent for good
  (host_import.go:736 panics before the deferred `Unlend`): `LendsEndWithTheirCall`.

CallAsync:

* `CallAsync` publishes its call (callasync.go:166), starts the guest and then sets the
  driver flag without `amu`, as "not yet published; no competing driver can observe p"
  (177).  A `Close` that runs in between finds the call and the flag clear: its `Cancel`
  makes itself the driver (349-352), settles the call, reaps and releases the lease while
  the guest starts.  Then two goroutines run guest or scheduler code, against
  callasync.go:25-26 and :120, and the lease is free while the guest runs.  This is what
  `overtaken` records; TLC refutes `OneGoroutineDrives` and `LeaseHasOneHolder` with
  `CloseOverlaps` when that exception is taken out;
* `Close` that arrives in the initial pump, or reads `in.pending` too early, waits for a
  call nobody settles (callasync.go:239, instance.go:2188): `CloseFinishes` with
  `CloseOverlaps`, and `DoneWhenInstanceCloses`;
* `CallAsync` tests `poisoned` before it has the lease, and enters a poisoned instance
  (callasync.go:143): `PoisonedIsNotEntered`;
* outside `CallAsync`, `Resolve` from a spawned goroutine is taken for a call from inside
  the scheduler and applied beside the driver (async_host_import.go:95):
  `OnlyTheDriverApplies`;
* the end of a `CallAsync` drops the mailbox, with completions of imports an earlier
  `Call` started (callasync.go:259): `AcceptedIsNotLost` when calls are mixed.

Tasks:

* `stackfulTask.ready` accepts an event that another task takes before the sleeper runs, and
  `ready` itself removes the park; the woken task then reads an empty set
  (guest_task.go:218, stackful_task.go:287; panic at waitable.go:203).  A synchronous
  `subtask.cancel` can be woken the same way: `NoEmptyRead`;
* `resume` of a task that is no longer parked (task.go:248, stackful_task.go:292-295):
  `ResumedIsParked`;
* the park of a failed or reaped callback task holds no goroutine and survives the
  reaper (stackful_task.go:364): a later call may resume it in a poisoned instance, or a
  later cancel run it again and decrement `numWaitingToEnter` twice; a reaped stackful task
  that waited at entry leaves `numWaitingToEnter` one too high.  `EntryCountersHold` is therefore
  about instances that can still be entered, and the model has the stale parks.

Streams:

* a read that stores its elements fails after the writer's progress was counted
  (stream.go:400-413: `src.read` advances it at 163 and 226, then `dst.write` fails at 191-193),
  because the reader's memory or allocator refuses, or a host writer passed a value of the
  wrong type (stream_host.go:133-160, 241-254 do not check it).  A parked guest writer that is
  cancelled later reports elements the reader never got, against "the number of
  elements actually transferred" (stream_host.go:119-131); a parked host writer whose guest
  reader trapped is told the same when it cancels.  A host end whose own call failed stays
  copying: its `onDone`, which the same comment says "fires EXACTLY ONCE", never fires, its
  next `Write` or `Read` panics and so does `Close`: `CountsWhatArrived`.  `TotalsAgree`,
  `InOrder` and `Rendezvous` state what remains true, with `lost` and `failed`;
* `NothingParkedOnceDropped` has an exception with `CallsBack`: the callback of a displaced host
  copy closes the host's end, and the displacing copy is then parked in the dropped channel
  (stream.go:290-291, 374-375), where only its own cancel ends it;
* a transfer of owned elements that fails part of the way loses the elements before,
  which the comment calls "already transferred" (stream.go:148-154): `ElementsArrive`;
* guest code that runs while a task sleeps in a synchronous copy may cancel that copy,
  though the comment in `cancelCopyHostFunc` (stream_builtins.go, at 727) says no
  synchronous waiter can exist then: `SleepersHaveACopy`.

Instantiation:

* the private host module of a canon is registered in the Runtime before its shim is made
  and entered in `closers` after: it stays open when the shim fails (graph.go:381-398).
  `NothingLeaks` allows for that one module;
* `Close` closes a component's own modules in reverse order, but sub-instances after them
  and in creation order;
* "no guest call before `Instantiate` returns" (composition.go:352-359, graph.go:700-704)
  is not so for start functions.

ABI:

* an `s8` loaded from memory is a `uint32` when it is not negative (memory.go:215-222,
  against value.go:9; an `s16` is always an `int32`), and is refused when it is lowered again (memory.go:771,
  flat.go:173): `LiftedAsDocumented`.  `CarriedExactly` compares numbers, not Go types, and
  allows that refusal;
* the `none` of an option is a nil interface, which `storeVariant` refuses as a payload
  (memory.go:1125), so `option<option<T>>` cannot tell `none` from `some(none)`;
* flags are not masked to their labels, and the widths in memory and flat differ;
* flattening does not use the depth and cycle validation of the layout.

## 6. Not modelled

* **Guest threads**: `thread.new-indirect` refuses when it is bound (thread.go:491-496), so
  a second thread of a task cannot occur and `thread.yield-then-resume` finds none to
  resume.  `thread.yield`, `thread.suspend` and `thread.index` of a task's own thread are
  bound and are left out: `Tasks` has the callback code YIELD, not the builtin.  The
  builtin parks a task with a predicate that always holds (yield) or never holds (suspend),
  or runs one round of `pumpSnapshot`, which nothing else calls.
* **Error contexts**: immutable; to the handle table they are entries of the kind
  "other".
* **Binary decoder and LEB128**: a sequential parser over a large format with no state
  beyond its position; its index spaces reach the other modules as already resolved
  references.
* **Engine adapter**: adapts the external Wago engine; modelled where others use it
  (open, compile, instantiate, close, memory that grows).
* **Plugin and public API**: wrappers that forward to the components above.
* Names and error texts everywhere; the bytes of shims; signatures; translation of
  resource types between instances; which delegate a call goes through.
* Host imports inside `Tasks` and guest-to-guest calls inside `CallAsync`: each module has
  one of the two, the scheduler is the same.

## 7. Plan

1. `Leb128`: decoding with width limits against a reference definition; then the index
   spaces of the decoder.
2. Tasks with host imports, that is, `Tasks` and the mailbox of `CallAsync` in one module.
3. `thread.yield` and `thread.suspend` as blocking imports of `Tasks`, with `pumpSnapshot`.
4. `waitable-set.new` and `.drop` with several sets per instance.
