-------------------------- MODULE CallAsyncProofs --------------------------
(***************************************************************************)
(* Proofs about CallAsync, for any number of goroutines, calls, AsyncCalls *)
(* and host goroutines that resolve, and a Close at any time.              *)
(*                                                                         *)
(* The invariant is overtaken \/ Inv: a step that reaches a state in which *)
(* no Close has overtaken the CallAsync it closes preserves Inv.  Its      *)
(* layers, each inductive under those before:                              *)
(*   Types, Local   types, and which labels and local variables each       *)
(*                  operation goes through;                                *)
(*   Guests         the scheduler's list and the tasks that run;           *)
(*   Known          an AsyncCall that can be resolved was made;            *)
(*   Control        who holds the lease, pumps, settles and follows a call;*)
(*   Mail, Applying, Registered, AllRegistered                             *)
(*                  where a completion is, and what was done with it;      *)
(*   Asleep         who waits for the condition variable, and why.         *)
(* Control is proved through the role of a goroutine (Owner, Framed, ...): *)
(* most steps leave every role as it was (Quiet), which spares looking at  *)
(* labels again.                                                           *)
(***************************************************************************)
EXTENDS CallAsync, SeqFacts

USE CallAsyncAssumption
USE DEF GoTypes, InstTypes, PendTypes, TaskTypes, CallTypes

-----------------------------------------------------------------------------
(***************************************************************************)
(* What a goroutine is to the call it works on.                            *)
(***************************************************************************)
Begun == {"publish", "activate", "start", "claim", "drive", "resume", "hostfn",
          "drain", "apply", "finish", "reap", "unlease"}

\* It is the one goroutine that may pump, finish or reap the call on[g].
Owner(g) ==
  /\ op[g] # "call"
  /\ \/ pc[g] \in Begun
     \/ pc[g] \in {"wait", "asleep", "release"} /\ ~closed[on[g]]

\* It holds the execution lease in its own frame.
Framed(g) ==
  \/ pc[g] \in {"unlock", "closeReap", "closeTable"}
  \/ op[g] = "call" /\ pc[g] \in Driving \cup {"drain"}

\* It has settled the call and still holds the lease.
Settles(g) == op[g] # "call" /\ pc[g] \in {"reap", "unlease"}

\* CallAsync before it has claimed the driver role, or failing without it.
Early(g) ==
  /\ op[g] = "callasync"
  /\ \/ pc[g] \in {"publish", "activate", "start", "claim"}
     \/ pc[g] \in {"hostfn", "drain", "apply"} /\ ret[g] = "start"
     \/ outcome[g] = "start"

Busy(g) == pc[g] # "idle"
Entering(g) == pc[g] \in {"tryLock", "lockCall", "publish", "activate"}
Publishing(g) == pc[g] = "publish"
Activating(g) == pc[g] = "activate"
Creates(g) == Busy(g) /\ op[g] \in {"callasync", "call"}
InCallAsync(g) == Busy(g) /\ op[g] = "callasync"
InSyncCall(g) == Busy(g) /\ op[g] = "call"
InClose(g) == Busy(g) /\ op[g] = "close"
Follows(g) == Busy(g) /\ op[g] \in {"await", "cancel", "close"} /\ on[g] # NoTask

\* Nothing of the above changes for h.
Stays(h) ==
  /\ Owner(h)' <=> Owner(h)
  /\ Framed(h)' <=> Framed(h)
  /\ Settles(h)' <=> Settles(h)
  /\ Early(h)' <=> Early(h)
  /\ Entering(h)' <=> Entering(h)
  /\ Publishing(h)' <=> Publishing(h)
  /\ Activating(h)' <=> Activating(h)
  /\ Creates(h)' <=> Creates(h)
  /\ InCallAsync(h)' <=> InCallAsync(h)
  /\ InSyncCall(h)' <=> InSyncCall(h)
  /\ InClose(h)' <=> InClose(h)
  /\ Follows(h)' <=> Follows(h)
  /\ Busy(h)' <=> Busy(h)
  /\ on'[h] = on[h]

-----------------------------------------------------------------------------
(***************************************************************************)
(* The inductive invariant.                                                *)
(***************************************************************************)
LocalOf(g) ==
  /\ op[g] = "none" => pc[g] = "idle"
  /\ op[g] = "callasync" =>
       pc[g] \in Begun \cup {"idle", "tryLock", "release"}
  /\ op[g] = "call" =>
       pc[g] \in {"idle", "lockCall", "start", "hostfn", "drive", "resume", "reap", "unlock"}
  /\ op[g] = "await" =>
       pc[g] \in {"idle", "await", "wait", "asleep", "drive", "resume", "hostfn", "drain",
                 "apply", "finish", "reap", "unlease", "release"}
  /\ op[g] = "cancel" =>
       pc[g] \in {"idle", "cancel", "waitDone", "finish", "reap", "unlease", "release"}
  /\ op[g] = "close" =>
       pc[g] \in {"idle", "cancel", "waitDone", "finish", "reap", "unlease", "release",
                 "lockClose", "closeReap", "closeTable"}
  /\ pc[g] \notin {"idle", "lockClose", "closeReap", "closeTable"} => on[g] # NoTask
  /\ run[g] # NoTask <=> InGuest(g)
  /\ pc[g] = "hostfn" => ret[g] # "drive"
  /\ pc[g] \in {"hostfn", "drain", "apply"} /\ ret[g] = "start" => op[g] \in {"callasync", "call"}
  /\ batch[g] # <<>> <=> pc[g] = "apply"
  /\ outcome[g] = "start" =>
       op[g] = "callasync" /\ pc[g] \in {"idle", "finish", "reap", "unlease"}
  /\ InGuest(g) /\ pc[g] \notin {"start", "resume"} => arg[g] # NoCall
Local == \A g \in Procs : LocalOf(g)

\* The registered tasks are those that wait, each once; a running task is run.
Guests ==
  /\ \A g \in Procs : run[g] # NoTask => task[run[g]] = "running"
  /\ \A t \in Tasks : t \in Elems(parked) <=> task[t] = "parked"
  /\ Once(parked)

\* An AsyncCall that somebody can resolve was made by a guest task.
Made(a) == owner[a] # NoTask
Known ==
  /\ \A a \in AsyncCalls : state[a] # "open" => Made(a)
  /\ \A a \in Elems(runq) : Made(a)
  /\ \A a \in Elems(mailbox) : Made(a)
  /\ \A g \in Procs : \A a \in Elems(batch[g]) : Made(a)
  /\ \A g \in Procs : arg[g] # NoCall => Made(arg[g])
  /\ \A c \in Completers : loaded[c] # <<>> => Made(loaded[c][1])
  /\ \A t \in Tasks : \A a \in calls[t] : Made(a)

OneHolder ==
  /\ \A g \in Procs : Owner(g) => lease[on[g]]
  /\ \A t, u \in Tasks : lease[t] /\ lease[u] => t = u
  /\ \A g, h \in Procs : Owner(g) /\ Owner(h) => g = h
  /\ \A g, h \in Procs : Framed(g) /\ Framed(h) => g = h
  /\ \A g \in Procs : Framed(g) => locked /\ \A t \in Tasks : ~lease[t]
  /\ \A t \in Tasks : lease[t] => locked
  /\ locked => (\E t \in Tasks : lease[t]) \/ \E g \in Procs : Framed(g)

Settling ==
  /\ \A g \in Procs : Owner(g) => (closed[on[g]] <=> Settles(g))
  /\ \A t \in Tasks : lease[t] /\ closed[t] => \E g \in Procs : on[g] = t /\ Settles(g)
  /\ \A t \in Tasks : pending = t <=>
       lease[t] /\ ~closed[t] /\ \A g \in Procs : ~Publishing(g)
  /\ asyncActive <=> pending # NoTask /\ \A g \in Procs : ~Activating(g)

Roles ==
  /\ \A g \in Procs : Owner(g) /\ ~closed[on[g]] => driver[on[g]] \/ Early(g)
  /\ \A t \in Tasks : task[t] = "new" =>
       /\ ~closed[t] /\ t \notin handed
       /\ lease[t] => \E g \in Procs : on[g] = t /\ Owner(g) /\ Entering(g)
  /\ \A g \in Procs : Creates(g) => on[g] \notin handed
  /\ \A g, h \in Procs : Creates(g) /\ Busy(h) /\ on[h] = on[g] => g = h \/ InClose(h)
  /\ \A g \in Procs : Entering(g) => task[on[g]] = "new"
  /\ \A g \in Procs : InSyncCall(g) => ~lease[on[g]]
  /\ CloseOverlaps \/ \A g, h \in Procs : InCallAsync(g) => ~InClose(h)
  /\ \A g \in Procs : Follows(g) => lease[on[g]] \/ closed[on[g]]
  /\ \A t \in handed : lease[t] \/ closed[t]

Control == OneHolder /\ Settling /\ Roles
Base == Types /\ Local /\ Guests /\ Known /\ Control

-----------------------------------------------------------------------------
(* Facts about a state.                                                    *)

\* The label of a goroutine tells which operation it executes.
LEMMA Labelled ==
  ASSUME Types, Local, NEW g \in Procs
  PROVE  /\ pc[g] \in {"tryLock", "publish", "activate", "claim"} => op[g] = "callasync"
         /\ pc[g] \in {"lockCall", "unlock"} => op[g] = "call"
         /\ pc[g] \in {"await", "wait", "asleep"} => op[g] = "await"
         /\ pc[g] \in {"cancel", "waitDone"} => op[g] \in {"cancel", "close"}
         /\ pc[g] \in {"lockClose", "closeReap", "closeTable"} => op[g] = "close"
         /\ pc[g] \in {"release", "unlease", "finish", "drain", "apply"} => op[g] # "call"
         /\ pc[g] = "start" => op[g] \in {"callasync", "call"}
         /\ pc[g] \in {"drive", "resume", "hostfn"} => op[g] \in {"callasync", "call", "await"}
         /\ pc[g] \in {"drain", "apply"} => op[g] \in {"callasync", "await"}
         /\ op[g] = "none" => pc[g] = "idle"
BY DEF Local, LocalOf, Types, Ops, Begun

\* Every operation but a Close with nothing to cancel is about a call.
LEMMA OnCall ==
  ASSUME Types, Local, NEW g \in Procs
  PROVE  /\ pc[g] \notin {"idle", "lockClose", "closeReap", "closeTable"} => on[g] \in Tasks
         /\ Owner(g) \/ Creates(g) \/ Entering(g) \/ Follows(g) => on[g] \in Tasks
<1>1. pc[g] \notin {"idle", "lockClose", "closeReap", "closeTable"} => on[g] \in Tasks
  BY DEF Types, Local, LocalOf
<1>2. Owner(g) \/ Entering(g) => pc[g] \notin {"idle", "lockClose", "closeReap", "closeTable"}
  BY DEF Owner, Entering, Begun
<1>3. Creates(g) => pc[g] \notin {"idle", "lockClose", "closeReap", "closeTable"}
  BY Labelled DEF Creates, Busy
<1>4. Follows(g) => on[g] \in Tasks
  BY DEF Follows, Types
<1> QED
  BY <1>1, <1>2, <1>3, <1>4

\* Only the goroutine that makes a call works on it before it returns, but for
\* a Close, which may wait for the call or overtake it.
LEMMA MadeByOne ==
  ASSUME Base, NEW g \in Procs, NEW h \in Procs, Creates(g), Creates(h), on[h] = on[g]
  PROVE  g = h
<1>1. Busy(h) /\ ~InClose(h)
  BY DEF Creates, InClose
<1> QED
  BY <1>1 DEF Base, Control, Roles

\* Who pumps a call made with CallAsync pumps one that is not settled.
LEMMA PumpsOpen ==
  ASSUME Base, NEW g \in Procs, op[g] # "call",
         pc[g] \in Begun \ {"reap", "unlease"}
  PROVE  on[g] \in Tasks /\ closed[on[g]] = FALSE /\ Owner(g) /\ lease[on[g]] = TRUE
<1>1. on[g] \in Tasks
  <2>1. pc[g] \notin {"idle", "lockClose", "closeReap", "closeTable"}
    BY DEF Begun
  <2> QED
    BY <2>1 DEF Base, Types, Local, LocalOf
<1>2. Owner(g) /\ ~Settles(g)
  BY DEF Owner, Settles, Begun
<1>3. closed[on[g]] = FALSE /\ lease[on[g]] = TRUE
  BY <1>1, <1>2 DEF Base, Types, Control, OneHolder, Settling
<1> QED
  BY <1>1, <1>2, <1>3

\* No CallAsync is in progress while the lease is held in a frame.
LEMMA FramedAlone ==
  ASSUME Base, NEW g \in Procs, Framed(g)
  PROVE  locked /\ pending = NoTask /\ ~asyncActive
BY DEF Base, Types, Control, OneHolder, Settling

\* The scheduler takes the first parked task that is ready.
LEMMA FirstReady ==
  ASSUME Types, ReadyIndexes # {}
  PROVE  /\ First(ReadyIndexes) \in DOMAIN parked
         /\ parked[First(ReadyIndexes)] \in Elems(parked) \cap Tasks
<1>1. ReadyIndexes \in SUBSET Nat
  BY DEF Types, ReadyIndexes
<1>2. \E i \in ReadyIndexes : \A j \in ReadyIndexes : i <= j
  BY <1>1, LeastNat
<1>3. First(ReadyIndexes) \in ReadyIndexes
  BY <1>2 DEF First
<1>4. First(ReadyIndexes) \in DOMAIN parked
  BY <1>3 DEF ReadyIndexes
<1> QED
  BY <1>4 DEF Elems, Types

\* A goroutine that takes no step keeps its role.
LEMMA Bystander ==
  ASSUME Types, NEW h \in Procs,
         pc'[h] = pc[h] \/ (pc[h] = "asleep" /\ pc'[h] = "wait"),
         op'[h] = op[h], on'[h] = on[h], ret'[h] = ret[h], outcome'[h] = outcome[h],
         Owner(h) \/ Owner(h)' => closed'[on[h]] = closed[on[h]]
  PROVE  Stays(h)
BY DEF Stays, Owner, Framed, Settles, Early, Entering, Publishing, Activating, Creates,
       InCallAsync, InSyncCall, InClose, Follows, Busy, Begun, Driving

\* A Call goes on under its lease.
LEMMA CallWorker ==
  ASSUME Types, NEW g \in Procs, op[g] = "call", op'[g] = op[g], on'[g] = on[g],
         pc[g] \in {"start", "resume", "hostfn", "drive", "reap", "unlock"},
         pc'[g] \in {"start", "resume", "hostfn", "drive", "reap", "unlock"}
  PROVE  Stays(g)
BY DEF Stays, Owner, Framed, Settles, Early, Entering, Publishing, Activating, Creates,
       InCallAsync, InSyncCall, InClose, Follows, Busy, Begun, Driving

Pumps == {"start", "claim", "drive", "resume", "hostfn", "drain", "apply", "finish",
          "wait", "asleep", "release"}

\* CallAsync, Await or Cancel goes on with a call that is not settled.
LEMMA PumpWorker ==
  ASSUME Types, NEW g \in Procs, op[g] # "call", op'[g] = op[g], on'[g] = on[g],
         pc[g] \in Pumps, pc'[g] \in Pumps,
         closed[on[g]] = FALSE, closed'[on[g]] = FALSE,
         Early(g)' <=> Early(g)
  PROVE  Stays(g)
BY DEF Stays, Owner, Framed, Settles, Entering, Publishing, Activating, Creates,
       InCallAsync, InSyncCall, InClose, Follows, Busy, Begun, Pumps

\* A step in which nobody's role changes keeps the control invariant.
LEMMA Quiet ==
  ASSUME Base, \A h \in Procs : Stays(h),
         UNCHANGED <<locked, pending, asyncActive, closed, lease, driver, handed>>,
         \A t \in Tasks : task'[t] = "new" <=> task[t] = "new"
  PROVE  Control'
<1>1. OneHolder'
  BY DEF Base, Control, OneHolder, Stays
<1>2. Settling'
  BY DEF Base, Control, Settling, Stays
<1>3. Roles'
  <2>1. (\A g \in Procs : Owner(g) /\ ~closed[on[g]] => driver[on[g]] \/ Early(g))'
    BY DEF Base, Control, Roles, Stays
  <2>2. (\A t \in Tasks : task[t] = "new" =>
          /\ ~closed[t] /\ t \notin handed
          /\ lease[t] => \E g \in Procs : on[g] = t /\ Owner(g) /\ Entering(g))'
    BY DEF Base, Control, Roles, Stays
  <2>3. (\A g, h \in Procs : Creates(g) /\ Busy(h) /\ on[h] = on[g] => g = h \/ InClose(h))'
    BY DEF Base, Control, Roles, Stays
  <2>4. (\A g \in Procs : Entering(g) => task[on[g]] = "new")'
    <3>1. \A g \in Procs : Entering(g) => on[g] \in Tasks
      <4>1. \A g \in Procs : Entering(g) => pc[g] \notin {"idle", "lockClose", "closeReap", "closeTable"}
        BY DEF Entering
      <4> QED
        BY <4>1 DEF Base, Types, Local, LocalOf
    <3> QED BY <3>1 DEF Base, Control, Roles, Stays
  <2> QED
    BY <2>1, <2>2, <2>3, <2>4 DEF Base, Control, Roles, Stays
<1> QED
  BY <1>1, <1>2, <1>3 DEF Base, Control

CallLabels == {"start", "resume", "hostfn", "drive", "reap", "unlock"}
PumpLabels == {"start", "claim", "drive", "resume", "hostfn", "drain", "apply", "finish"}

\* h takes no step; at most it is woken.
KeepsPlace(h) ==
  /\ pc'[h] = pc[h] \/ (pc[h] = "asleep" /\ pc'[h] = "wait")
  /\ ret'[h] = ret[h] /\ outcome'[h] = outcome[h]

\* A goroutine works for a Call or pumps an open call; the others wait or sleep.
LEMMA Works ==
  ASSUME Base, NEW g \in Procs,
         UNCHANGED <<op, on, locked, pending, asyncActive, closed, lease, driver, handed>>,
         op[g] = "call" => pc[g] \in CallLabels /\ pc'[g] \in CallLabels,
         op[g] # "call" => pc[g] \in PumpLabels /\ pc'[g] \in Pumps /\ (Early(g)' <=> Early(g)),
         \A h \in Procs \ {g} : KeepsPlace(h),
         \A t \in Tasks : task'[t] = "new" <=> task[t] = "new"
  PROVE  Control'
<1>1. op[g] = "call" => Stays(g)
  BY CallWorker DEF Base, CallLabels
<1>2. op[g] # "call" => Stays(g)
  <2>1. op[g] # "call" => closed[on[g]] = FALSE /\ pc[g] \in Pumps
    BY PumpsOpen DEF PumpLabels, Begun, Pumps
  <2> QED
    BY <2>1, PumpWorker DEF Base
<1>3. \A h \in Procs \ {g} : Stays(h)
  BY Bystander DEF Base, KeepsPlace
<1> QED
  BY <1>1, <1>2, <1>3, Quiet

\* Guest code, the scheduler loop and the drain run while nobody's role changes.
LEMMA ControlWorks ==
  ASSUME Base, NEW g \in Procs,
         \/ GuestOrHost(g) \/ RunThunk(g) \/ ResumeReady(g) \/ DriveEnds(g)
         \/ DrainMailbox(g) \/ ApplyOne(g) \/ ApplyFails(g)
  PROVE  Control'
<1> USE DEF goRest, goVars, goAim, instVars, instRest, instCtl, pendVars, pendRest, schedVars, schedTasks,
            resVars, resRest, acVars
<1>a. Types /\ LocalOf(g)
  BY DEF Base, Local
<1>1. ASSUME GuestImports(g) PROVE Control'
  <2>1. UNCHANGED <<op, on, locked, pending, asyncActive, closed, lease, driver, handed>>
    BY <1>1 DEF GuestImports
  <2>2. op[g] = "call" => pc[g] \in CallLabels /\ pc'[g] \in CallLabels
    BY <1>1, <1>a DEF GuestImports, Goto, GuestRuns, Types, LocalOf, CallLabels
  <2>3. op[g] # "call" => pc[g] \in PumpLabels /\ pc'[g] \in Pumps /\ (Early(g)' <=> Early(g))
    <3>1. op[g] # "call" => pc[g] \in PumpLabels /\ pc'[g] \in Pumps
      BY <1>1, <1>a DEF GuestImports, Goto, GuestRuns, Types, LocalOf, PumpLabels, Pumps
    <3>2. op[g] # "call" => (Early(g)' <=> Early(g))
      BY <1>1, <1>a DEF GuestImports, Goto, GuestRuns, Types, LocalOf, Early
    <3> QED
      BY <3>1, <3>2
  <2>4. \A h \in Procs \ {g} : KeepsPlace(h)
    BY <1>1, <1>a DEF GuestImports, Goto, GuestRuns, Types, KeepsPlace
  <2>5. \A t \in Tasks : task'[t] = "new" <=> task[t] = "new"
    BY <1>1, <1>a DEF GuestImports, GuestRuns, Base, Types, LocalOf, InGuest, Guests
  <2> QED
    BY <2>1, <2>2, <2>3, <2>4, <2>5, Works
<1>2. ASSUME HostResolves(g) PROVE Control'
  <2>1. UNCHANGED <<op, on, locked, pending, asyncActive, closed, lease, driver, handed>>
    BY <1>2 DEF HostResolves, QueueExternalCompletion
  <2>2. op[g] = "call" => pc[g] \in CallLabels /\ pc'[g] \in CallLabels
    BY <1>2, <1>a DEF HostResolves, QueueExternalCompletion, Signal, Types, LocalOf, CallLabels
  <2>3. op[g] # "call" => pc[g] \in PumpLabels /\ pc'[g] \in Pumps /\ (Early(g)' <=> Early(g))
    <3>1. pc'[g] = pc[g]
      BY <1>2, <1>a DEF HostResolves, QueueExternalCompletion, Signal, Types
    <3> QED
      BY <3>1, <1>2 DEF HostResolves, Early, PumpLabels, Pumps
  <2>4. \A h \in Procs \ {g} : KeepsPlace(h)
    BY <1>2, <1>a DEF HostResolves, QueueExternalCompletion, Signal, Types, KeepsPlace
  <2>5. \A t \in Tasks : task'[t] = "new" <=> task[t] = "new"
    BY <1>2, <1>a DEF HostResolves, QueueExternalCompletion, Base, Types, LocalOf, InGuest, Guests
  <2> QED
    BY <2>1, <2>2, <2>3, <2>4, <2>5, Works
<1>3. ASSUME HostDefers(g) PROVE Control'
  <2>1. UNCHANGED <<op, on, locked, pending, asyncActive, closed, lease, driver, handed>>
    BY <1>3 DEF HostDefers
  <2>2. op[g] = "call" => pc[g] \in CallLabels /\ pc'[g] \in CallLabels
    BY <1>3, <1>a DEF HostDefers, Types, LocalOf, CallLabels
  <2>3. op[g] # "call" => pc[g] \in PumpLabels /\ pc'[g] \in Pumps /\ (Early(g)' <=> Early(g))
    <3>1. op[g] # "call" => pc[g] \in PumpLabels /\ pc'[g] \in Pumps
      BY <1>3, <1>a DEF HostDefers, Types, LocalOf, PumpLabels, Pumps
    <3>2. op[g] # "call" => (Early(g)' <=> Early(g))
      BY <1>3, <1>a DEF HostDefers, Types, LocalOf, Early
    <3> QED
      BY <3>1, <3>2
  <2>4. \A h \in Procs \ {g} : KeepsPlace(h)
    BY <1>3, <1>a DEF HostDefers, Types, KeepsPlace
  <2>5. \A t \in Tasks : task'[t] = "new" <=> task[t] = "new"
    BY <1>3, <1>a DEF HostDefers, Base, Types, LocalOf, InGuest, Guests
  <2> QED
    BY <2>1, <2>2, <2>3, <2>4, <2>5, Works
<1>4. ASSUME HostReturns(g) PROVE Control'
  <2>1. UNCHANGED <<op, on, locked, pending, asyncActive, closed, lease, driver, handed>>
    BY <1>4 DEF HostReturns
  <2>2. op[g] = "call" => pc[g] \in CallLabels /\ pc'[g] \in CallLabels
    <3>1. op[g] = "call" => ~asyncActive
      BY <1>4, FramedAlone DEF HostReturns, Framed, Driving
    <3> QED
      BY <3>1, <1>4, <1>a DEF HostReturns, Goto, Types, LocalOf, CallLabels
  <2>3. op[g] # "call" => pc[g] \in PumpLabels /\ pc'[g] \in Pumps /\ (Early(g)' <=> Early(g))
    <3>1. op[g] # "call" => pc[g] \in PumpLabels /\ pc'[g] \in Pumps
      BY <1>4, <1>a DEF HostReturns, Goto, Types, LocalOf, PumpLabels, Pumps
    <3>2. op[g] # "call" => (Early(g)' <=> Early(g))
      BY <1>4, <1>a DEF HostReturns, Goto, Types, LocalOf, Early
    <3> QED
      BY <3>1, <3>2
  <2>4. \A h \in Procs \ {g} : KeepsPlace(h)
    BY <1>4, <1>a DEF HostReturns, Goto, Types, KeepsPlace
  <2>5. \A t \in Tasks : task'[t] = "new" <=> task[t] = "new"
    BY <1>4, <1>a DEF HostReturns, Base, Types, LocalOf, InGuest, Guests
  <2> QED
    BY <2>1, <2>2, <2>3, <2>4, <2>5, Works
<1>5. ASSUME GuestWaits(g) PROVE Control'
  <2>1. UNCHANGED <<op, on, locked, pending, asyncActive, closed, lease, driver, handed>>
    BY <1>5 DEF GuestWaits
  <2>2. op[g] = "call" => pc[g] \in CallLabels /\ pc'[g] \in CallLabels
    BY <1>5, <1>a DEF GuestWaits, Goto, GuestRuns, AfterGuest, Types, LocalOf, CallLabels
  <2>3. op[g] # "call" => pc[g] \in PumpLabels /\ pc'[g] \in Pumps /\ (Early(g)' <=> Early(g))
    <3>1. op[g] # "call" => pc[g] \in PumpLabels /\ pc'[g] \in Pumps
      BY <1>5, <1>a DEF GuestWaits, Goto, GuestRuns, AfterGuest, Types, LocalOf, PumpLabels, Pumps
    <3>2. op[g] # "call" => (Early(g)' <=> Early(g))
      BY <1>5, <1>a DEF GuestWaits, Goto, GuestRuns, AfterGuest, Types, LocalOf, Early
    <3> QED
      BY <3>1, <3>2
  <2>4. \A h \in Procs \ {g} : KeepsPlace(h)
    BY <1>5, <1>a DEF GuestWaits, Goto, GuestRuns, AfterGuest, Types, KeepsPlace
  <2>5. \A t \in Tasks : task'[t] = "new" <=> task[t] = "new"
    BY <1>5, <1>a DEF GuestWaits, GuestRuns, Base, Types, LocalOf, InGuest, Guests
  <2> QED
    BY <2>1, <2>2, <2>3, <2>4, <2>5, Works
<1>6. ASSUME GuestSignals(g) PROVE Control'
  <2>1. UNCHANGED <<op, on, locked, pending, asyncActive, closed, lease, driver, handed>>
    BY <1>6 DEF GuestSignals
  <2>2. op[g] = "call" => pc[g] \in CallLabels /\ pc'[g] \in CallLabels
    BY <1>6, <1>a DEF GuestSignals, GuestRuns, Types, LocalOf, CallLabels
  <2>3. op[g] # "call" => pc[g] \in PumpLabels /\ pc'[g] \in Pumps /\ (Early(g)' <=> Early(g))
    <3>1. op[g] # "call" => pc[g] \in PumpLabels /\ pc'[g] \in Pumps
      BY <1>6, <1>a DEF GuestSignals, GuestRuns, Types, LocalOf, PumpLabels, Pumps
    <3>2. op[g] # "call" => (Early(g)' <=> Early(g))
      BY <1>6, <1>a DEF GuestSignals, GuestRuns, Types, LocalOf, Early
    <3> QED
      BY <3>1, <3>2
  <2>4. \A h \in Procs \ {g} : KeepsPlace(h)
    BY <1>6, <1>a DEF GuestSignals, GuestRuns, Types, KeepsPlace
  <2>5. \A t \in Tasks : task'[t] = "new" <=> task[t] = "new"
    BY <1>6, <1>a DEF GuestSignals, GuestRuns, Base, Types, LocalOf, InGuest, Guests
  <2> QED
    BY <2>1, <2>2, <2>3, <2>4, <2>5, Works
<1>7. ASSUME GuestExits(g) PROVE Control'
  <2>1. UNCHANGED <<op, on, locked, pending, asyncActive, closed, lease, driver, handed>>
    BY <1>7 DEF GuestExits
  <2>2. op[g] = "call" => pc[g] \in CallLabels /\ pc'[g] \in CallLabels
    BY <1>7, <1>a DEF GuestExits, Goto, GuestRuns, AfterGuest, Types, LocalOf, CallLabels
  <2>3. op[g] # "call" => pc[g] \in PumpLabels /\ pc'[g] \in Pumps /\ (Early(g)' <=> Early(g))
    <3>1. op[g] # "call" => pc[g] \in PumpLabels /\ pc'[g] \in Pumps
      BY <1>7, <1>a DEF GuestExits, Goto, GuestRuns, AfterGuest, Types, LocalOf, PumpLabels, Pumps
    <3>2. op[g] # "call" => (Early(g)' <=> Early(g))
      BY <1>7, <1>a DEF GuestExits, Goto, GuestRuns, AfterGuest, Types, LocalOf, Early
    <3> QED
      BY <3>1, <3>2
  <2>4. \A h \in Procs \ {g} : KeepsPlace(h)
    BY <1>7, <1>a DEF GuestExits, Goto, GuestRuns, AfterGuest, Types, KeepsPlace
  <2>5. \A t \in Tasks : task'[t] = "new" <=> task[t] = "new"
    BY <1>7, <1>a DEF GuestExits, GuestRuns, Base, Types, LocalOf, InGuest, Guests
  <2> QED
    BY <2>1, <2>2, <2>3, <2>4, <2>5, Works
<1>8. ASSUME GuestTraps(g) PROVE Control'
  <2>1. UNCHANGED <<op, on, locked, pending, asyncActive, closed, lease, driver, handed>>
    BY <1>8 DEF GuestTraps, Fails
  <2>2. op[g] = "call" => pc[g] \in CallLabels /\ pc'[g] \in CallLabels
    BY <1>8, <1>a DEF GuestTraps, GuestRuns, Fails, Goto, Types, LocalOf, CallLabels
  <2>3. op[g] # "call" => pc[g] \in PumpLabels /\ pc'[g] \in Pumps /\ (Early(g)' <=> Early(g))
    <3>1. op[g] # "call" => pc[g] \in PumpLabels /\ pc'[g] \in Pumps
      BY <1>8, <1>a DEF GuestTraps, GuestRuns, Fails, Goto, Types, LocalOf, PumpLabels, Pumps
    <3>2. op[g] # "call" => (Early(g)' <=> Early(g))
      BY <1>8, <1>a DEF GuestTraps, GuestRuns, Fails, Goto, Types, LocalOf, Early
    <3> QED
      BY <3>1, <3>2
  <2>4. \A h \in Procs \ {g} : KeepsPlace(h)
    BY <1>8, <1>a DEF GuestTraps, GuestRuns, Fails, Goto, Types, KeepsPlace
  <2>5. \A t \in Tasks : task'[t] = "new" <=> task[t] = "new"
    BY <1>8, <1>a DEF GuestTraps, GuestRuns, Fails, Base, Types, LocalOf, InGuest, Guests
  <2> QED
    BY <2>1, <2>2, <2>3, <2>4, <2>5, Works
<1>9. ASSUME RunThunk(g) PROVE Control'
  <2>1. UNCHANGED <<op, on, locked, pending, asyncActive, closed, lease, driver, handed>>
    BY <1>9 DEF RunThunk, QueueExternalCompletion
  <2>2. op[g] = "call" => pc[g] \in CallLabels /\ pc'[g] \in CallLabels
    BY <1>9, <1>a DEF RunThunk, QueueExternalCompletion, Signal, Types, LocalOf, CallLabels
  <2>3. op[g] # "call" => pc[g] \in PumpLabels /\ pc'[g] \in Pumps /\ (Early(g)' <=> Early(g))
    <3>1. pc'[g] = pc[g]
      BY <1>9, <1>a DEF RunThunk, QueueExternalCompletion, Signal, Types
    <3> QED
      BY <3>1, <1>9 DEF RunThunk, Early, PumpLabels, Pumps
  <2>4. \A h \in Procs \ {g} : KeepsPlace(h)
    BY <1>9, <1>a DEF RunThunk, QueueExternalCompletion, Signal, Types, KeepsPlace
  <2>5. \A t \in Tasks : task'[t] = "new" <=> task[t] = "new"
    BY <1>9, <1>a DEF RunThunk, QueueExternalCompletion, Base, Types, LocalOf, InGuest, Guests
  <2> QED
    BY <2>1, <2>2, <2>3, <2>4, <2>5, Works
<1>10. ASSUME ResumeReady(g) PROVE Control'
  <2>1. UNCHANGED <<op, on, locked, pending, asyncActive, closed, lease, driver, handed>>
    BY <1>10 DEF ResumeReady
  <2>2. op[g] = "call" => pc[g] \in CallLabels /\ pc'[g] \in CallLabels
    BY <1>10, <1>a DEF ResumeReady, Goto, Types, LocalOf, CallLabels
  <2>3. op[g] # "call" => pc[g] \in PumpLabels /\ pc'[g] \in Pumps /\ (Early(g)' <=> Early(g))
    <3>1. op[g] # "call" => pc[g] \in PumpLabels /\ pc'[g] \in Pumps
      BY <1>10, <1>a DEF ResumeReady, Goto, Types, LocalOf, PumpLabels, Pumps
    <3>2. op[g] # "call" => (Early(g)' <=> Early(g))
      BY <1>10, <1>a DEF ResumeReady, Goto, Types, LocalOf, Early
    <3> QED
      BY <3>1, <3>2
  <2>4. \A h \in Procs \ {g} : KeepsPlace(h)
    BY <1>10, <1>a DEF ResumeReady, Goto, Types, KeepsPlace
  <2>5. \A t \in Tasks : task'[t] = "new" <=> task[t] = "new"
    BY <1>10, <1>a, FirstReady DEF ResumeReady, Base, Types, Guests
  <2> QED
    BY <2>1, <2>2, <2>3, <2>4, <2>5, Works
<1>11. ASSUME DriveEnds(g) PROVE Control'
  <2>1. UNCHANGED <<op, on, locked, pending, asyncActive, closed, lease, driver, handed>>
    BY <1>11 DEF DriveEnds
  <2>2. op[g] = "call" => pc[g] \in CallLabels /\ pc'[g] \in CallLabels
    BY <1>11, <1>a DEF DriveEnds, CallDone, Goto, Types, LocalOf, CallLabels
  <2>3. op[g] # "call" => pc[g] \in PumpLabels /\ pc'[g] \in Pumps /\ (Early(g)' <=> Early(g))
    <3>1. op[g] # "call" => pc[g] \in PumpLabels /\ pc'[g] \in Pumps
      BY <1>11, <1>a DEF DriveEnds, Goto, Types, LocalOf, PumpLabels, Pumps
    <3>2. op[g] # "call" => (Early(g)' <=> Early(g))
      BY <1>11, <1>a DEF DriveEnds, Goto, Types, LocalOf, Early
    <3> QED
      BY <3>1, <3>2
  <2>4. \A h \in Procs \ {g} : KeepsPlace(h)
    BY <1>11, <1>a DEF DriveEnds, Goto, Types, KeepsPlace
  <2>5. \A t \in Tasks : task'[t] = "new" <=> task[t] = "new"
    BY <1>11, <1>a DEF DriveEnds, Base, Types, LocalOf, InGuest, Guests
  <2> QED
    BY <2>1, <2>2, <2>3, <2>4, <2>5, Works
<1>12. ASSUME DrainMailbox(g) PROVE Control'
  <2>1. UNCHANGED <<op, on, locked, pending, asyncActive, closed, lease, driver, handed>>
    BY <1>12 DEF DrainMailbox
  <2>2. op[g] = "call" => pc[g] \in CallLabels /\ pc'[g] \in CallLabels
    BY <1>12, <1>a DEF DrainMailbox, LocalOf
  <2>3. op[g] # "call" => pc[g] \in PumpLabels /\ pc'[g] \in Pumps /\ (Early(g)' <=> Early(g))
    <3>1. op[g] # "call" => pc[g] \in PumpLabels /\ pc'[g] \in Pumps
      BY <1>12, <1>a DEF DrainMailbox, Goto, Types, LocalOf, PumpLabels, Pumps
    <3>2. op[g] # "call" => (Early(g)' <=> Early(g))
      BY <1>12, <1>a DEF DrainMailbox, Goto, Types, LocalOf, Early
    <3> QED
      BY <3>1, <3>2
  <2>4. \A h \in Procs \ {g} : KeepsPlace(h)
    BY <1>12, <1>a DEF DrainMailbox, Goto, Types, KeepsPlace
  <2>5. \A t \in Tasks : task'[t] = "new" <=> task[t] = "new"
    BY <1>12, <1>a DEF DrainMailbox, Base, Types, LocalOf, InGuest, Guests
  <2> QED
    BY <2>1, <2>2, <2>3, <2>4, <2>5, Works
<1>13. ASSUME ApplyOne(g) PROVE Control'
  <2>1. UNCHANGED <<op, on, locked, pending, asyncActive, closed, lease, driver, handed>>
    BY <1>13 DEF ApplyOne
  <2>2. op[g] = "call" => pc[g] \in CallLabels /\ pc'[g] \in CallLabels
    BY <1>13, <1>a DEF ApplyOne, LocalOf
  <2>3. op[g] # "call" => pc[g] \in PumpLabels /\ pc'[g] \in Pumps /\ (Early(g)' <=> Early(g))
    <3>1. op[g] # "call" => pc[g] \in PumpLabels /\ pc'[g] \in Pumps
      BY <1>13, <1>a DEF ApplyOne, Goto, Types, LocalOf, PumpLabels, Pumps
    <3>2. op[g] # "call" => (Early(g)' <=> Early(g))
      BY ZenonT(60), <1>13, <1>a DEF ApplyOne, Goto, Types, LocalOf, Early
    <3> QED
      BY <3>1, <3>2
  <2>4. \A h \in Procs \ {g} : KeepsPlace(h)
    BY <1>13, <1>a DEF ApplyOne, Goto, Types, KeepsPlace
  <2>5. \A t \in Tasks : task'[t] = "new" <=> task[t] = "new"
    BY <1>13, <1>a DEF ApplyOne, Base, Types, LocalOf, InGuest, Guests
  <2> QED
    BY <2>1, <2>2, <2>3, <2>4, <2>5, Works
<1>14. ASSUME ApplyFails(g) PROVE Control'
  <2>1. UNCHANGED <<op, on, locked, pending, asyncActive, closed, lease, driver, handed>>
    BY <1>14 DEF ApplyFails, Fails
  <2>2. op[g] = "call" => pc[g] \in CallLabels /\ pc'[g] \in CallLabels
    BY <1>14, <1>a DEF ApplyFails, LocalOf
  <2>3. op[g] # "call" => pc[g] \in PumpLabels /\ pc'[g] \in Pumps /\ (Early(g)' <=> Early(g))
    <3>1. op[g] # "call" => pc[g] \in PumpLabels /\ pc'[g] \in Pumps
      BY <1>14, <1>a DEF ApplyFails, Goto, Fails, Types, LocalOf, PumpLabels, Pumps
    <3>2. op[g] # "call" => (Early(g)' <=> Early(g))
      BY <1>14, <1>a DEF ApplyFails, Goto, Fails, Types, LocalOf, Early
    <3> QED
      BY <3>1, <3>2
  <2>4. \A h \in Procs \ {g} : KeepsPlace(h)
    BY <1>14, <1>a DEF ApplyFails, Goto, Fails, Types, KeepsPlace
  <2>5. \A t \in Tasks : task'[t] = "new" <=> task[t] = "new"
    BY <1>14, <1>a DEF ApplyFails, Fails, Base, Types, LocalOf, InGuest, Guests
  <2> QED
    BY <2>1, <2>2, <2>3, <2>4, <2>5, Works
<1> QED
  BY <1>1, <1>2, <1>3, <1>4, <1>5, <1>6, <1>7, <1>8, <1>9, <1>10, <1>11, <1>12, <1>13, <1>14
     DEF GuestOrHost

\* g neither holds the lease nor speaks for a call that does.
Loose(g) == ~Owner(g) /\ ~Framed(g) /\ ~Settles(g) /\ ~Publishing(g) /\ ~Activating(g)

HolderVars == <<locked, pending, asyncActive, closed, lease>>

\* A goroutine that holds nothing moves to another place where it holds nothing.
LEMMA LooseStep ==
  ASSUME Base, NEW g \in Procs, Loose(g), Loose(g)', UNCHANGED HolderVars,
         \A h \in Procs \ {g} : Stays(h)
  PROVE  OneHolder' /\ Settling'
<1> USE DEF HolderVars
<1>1. OneHolder'
  BY DEF Base, Control, OneHolder, Stays, Loose
<1>2. Settling'
  <2>1. (\A h \in Procs : Owner(h) => (closed[on[h]] <=> Settles(h)))'
    BY DEF Base, Control, Settling, Stays, Loose
  <2>2. (\A t \in Tasks : lease[t] /\ closed[t] => \E h \in Procs : on[h] = t /\ Settles(h))'
    BY DEF Base, Control, Settling, Stays, Loose
  <2>3. (\A h \in Procs : ~Publishing(h))' <=> \A h \in Procs : ~Publishing(h)
    BY DEF Stays, Loose
  <2>4. (\A h \in Procs : ~Activating(h))' <=> \A h \in Procs : ~Activating(h)
    BY DEF Stays, Loose
  <2> QED
    BY <2>1, <2>2, <2>3, <2>4 DEF Base, Control, Settling
<1> QED
  BY <1>1, <1>2

\* The same, with what the operations know of their calls.
LEMMA LooseRoles ==
  ASSUME Base, NEW g \in Procs, Loose(g), Loose(g)', UNCHANGED HolderVars,
         \A h \in Procs \ {g} : Stays(h),
         UNCHANGED <<driver, task, handed>>,
         Busy(g)' => InClose(g)' \/ \A h \in Procs \ {g} : Creates(h) => on[h] # on'[g],
         Creates(g)' => \A h \in Procs \ {g} : Busy(h) => InClose(h) \/ on[h] # on'[g],
         Creates(g)' => on'[g] \notin handed,
         Entering(g)' => on'[g] \in Tasks /\ task[on'[g]] = "new",
         InSyncCall(g)' => on'[g] \in Tasks /\ ~lease[on'[g]],
         CloseOverlaps \/ ~InCallAsync(g)' \/ \A h \in Procs : ~InClose(h)',
         CloseOverlaps \/ ~InClose(g)' \/ \A h \in Procs : ~InCallAsync(h)',
         Follows(g)' => on'[g] \in Tasks /\ (lease[on'[g]] \/ closed[on'[g]])
  PROVE  Roles'
<1> USE DEF HolderVars
<1>0. Creates(g)' => Busy(g)'
  BY DEF Creates
<1>1. (\A h \in Procs : Owner(h) /\ ~closed[on[h]] => driver[on[h]] \/ Early(h))'
  BY DEF Base, Control, Roles, Stays, Loose
<1>2. (\A t \in Tasks : task[t] = "new" =>
          /\ ~closed[t] /\ t \notin handed
          /\ lease[t] => \E h \in Procs : on[h] = t /\ Owner(h) /\ Entering(h))'
  BY DEF Base, Control, Roles, Stays, Loose
<1>3. (\A h \in Procs : Creates(h) => on[h] \notin handed)'
  BY DEF Base, Control, Roles, Stays
<1>4. (\A h, k \in Procs : Creates(h) /\ Busy(k) /\ on[k] = on[h] => h = k \/ InClose(k))'
  BY <1>0 DEF Base, Control, Roles, Stays
<1>5. (\A h \in Procs : Entering(h) => task[on[h]] = "new")'
  BY DEF Base, Control, Roles, Stays
<1>6. (\A h \in Procs : InSyncCall(h) => ~lease[on[h]])'
  BY DEF Base, Control, Roles, Stays
<1>7. CloseOverlaps \/ (\A h, k \in Procs : InCallAsync(h) => ~InClose(k))'
  BY DEF Base, Control, Roles, Stays
<1>8. (\A h \in Procs : Follows(h) => lease[on[h]] \/ closed[on[h]])'
  BY DEF Base, Control, Roles, Stays
<1>9. (\A t \in handed : lease[t] \/ closed[t])'
  BY DEF Base, Control, Roles
<1> QED
  BY <1>1, <1>2, <1>3, <1>4, <1>5, <1>6, <1>7, <1>8, <1>9 DEF Roles

\* The embedder starts an operation.
LEMMA ControlBegins ==
  ASSUME Base, NEW g \in Procs,
         \/ BeginCallAsync(g) \/ BeginAwait(g) \/ BeginCancel(g) \/ BeginClose(g)
         \/ BeginCall(g)
  PROVE  Control'
<1> USE DEF instVars, pendVars, schedVars, HolderVars
<1>1. /\ pc[g] = "idle"
      /\ UNCHANGED <<locked, pending, asyncActive, closed, lease, driver, handed, task, ret>>
      /\ \A h \in Procs \ {g} : /\ KeepsPlace(h) /\ op'[h] = op[h] /\ on'[h] = on[h]
      /\ on'[g] \in Tasks \cup {NoTask}
      /\ pc'[g] \in {"tryLock", "await", "cancel", "lockCall", "lockClose"}
      /\ pc'[g] \in {"await", "cancel", "tryLock", "lockCall"} => on'[g] # NoTask
      /\ pc'[g] = "await" => op'[g] = "await"
      /\ pc'[g] = "tryLock" => op'[g] = "callasync"
      /\ pc'[g] = "lockCall" => op'[g] = "call"
      /\ pc'[g] = "cancel" => op'[g] \in {"cancel", "close"}
      /\ pc'[g] = "lockClose" => op'[g] = "close"
  <2> USE DEF Base, Types, Begin, Goto, KeepsPlace, Tasks
  <2>1. CASE BeginCallAsync(g)
    BY <2>1 DEF BeginCallAsync
  <2>2. CASE BeginAwait(g)
    BY <2>2 DEF BeginAwait
  <2>3. CASE BeginCancel(g)
    BY <2>3 DEF BeginCancel
  <2>4. CASE BeginClose(g)
    BY <2>4 DEF BeginClose, CallToCancel
  <2>5. CASE BeginCall(g)
    BY <2>5 DEF BeginCall
  <2> QED
    BY <2>1, <2>2, <2>3, <2>4, <2>5
<1>2. Loose(g) /\ ~Busy(g)
  BY <1>1 DEF Loose, Owner, Framed, Settles, Publishing, Activating, Begun, Driving, Busy
<1>3. Loose(g)'
  BY <1>1 DEF Loose, Owner, Framed, Settles, Publishing, Activating, Begun, Driving
<1>4. \A h \in Procs \ {g} : Stays(h)
  BY <1>1, Bystander DEF Base, KeepsPlace
<1>5. OneHolder' /\ Settling'
  BY <1>1, <1>2, <1>3, <1>4, LooseStep
<1> SUFFICES Roles'
  BY <1>5 DEF Control
<1>6. ASSUME NEW t \in Tasks, Fresh(t)
      PROVE  /\ t \notin handed /\ lease[t] = FALSE
             /\ \A h \in Procs : Busy(h) => on[h] # t
  <2>1. task[t] = "new" /\ \A h \in Procs : Busy(h) => on[h] # t
    BY <1>6 DEF Fresh, Busy
  <2>2. \A h \in Procs : Entering(h) => Busy(h)
    BY DEF Entering, Busy
  <2> QED
    BY <2>1, <2>2 DEF Base, Types, Control, Roles
<1>7. CASE BeginCallAsync(g)
  <2>1. PICK t \in AsyncTasks : Fresh(t) /\ (CloseOverlaps \/ ~CloseRuns) /\ Begin(g, "callasync", t, "tryLock")
    BY <1>7 DEF BeginCallAsync
  <2>2. on'[g] = t /\ op'[g] = "callasync" /\ t \in Tasks
    BY <2>1 DEF Begin, Base, Types, Tasks
  <2>3. ~InClose(g)' /\ ~InSyncCall(g)' /\ ~Follows(g)'
    BY <2>2 DEF InClose, InSyncCall, Follows
  <2>4. CloseOverlaps \/ \A h \in Procs : ~InClose(h)'
    BY <2>1, <2>3, <1>4 DEF CloseRuns, InClose, Busy, Stays
  <2>5. task[t] = "new"
    BY <2>1 DEF Fresh
  <2> QED
    BY <2>1, <2>2, <2>3, <2>4, <2>5, <1>1, <1>2, <1>3, <1>4, <1>6, LooseRoles DEF Creates
<1>8. CASE BeginAwait(g) \/ BeginCancel(g)
  <2>1. PICK t \in handed : on'[g] = t
    BY <1>8 DEF BeginAwait, BeginCancel, Begin, Base, Types
  <2>2. op'[g] \in {"await", "cancel"} /\ t \in Tasks /\ pc'[g] \in {"await", "cancel"}
    BY <1>8, <2>1 DEF BeginAwait, BeginCancel, Begin, Goto, Base, Types
  <2>3. ~InClose(g)' /\ ~InSyncCall(g)' /\ ~InCallAsync(g)' /\ ~Creates(g)' /\ ~Entering(g)'
    BY <2>2 DEF InClose, InSyncCall, InCallAsync, Creates, Entering
  <2>4. \A h \in Procs : Creates(h) => on[h] # t
    BY <2>1 DEF Base, Control, Roles
  <2>5. lease[t] \/ closed[t]
    BY <2>1 DEF Base, Control, Roles
  <2> QED
    BY <2>1, <2>2, <2>3, <2>4, <2>5, <1>1, <1>2, <1>3, <1>4, LooseRoles
<1>9. CASE BeginClose(g)
  <2>1. on'[g] = pending /\ op'[g] = "close" /\ pc'[g] \in {"lockClose", "cancel"}
    BY <1>9 DEF BeginClose, CallToCancel, Goto, Base, Types
  <2>2. ~InSyncCall(g)' /\ ~InCallAsync(g)' /\ ~Creates(g)' /\ ~Entering(g)'
    BY <2>1 DEF InSyncCall, InCallAsync, Creates, Entering
  <2>3. CloseOverlaps \/ \A h \in Procs : ~InCallAsync(h)
    BY <1>9 DEF BeginClose, CallAsyncRuns, InCallAsync, Busy
  <2>4. CloseOverlaps \/ \A h \in Procs : ~InCallAsync(h)'
    BY <2>2, <2>3, <1>4 DEF Stays
  <2>5. pending # NoTask => pending \in Tasks /\ lease[pending]
    BY DEF Base, Types, Control, Settling
  <2>6. Busy(g)' => InClose(g)'
    BY <2>1 DEF InClose
  <2>7. Follows(g)' => on'[g] # NoTask
    BY DEF Follows
  <2> QED
    BY <2>1, <2>2, <2>4, <2>5, <2>6, <2>7, <1>1, <1>2, <1>3, <1>4, LooseRoles
<1>10. CASE BeginCall(g)
  <2>1. PICK t \in SyncTasks : Fresh(t) /\ Begin(g, "call", t, "lockCall")
    BY <1>10 DEF BeginCall
  <2>2. on'[g] = t /\ op'[g] = "call" /\ t \in Tasks
    BY <2>1 DEF Begin, Base, Types, Tasks
  <2>3. ~InClose(g)' /\ ~InCallAsync(g)' /\ ~Follows(g)'
    BY <2>2 DEF InClose, InCallAsync, Follows
  <2>5. task[t] = "new"
    BY <2>1 DEF Fresh
  <2>6. /\ t \notin handed /\ ~lease[t]
        /\ \A h \in Procs : Creates(h) \/ Busy(h) => on[h] # t
    BY <2>1, <2>2, <1>6 DEF Creates
  <2> QED
    BY <2>2, <2>3, <2>5, <2>6, <1>1, <1>2, <1>3, <1>4, LooseRoles
<1> QED
  BY <1>7, <1>8, <1>9, <1>10

\* Contexts that end, their watchers, waiting in Await, and the two reaps.
LEMMA ControlStays ==
  ASSUME Base, NEW g \in Procs,
         ContextEnds(g) \/ Watcher(g) \/ AwaitWaits(g) \/ Reap(g) \/ CloseReap(g)
  PROVE  Control'
<1> USE DEF goRest, goAim, instVars, pendVars, pendRest, schedVars, resVars
<1>1. UNCHANGED <<op, on, ret, locked, pending, asyncActive, closed, lease, driver, handed>>
  BY DEF ContextEnds, Watcher, AwaitWaits, Reap, CloseReap
<1>2. \A h \in Procs \ {g} : KeepsPlace(h)
  BY DEF ContextEnds, Watcher, AwaitWaits, Reap, CloseReap, KeepsPlace, Base, Types, Goto
<1>3. \A t \in Tasks : task'[t] = "new" <=> task[t] = "new"
  BY DEF ContextEnds, Watcher, AwaitWaits, Reap, CloseReap, ReapTasks
<1>4. Stays(g)
  <2>1. CASE ContextEnds(g) \/ Watcher(g)
    <3>1. KeepsPlace(g)
      BY <2>1 DEF ContextEnds, Watcher, KeepsPlace, Base, Types
    <3> QED
      BY <3>1, <1>1, Bystander DEF KeepsPlace, Base
  <2>2. CASE AwaitWaits(g)
    <3>1. op[g] = "await" /\ pc[g] = "wait"
      BY <2>2, Labelled DEF AwaitWaits, Base
    <3>2. /\ pc'[g] \in {"asleep", "release", "finish", "drive"}
          /\ closed[on[g]] => pc'[g] = "release"
      BY <2>2 DEF AwaitWaits, NothingToDo, Goto, Base, Types
    <3> QED
      BY <3>1, <3>2, <1>1 DEF Stays, Owner, Framed, Settles, Early, Entering, Publishing,
         Activating,
         Creates, InCallAsync, InSyncCall, InClose, Follows, Busy, Begun
  <2>3. CASE Reap(g)
    <3>1. pc[g] = "reap" /\ outcome' = outcome
      BY <2>3 DEF Reap
    <3>2. IF op[g] = "call" THEN pc'[g] = "unlock" ELSE pc'[g] = "unlease"
      BY <2>3 DEF Reap, Goto, Base, Types
    <3> QED
      BY <3>1, <3>2, <1>1 DEF Stays, Owner, Framed, Settles, Early, Entering, Publishing,
         Activating,
         Creates, InCallAsync, InSyncCall, InClose, Follows, Busy, Begun, Driving
  <2>4. CASE CloseReap(g)
    <3>1. pc[g] = "closeReap" /\ pc'[g] = "closeTable" /\ outcome' = outcome
      BY <2>4 DEF CloseReap, Goto, Base, Types
    <3> QED
      BY <3>1, <1>1 DEF Stays, Owner, Framed, Settles, Early, Entering, Publishing, Activating,
         Creates, InCallAsync, InSyncCall, InClose, Follows, Busy, Begun, Driving
  <2> QED
    BY <2>1, <2>2, <2>3, <2>4
<1>5. \A h \in Procs \ {g} : Stays(h)
  BY <1>1, <1>2, Bystander DEF Base, KeepsPlace
<1> QED
  BY <1>1, <1>3, <1>4, <1>5, Quiet

\* A host goroutine that resolves an AsyncCall has no part in the control.
LEMMA ControlResolver ==
  ASSUME Base, NEW c \in Completers, Resolver(c)
  PROVE  Control'
<1> USE DEF goRest, goVars, instVars, instCtl, pendVars, schedVars, schedTasks, acVars
<1>1. UNCHANGED <<op, on, ret, outcome, locked, pending, asyncActive, closed, lease, driver, handed, task>>
  BY DEF Resolver, ResolveBegins, ResolveQueues, ResolveApplies
<1>2. \A h \in Procs : pc'[h] = pc[h] \/ (pc[h] = "asleep" /\ pc'[h] = "wait")
  BY DEF Resolver, ResolveBegins, ResolveQueues, ResolveApplies, QueueExternalCompletion, Signal
<1>3. \A h \in Procs : Stays(h)
  BY <1>1, <1>2, Bystander DEF Base
<1> QED
  BY <1>1, <1>3, Quiet

\* An operation gives up, waits for the driver, or goes on to Close.
LEMMA ControlLoose ==
  ASSUME Base, NEW g \in Procs,
         \/ TryLock(g) /\ locked
         \/ ClaimDriver(g) /\ (closed[on[g]] \/ driver[on[g]])
         \/ Cancel(g) /\ (closed[on[g]] \/ driver[on[g]])
         \/ CancelReturns(g)
  PROVE  Control'
<1> USE DEF goRest, goAim, instVars, instRest, pendVars, pendRest, schedVars
<1>1. UNCHANGED <<op, on, ret, locked, pending, asyncActive, closed, lease, handed, task>>
  BY DEF TryLock, ClaimDriver, Cancel, CancelReturns
<1>2. driver' = driver
  <2>1. driver[on[g]] => [driver EXCEPT ![on[g]] = TRUE] = driver
    BY DEF Base, Types
  <2> QED
    BY <2>1 DEF TryLock, ClaimDriver, Cancel, CancelReturns, HasDriver
<1>3. \A h \in Procs \ {g} : KeepsPlace(h)
  BY DEF TryLock, ClaimDriver, Cancel, CancelReturns, KeepsPlace, Base, Types, Goto, TellDriver, Broadcast
<1>4. \A h \in Procs \ {g} : Stays(h)
  BY <1>1, <1>3, Bystander DEF Base, KeepsPlace
<1>5. /\ pc[g] \in {"tryLock", "await", "cancel", "waitDone"}
      /\ pc'[g] \in {"idle", "wait", "waitDone", "lockClose"}
      /\ pc'[g] = "wait" => closed[on[g]]
      /\ pc[g] = "tryLock" => pc'[g] = "idle"
  BY DEF TryLock, ClaimDriver, HasDriver, Cancel, CancelReturns, AfterCancel, TellDriver, Broadcast, Goto,
     Base, Types
<1>6. pc[g] # "tryLock" => op[g] \in {"await", "cancel", "close"}
  BY <1>5, Labelled DEF Base
<1>7. Loose(g) /\ Loose(g)' /\ Busy(g)
  <2>1. pc[g] = "tryLock" => op[g] = "callasync"
    BY Labelled DEF Base
  <2> QED
    BY <2>1, <1>1, <1>5, <1>6 DEF Loose, Owner, Framed, Settles, Publishing, Activating,
       Begun, Driving, Busy
<1>8. /\ ~Entering(g)' /\ ~InSyncCall(g)' /\ ~InCallAsync(g)' /\ ~Creates(g)'
      /\ InClose(g)' => InClose(g)
      /\ Follows(g)' => Follows(g)
  BY <1>1, <1>5, <1>6 DEF Entering, InSyncCall, InCallAsync, Creates, InClose, Follows, Busy
<1>9. Busy(g)' => InClose(g)' \/ \A h \in Procs \ {g} : Creates(h) => on[h] # on[g]
  <2>1. InClose(g) \/ \A h \in Procs \ {g} : Creates(h) => on[h] # on[g]
    BY <1>7 DEF Base, Control, Roles
  <2>2. Busy(g)' /\ InClose(g) => InClose(g)'
    BY <1>1 DEF Busy, InClose
  <2> QED
    BY <2>1, <2>2
<1>10. CloseOverlaps \/ ~InClose(g)' \/ \A h \in Procs : ~InCallAsync(h)'
  BY <1>4, <1>8 DEF Base, Control, Roles, Stays
<1>11. Follows(g)' => on[g] \in Tasks /\ (lease[on[g]] \/ closed[on[g]])
  BY <1>8 DEF Base, Control, Roles, Types, Follows
<1>12. OneHolder' /\ Settling'
  BY <1>1, <1>4, <1>7, LooseStep DEF HolderVars
<1>13. Roles'
  BY <1>1, <1>2, <1>4, <1>7, <1>8, <1>9, <1>10, <1>11, LooseRoles DEF HolderVars
<1> QED
  BY <1>12, <1>13 DEF Control

\* claimAsyncExecution takes the lease for the new call.
LEMMA ControlTakesLease ==
  ASSUME Base, NEW g \in Procs, TryLock(g), ~locked
  PROVE  Control'
<1> USE DEF goRest, instVars, instRest, pendVars, pendRest, schedVars
<1> DEFINE t == on[g]
<1>1. /\ UNCHANGED <<op, on, ret, outcome, pending, asyncActive, closed, driver, handed, task>>
      /\ locked' = TRUE /\ lease' = [lease EXCEPT ![t] = TRUE]
      /\ pc[g] = "tryLock" /\ pc'[g] = "publish" /\ op[g] = "callasync" /\ t \in Tasks
      /\ \A h \in Procs \ {g} : pc'[h] = pc[h]
  <2>1. pc[g] = "tryLock" /\ op[g] = "callasync"
    BY Labelled DEF Base, TryLock
  <2>2. t \in Tasks
    BY <2>1, OnCall DEF Base
  <2> QED
    BY <2>1, <2>2 DEF TryLock, Goto, Base, Types
<1>2. \A h \in Procs \ {g} : Stays(h)
  BY <1>1, Bystander DEF Base
<1>3. /\ ~Owner(g) /\ Entering(g) /\ Creates(g) /\ InCallAsync(g) /\ Busy(g) /\ ~InClose(g)
      /\ Owner(g)' /\ ~Framed(g)' /\ ~Settles(g)' /\ Early(g)' /\ Entering(g)' /\ Publishing(g)'
      /\ ~Activating(g)' /\ Creates(g)' /\ InCallAsync(g)' /\ ~InSyncCall(g)' /\ ~InClose(g)'
      /\ ~Follows(g)' /\ Busy(g)'
  BY <1>1 DEF Owner, Framed, Settles, Early, Entering, Publishing, Activating, Creates, InCallAsync,
     InSyncCall, InClose, Follows, Busy, Begun, Driving
<1>4. (\A h \in Procs : ~Owner(h) /\ ~Framed(h)) /\ (\A u \in Tasks : ~lease[u])
  BY OnCall DEF Base, Control, OneHolder, Types
<1>5. task[t] = "new" /\ ~closed[t]
  BY <1>1, <1>3 DEF Base, Control, Roles
<1>6. /\ lease'[t] = TRUE /\ \A u \in Tasks \ {t} : ~lease'[u]
  BY <1>1, <1>4 DEF Base, Types
<1> HIDE DEF t
<1>7. on[g] = t
  BY DEF t
<1>8. OneHolder'
  BY <1>1, <1>2, <1>3, <1>4, <1>6, <1>7 DEF OneHolder, Stays
<1>9. Settling'
  <2>1. pending = NoTask /\ ~asyncActive
    BY <1>4 DEF Base, Types, Control, Settling
  <2> QED
    BY <2>1, <1>1, <1>2, <1>3, <1>4, <1>5, <1>6, <1>7 DEF Settling, Stays
<1>10. Roles'
  <2>1. (\A h \in Procs : Owner(h) /\ ~closed[on[h]] => driver[on[h]] \/ Early(h))'
    BY <1>2, <1>3, <1>4 DEF Stays
  <2>2. (\A u \in Tasks : task[u] = "new" =>
          /\ ~closed[u] /\ u \notin handed
          /\ lease[u] => \E h \in Procs : on[h] = u /\ Owner(h) /\ Entering(h))'
    BY <1>1, <1>3, <1>6, <1>7 DEF Base, Control, Roles
  <2>3. (\A h \in Procs : InSyncCall(h) => ~lease[on[h]])'
    <3>1. \A h \in Procs \ {g} : Creates(h) => on[h] # t /\ on[h] \in Tasks
      <4>1. \A h \in Procs \ {g} : Creates(h) => on[h] # on[g]
        BY <1>3, MadeByOne
      <4> QED
        BY <4>1, <1>7, OnCall DEF Base
    <3>2. \A h \in Procs : InSyncCall(h) => Creates(h)
      BY DEF InSyncCall, Creates
    <3> QED
      BY <3>1, <3>2, <1>1, <1>2, <1>3, <1>6, <1>7 DEF Stays
  <2>4. (\A h \in Procs : Follows(h) => lease[on[h]] \/ closed[on[h]])'
    BY <1>1, <1>2, <1>3, <1>4, <1>6, <1>7 DEF Base, Control, Roles, Stays, Types
  <2>5. (\A u \in handed : lease[u] \/ closed[u])'
    BY <1>1, <1>4 DEF Base, Control, Roles, Types
  <2>6. (\A h \in Procs : Creates(h) => on[h] \notin handed)' /\ (\A h \in Procs : Entering(h) => task[on[h]] = "new")'
    BY <1>1, <1>2, <1>3 DEF Base, Control, Roles, Stays
  <2>7. (\A h, k \in Procs : Creates(h) /\ Busy(k) /\ on[k] = on[h] => h = k \/ InClose(k))'
    BY <1>1, <1>2, <1>3 DEF Base, Control, Roles, Stays
  <2>8. CloseOverlaps \/ (\A h, k \in Procs : InCallAsync(h) => ~InClose(k))'
    BY <1>1, <1>2, <1>3 DEF Base, Control, Roles, Stays
  <2> QED
    BY <2>1, <2>2, <2>3, <2>4, <2>5, <2>6, <2>7, <2>8 DEF Roles
<1> QED
  BY <1>8, <1>9, <1>10 DEF Control

\* CallAsync publishes its PendingCall.
LEMMA ControlPublish ==
  ASSUME Base, NEW g \in Procs, Publish(g)
  PROVE  Control'
<1> USE DEF goRest, instRest, instCtl, pendVars, pendRest, schedVars
<1>1. /\ UNCHANGED <<op, on, ret, outcome, locked, asyncActive, closed, lease, driver, handed, task>>
      /\ pending' = on[g] /\ pc[g] = "publish" /\ pc'[g] = "activate" /\ op[g] = "callasync"
      /\ \A h \in Procs \ {g} : pc'[h] = pc[h]
  BY Labelled DEF Publish, Goto, Base, Types
<1>2. \A h \in Procs \ {g} : Stays(h)
  BY <1>1, Bystander DEF Base
<1>3. /\ Owner(g) /\ Publishing(g) /\ ~Settles(g)
      /\ Activating(g)' /\ ~Publishing(g)' /\ ~Settles(g)' /\ on[g] \in Tasks
  BY <1>1, OnCall DEF Base, Owner, Settles, Publishing, Activating, Begun
<1>4. /\ Owner(g)' <=> Owner(g)
      /\ Framed(g)' <=> Framed(g)
      /\ Early(g)' <=> Early(g)
      /\ Entering(g)' <=> Entering(g)
      /\ Creates(g)' <=> Creates(g)
      /\ InCallAsync(g)' <=> InCallAsync(g)
      /\ InSyncCall(g)' <=> InSyncCall(g)
      /\ InClose(g)' <=> InClose(g)
      /\ Follows(g)' <=> Follows(g)
      /\ Busy(g)' <=> Busy(g)
  BY <1>1 DEF Owner, Framed, Early, Entering, Creates, InCallAsync, InSyncCall, InClose,
     Follows, Busy, Begun, Driving
<1>5. OneHolder'
  BY <1>1, <1>2, <1>4 DEF Base, Control, OneHolder, Stays
<1>6. lease[on[g]] = TRUE /\ closed[on[g]] = FALSE /\ ~asyncActive /\ \A h \in Procs \ {g} : ~Owner(h)
  BY <1>3 DEF Base, Control, OneHolder, Settling, Types
<1>7. Settling'
  <2>1. (\A h \in Procs : Owner(h) => (closed[on[h]] <=> Settles(h)))'
    BY <1>1, <1>2, <1>3, <1>6 DEF Stays
  <2>2. (\A t \in Tasks : lease[t] /\ closed[t] => \E h \in Procs : on[h] = t /\ Settles(h))'
    BY <1>1, <1>2, <1>3, <1>6 DEF Base, Control, Settling, Stays
  <2>3. \A h \in Procs : Publishing(h) => Owner(h)
    BY Labelled DEF Publishing, Owner, Begun, Base
  <2>4. (\A h \in Procs : ~Publishing(h))'
    BY <1>2, <1>3, <1>6, <2>3 DEF Stays
  <2>5. (\A t \in Tasks : pending = t <=> lease[t] /\ ~closed[t] /\ \A h \in Procs : ~Publishing(h))'
    BY <1>1, <1>3, <1>6, <2>4 DEF Base, Control, OneHolder
  <2> QED
    BY <1>1, <1>3, <1>6, <2>1, <2>2, <2>5 DEF Settling
<1>8. Roles'
  BY <1>1, <1>2, <1>4, OnCall DEF Base, Control, Roles, Stays
<1> QED
  BY <1>5, <1>7, <1>8 DEF Control

\* CallAsync enters async mode and starts the guest task.
LEMMA ControlActivate ==
  ASSUME Base, NEW g \in Procs, Activate(g)
  PROVE  Control'
<1> USE DEF goAim, instCtl, pendVars
<1>1. /\ UNCHANGED <<op, on, ret, outcome, locked, pending, closed, lease, driver, handed>>
      /\ pc[g] = "activate" /\ pc'[g] = "start" /\ op[g] = "callasync"
      /\ asyncActive' = TRUE /\ task' = [task EXCEPT ![on[g]] = "running"]
      /\ \A h \in Procs \ {g} : pc'[h] = pc[h]
  BY Labelled DEF Activate, Goto, Base, Types
<1>2. \A h \in Procs \ {g} : Stays(h)
  BY <1>1, Bystander DEF Base
<1>3. /\ Owner(g) /\ ~Publishing(g) /\ ~Settles(g) /\ Creates(g)
      /\ ~Activating(g)' /\ ~Publishing(g)' /\ ~Settles(g)' /\ ~Entering(g)' /\ on[g] \in Tasks
  BY <1>1, OnCall DEF Base, Owner, Settles, Publishing, Activating, Begun, Entering, Creates, Busy
<1>4. /\ Owner(g)' <=> Owner(g)
      /\ Framed(g)' <=> Framed(g)
      /\ Early(g)' <=> Early(g)
      /\ Creates(g)' <=> Creates(g)
      /\ InCallAsync(g)' <=> InCallAsync(g)
      /\ InSyncCall(g)' <=> InSyncCall(g)
      /\ InClose(g)' <=> InClose(g)
      /\ Follows(g)' <=> Follows(g)
      /\ Busy(g)' <=> Busy(g)
  BY <1>1 DEF Owner, Framed, Early, Creates, InCallAsync, InSyncCall, InClose, Follows, Busy,
     Begun, Driving
<1>5. OneHolder'
  BY <1>1, <1>2, <1>4 DEF Base, Control, OneHolder, Stays
<1>6. lease[on[g]] = TRUE /\ closed[on[g]] = FALSE /\ \A h \in Procs \ {g} : ~Owner(h)
  BY <1>3 DEF Base, Control, OneHolder, Settling, Types
<1>a. \A h \in Procs : Publishing(h) \/ Activating(h) => Owner(h)
  BY Labelled DEF Publishing, Activating, Owner, Begun, Base
<1>b. /\ \A h \in Procs : ~Publishing(h) /\ ~Publishing(h)' /\ ~Activating(h)'
      /\ pending = on[g]
  BY <1>2, <1>3, <1>6, <1>a DEF Base, Control, Settling, Stays
<1>7. Settling'
  <2>1. (\A h \in Procs : Owner(h) => (closed[on[h]] <=> Settles(h)))'
    BY <1>1, <1>2, <1>3, <1>6 DEF Stays
  <2>2. (\A t \in Tasks : lease[t] /\ closed[t] => \E h \in Procs : on[h] = t /\ Settles(h))'
    BY <1>1, <1>2, <1>3, <1>6 DEF Base, Control, Settling, Stays
  <2>3. (\A t \in Tasks : pending = t <=> lease[t] /\ ~closed[t] /\ \A h \in Procs : ~Publishing(h))'
    BY <1>1, <1>b DEF Base, Control, Settling
  <2>4. pending # NoTask
    BY <1>3, <1>b
  <2> QED
    BY <1>1, <1>b, <2>1, <2>2, <2>3, <2>4 DEF Settling
<1>8. Roles'
  <2>1. \A t \in Tasks : task'[t] = "new" <=> task[t] = "new" /\ t # on[g]
    BY <1>1 DEF Base, Types
  <2>2. (\A t \in Tasks : task[t] = "new" =>
          /\ ~closed[t] /\ t \notin handed
          /\ lease[t] => \E h \in Procs : on[h] = t /\ Owner(h) /\ Entering(h))'
    <3>1. \A t \in Tasks : task'[t] = "new" => ~lease[t]
      BY <2>1, <1>3, <1>6 DEF Base, Control, OneHolder
    <3> QED
      BY <1>1, <2>1, <3>1 DEF Base, Control, Roles
  <2>3. (\A h \in Procs : Entering(h) => task[on[h]] = "new")'
    <3>1. \A h \in Procs \ {g} : Entering(h) => Creates(h) /\ Busy(h) /\ on[h] \in Tasks
      BY Labelled, OnCall DEF Base, Entering, Creates, Busy
    <3>2. \A h \in Procs \ {g} : Entering(h) => on[h] # on[g]
      BY <1>3, <3>1, MadeByOne
    <3> QED
      BY <1>1, <1>2, <1>3, <2>1, <3>1, <3>2 DEF Base, Control, Roles, Stays
  <2> QED
    BY <1>1, <1>2, <1>4, <2>2, <2>3 DEF Base, Control, Roles, Stays
<1> QED
  BY <1>5, <1>7, <1>8 DEF Control

\* CallAsync becomes the driver of its call.
LEMMA ControlClaimUnshared ==
  ASSUME Base, NEW g \in Procs, ClaimUnshared(g)
  PROVE  Control'
<1> USE DEF goRest, instVars, pendRest, schedVars
<1>1. /\ UNCHANGED <<op, on, ret, outcome, locked, pending, asyncActive, closed, lease, handed, task>>
      /\ pc[g] = "claim" /\ pc'[g] = "drive" /\ op[g] = "callasync"
      /\ driver' = [driver EXCEPT ![on[g]] = TRUE]
      /\ \A h \in Procs \ {g} : pc'[h] = pc[h]
  BY Labelled DEF ClaimUnshared, Goto, Base, Types
<1>2. \A h \in Procs \ {g} : Stays(h)
  BY <1>1, Bystander DEF Base
<1>4. /\ Owner(g) /\ Owner(g)' /\ on[g] \in Tasks
      /\ Framed(g)' <=> Framed(g)
      /\ Settles(g)' <=> Settles(g)
      /\ Entering(g)' <=> Entering(g)
      /\ Publishing(g)' <=> Publishing(g)
      /\ Activating(g)' <=> Activating(g)
      /\ Creates(g)' <=> Creates(g)
      /\ InCallAsync(g)' <=> InCallAsync(g)
      /\ InSyncCall(g)' <=> InSyncCall(g)
      /\ InClose(g)' <=> InClose(g)
      /\ Follows(g)' <=> Follows(g)
      /\ Busy(g)' <=> Busy(g)
  BY <1>1, OnCall DEF Owner, Framed, Settles, Entering, Publishing, Activating, Creates,
     InCallAsync,
     InSyncCall, InClose, Follows, Busy, Begun, Driving, Base
<1>5. OneHolder'
  BY <1>1, <1>2, <1>4 DEF Base, Control, OneHolder, Stays
<1>6. Settling'
  BY <1>1, <1>2, <1>4 DEF Base, Control, Settling, Stays
<1>7. Roles'
  <2>1. (\A h \in Procs : Owner(h) /\ ~closed[on[h]] => driver[on[h]] \/ Early(h))'
    BY <1>1, <1>2, <1>4, OnCall DEF Base, Control, Roles, Stays, Types
  <2>2. (\A t \in Tasks : task[t] = "new" =>
          /\ ~closed[t] /\ t \notin handed
          /\ lease[t] => \E h \in Procs : on[h] = t /\ Owner(h) /\ Entering(h))'
    BY <1>1, <1>2, <1>4 DEF Base, Control, Roles, Stays
  <2> QED
    BY <1>1, <1>2, <1>4, <2>1, <2>2 DEF Base, Control, Roles, Stays
<1> QED
  BY <1>5, <1>6, <1>7 DEF Control

\* Await, or Cancel, becomes the driver of a call that nobody drives.  A Close
\* that finds CallAsync at work without the driver role overtakes it.
LEMMA ControlTakesDriver ==
  ASSUME Base, NEW g \in Procs, ~overtaken',
         (ClaimDriver(g) \/ Cancel(g)) /\ ~closed[on[g]] /\ ~driver[on[g]]
  PROVE  Control'
<1> USE DEF goRest, goAim, instVars, pendRest, schedVars
<1>1. /\ UNCHANGED <<op, on, ret, locked, pending, asyncActive, closed, lease, handed, task>>
      /\ pc[g] \in {"await", "cancel"} /\ pc'[g] \in {"wait", "finish"} /\ op[g] \in {"await", "cancel", "close"}
      /\ driver' = [driver EXCEPT ![on[g]] = TRUE]
  BY Labelled DEF ClaimDriver, HasDriver, Cancel, TellDriver, Broadcast, Goto, Base, Types
<1>2. \A h \in Procs \ {g} : Stays(h)
  <2>1. \A h \in Procs \ {g} : KeepsPlace(h)
    BY DEF ClaimDriver, HasDriver, Cancel, TellDriver, Broadcast, Goto, Base, Types, KeepsPlace
  <2> QED
    BY <1>1, <2>1, Bystander DEF Base, KeepsPlace
<1>3. /\ ~Owner(g) /\ ~Framed(g) /\ ~Settles(g) /\ Busy(g) /\ Follows(g) /\ on[g] \in Tasks
      /\ Owner(g)' /\ ~Framed(g)' /\ ~Settles(g)'
  BY <1>1, OnCall DEF Owner, Framed, Settles, Busy, Begun, Driving, Base, Follows
<1>4. /\ Entering(g)' <=> Entering(g)
      /\ Publishing(g)' <=> Publishing(g)
      /\ Activating(g)' <=> Activating(g)
      /\ Creates(g)' <=> Creates(g)
      /\ InCallAsync(g)' <=> InCallAsync(g)
      /\ InSyncCall(g)' <=> InSyncCall(g)
      /\ InClose(g)' <=> InClose(g)
      /\ Follows(g)' <=> Follows(g)
      /\ Busy(g)' <=> Busy(g)
  BY <1>1 DEF Entering, Publishing, Activating, Creates, InCallAsync,
     InSyncCall, InClose, Follows, Busy
<1>5. lease[on[g]] = TRUE /\ closed[on[g]] = FALSE
  BY <1>3 DEF Base, Control, Roles, Types
<1>6. \A h \in Procs : ~Owner(h) /\ ~Framed(h)
  <2>1. \A h \in Procs : Framed(h) => FALSE
    BY <1>3, <1>5 DEF Base, Control, OneHolder
  <2>2. \A h \in Procs : Owner(h) => on[h] = on[g]
    BY <1>3, <1>5, OnCall DEF Base, Control, OneHolder
  <2>3. \A h \in Procs : Owner(h) => Early(h)
    BY <1>5, <2>2 DEF Base, Control, Roles
  <2>4. \A h \in Procs : Owner(h) /\ Early(h) => InCallAsync(h) /\ Creates(h)
    BY Labelled DEF Owner, Early, InCallAsync, Creates, Busy, Begun, Base
  <2>5. \A h \in Procs : Owner(h) => Cancel(g)
    <3>1. ClaimDriver(g) => ~InClose(g)
      BY Labelled DEF ClaimDriver, InClose, Base
    <3> QED
      BY <1>3, <2>2, <2>3, <2>4, <3>1 DEF Base, Control, Roles
  <2>6. Cancel(g) => ~Overtakes(g)
    BY <1>5 DEF Cancel
  <2>7. (\E h \in Procs : Owner(h)) => Overtakes(g)
    BY <2>2, <2>3, <2>4 DEF Overtakes, InCallAsync, Busy
  <2> QED
    BY <2>1, <2>5, <2>6, <2>7
<1>7. OneHolder'
  BY <1>1, <1>2, <1>3, <1>5, <1>6 DEF Base, Control, OneHolder, Stays
<1>8. Settling'
  <2>1. (\A h \in Procs : Owner(h) => (closed[on[h]] <=> Settles(h)))'
    BY <1>1, <1>2, <1>3, <1>5, <1>6 DEF Stays
  <2> QED
    BY <1>1, <1>2, <1>3, <1>4, <2>1 DEF Base, Control, Settling, Stays
<1>9. Roles'
  <2>1. (\A h \in Procs : Owner(h) /\ ~closed[on[h]] => driver[on[h]] \/ Early(h))'
    BY <1>1, <1>2, <1>3, <1>6 DEF Base, Stays, Types
  <2>2. (\A t \in Tasks : task[t] = "new" =>
          /\ ~closed[t] /\ t \notin handed
          /\ lease[t] => \E h \in Procs : on[h] = t /\ Owner(h) /\ Entering(h))'
    BY <1>1, <1>6 DEF Base, Control, Roles
  <2> QED
    BY <1>1, <1>2, <1>3, <1>4, <2>1, <2>2, OnCall DEF Base, Control, Roles, Stays
<1> QED
  BY <1>7, <1>8, <1>9 DEF Control

\* finishAsync settles the call and takes it out of the instance.
LEMMA ControlFinish ==
  ASSUME Base, NEW g \in Procs, FinishAsync(g)
  PROVE  Control'
<1> USE DEF goRest, instCtl, pendRest, schedVars
<1>1. /\ UNCHANGED <<op, on, ret, outcome, locked, lease, driver, handed, task>>
      /\ pc[g] = "finish" /\ pc'[g] \in {"unlease", "reap"} /\ op[g] # "call" /\ on[g] \in Tasks
      /\ closed' = [closed EXCEPT ![on[g]] = TRUE]
      /\ \A h \in Procs \ {g} : KeepsPlace(h)
  BY Labelled, OnCall DEF FinishAsync, Broadcast, KeepsPlace, Base, Types
<1>2. Owner(g) /\ ~Settles(g) /\ ~Publishing(g) /\ ~Entering(g)
  BY <1>1 DEF Owner, Settles, Publishing, Entering, Begun
<1>3. lease[on[g]] = TRUE /\ closed[on[g]] = FALSE /\ \A h \in Procs \ {g} : ~Owner(h)
  BY <1>1, <1>2 DEF Base, Control, OneHolder, Settling, Types
<1>4. \A t \in Tasks : closed'[t] <=> closed[t] \/ t = on[g]
  BY <1>1 DEF Base, Types
<1>5. \A h \in Procs \ {g} : Stays(h)
  <2>1. \A h \in Procs \ {g} : Owner(h)' => Owner(h)
    <3> SUFFICES ASSUME NEW h \in Procs \ {g}, Owner(h)' PROVE Owner(h)
      OBVIOUS
    <3>1. on[h] \in Tasks
      <4>1. pc[h] \notin {"idle", "lockClose", "closeReap", "closeTable"}
        BY <1>1 DEF Owner, KeepsPlace, Begun
      <4> QED
        BY <4>1, OnCall DEF Base
    <3> QED
      BY <1>1, <1>4, <3>1 DEF Owner, KeepsPlace, Begun
  <2> QED
    BY <1>1, <1>3, <2>1, Bystander DEF Base, KeepsPlace
<1>6. /\ Owner(g)' /\ Settles(g)' /\ ~Publishing(g)' /\ ~Activating(g)' /\ ~Activating(g)
      /\ Framed(g)' <=> Framed(g)
      /\ Entering(g)' <=> Entering(g)
      /\ Creates(g)' <=> Creates(g)
      /\ InCallAsync(g)' <=> InCallAsync(g)
      /\ InSyncCall(g)' <=> InSyncCall(g)
      /\ InClose(g)' <=> InClose(g)
      /\ Follows(g)' <=> Follows(g)
      /\ Busy(g)' <=> Busy(g)
  BY <1>1 DEF Owner, Settles, Publishing, Activating, Framed, Entering, Creates, InCallAsync,
     InSyncCall, InClose, Follows, Busy, Begun, Driving
<1>7. OneHolder'
  BY <1>1, <1>2, <1>5, <1>6 DEF Base, Control, OneHolder, Stays
<1>8. pending = on[g]
  <2>1. \A h \in Procs : Publishing(h) => Owner(h)
    BY Labelled DEF Publishing, Owner, Begun, Base
  <2>2. \A h \in Procs : ~Publishing(h)
    BY <1>2, <1>3, <2>1
  <2> QED
    BY <1>1, <1>3, <2>2 DEF Base, Control, Settling
<1>9. pending' = NoTask /\ asyncActive' = FALSE
  BY <1>8 DEF FinishAsync
<1>10. Settling'
  <2>1. (\A h \in Procs : Owner(h) => (closed[on[h]] <=> Settles(h)))'
    BY <1>1, <1>3, <1>4, <1>5, <1>6 DEF Stays
  <2>2. \A t \in Tasks : lease[t] => t = on[g]
    BY <1>1, <1>3 DEF Base, Control, OneHolder
  <2>3. (\A t \in Tasks : lease[t] /\ closed[t] => \E h \in Procs : on[h] = t /\ Settles(h))'
    BY <1>1, <1>6, <2>2
  <2>4. (\A t \in Tasks : pending = t <=> lease[t] /\ ~closed[t] /\ \A h \in Procs : ~Publishing(h))'
    BY <1>1, <1>4, <1>9, <2>2
  <2> QED
    BY <1>9, <2>1, <2>3, <2>4 DEF Settling
<1>11. Roles'
  <2>1. (\A h \in Procs : Owner(h) /\ ~closed[on[h]] => driver[on[h]] \/ Early(h))'
    <3>1. (\A h \in Procs \ {g} : ~Owner(h))' /\ closed'[on'[g]]
      BY <1>1, <1>3, <1>4, <1>5 DEF Stays
    <3> QED
      BY <3>1
  <2>2. task[on[g]] # "new"
    BY <1>1, <1>2, <1>3 DEF Base, Control, Roles
  <2>3. (\A t \in Tasks : task[t] = "new" =>
          /\ ~closed[t] /\ t \notin handed
          /\ lease[t] => \E h \in Procs : on[h] = t /\ Owner(h) /\ Entering(h))'
    <3>1. \A t \in Tasks : task[t] = "new" => ~lease[t]
      BY <1>2, <1>3 DEF Base, Control, Roles
    <3> QED
      BY <1>1, <1>4, <2>2, <3>1 DEF Base, Control, Roles
  <2>4. (\A h \in Procs : Follows(h) => lease[on[h]] \/ closed[on[h]])'
    BY <1>1, <1>4, <1>5, <1>6, OnCall DEF Base, Control, Roles, Stays
  <2>5. (\A t \in handed : lease[t] \/ closed[t])'
    BY <1>1, <1>4 DEF Base, Control, Roles, Types
  <2> QED
    BY <1>1, <1>5, <1>6, <2>1, <2>3, <2>4, <2>5 DEF Base, Control, Roles, Stays
<1> QED
  BY <1>7, <1>10, <1>11 DEF Control

\* releasePendingLease gives the lease of a settled call back.
LEMMA ControlUnlease ==
  ASSUME Base, NEW g \in Procs, ReleasePendingLease(g)
  PROVE  Control'
<1> USE DEF goRest, instRest, instCtl, pendRest, schedVars
<1>1. /\ UNCHANGED <<op, on, ret, outcome, pending, asyncActive, closed, driver, handed, task>>
      /\ pc[g] = "unlease" /\ pc'[g] \in {"idle", "release"} /\ op[g] # "call" /\ on[g] \in Tasks
      /\ lease' = [lease EXCEPT ![on[g]] = FALSE] /\ (locked' => ~lease[on[g]])
      /\ \A h \in Procs \ {g} : pc'[h] = pc[h]
  <2>1. pc[g] = "unlease" /\ op[g] # "call" /\ on[g] \in Tasks
    BY Labelled, OnCall DEF ReleasePendingLease, Base
  <2>2. locked' => ~lease[on[g]]
    BY DEF ReleasePendingLease
  <2> QED
    BY <2>1, <2>2 DEF ReleasePendingLease, LeaseReset, Goto, Base, Types
<1>2. \A h \in Procs \ {g} : Stays(h)
  BY <1>1, Bystander DEF Base
<1>3. Owner(g) /\ Settles(g) /\ ~Entering(g)
  BY <1>1 DEF Owner, Settles, Entering, Begun
<1>4. /\ lease[on[g]] = TRUE /\ closed[on[g]] = TRUE
      /\ \A h \in Procs \ {g} : ~Owner(h)
      /\ \A h \in Procs : ~Framed(h)
      /\ \A t \in Tasks : lease[t] => t = on[g]
  BY <1>1, <1>3 DEF Base, Control, OneHolder, Settling, Types
<1>5. ~locked' /\ \A t \in Tasks : ~lease'[t]
  BY <1>1, <1>4 DEF Base, Types
<1>6. /\ ~Owner(g)' /\ ~Framed(g)' /\ ~Publishing(g)' /\ ~Activating(g)' /\ ~Entering(g)'
      /\ Creates(g)' => Creates(g)
      /\ InCallAsync(g)' => InCallAsync(g)
      /\ ~InSyncCall(g)'
      /\ InClose(g)' <=> InClose(g) /\ Busy(g)'
      /\ Follows(g)' => Follows(g)
      /\ Busy(g)' => Busy(g)
  BY <1>1, <1>4 DEF Owner, Framed, Publishing, Activating, Entering, Creates, InCallAsync,
     InSyncCall,
     InClose, Follows, Busy, Begun, Driving
<1>7. (\A h \in Procs : ~Owner(h) /\ ~Framed(h))'
  BY <1>2, <1>4, <1>6 DEF Stays
<1>8. OneHolder'
  BY <1>5, <1>7 DEF OneHolder
<1>9. Settling'
  <2>1. pending = NoTask /\ ~asyncActive
    BY <1>4 DEF Base, Control, Settling, Types
  <2> QED
    BY <1>1, <1>5, <1>7, <2>1 DEF Settling
<1>10. Roles'
  <2>1. (\A t \in Tasks : task[t] = "new" => ~closed[t] /\ t \notin handed)'
    BY <1>1 DEF Base, Control, Roles
  <2>2. (\A h \in Procs : Follows(h) => lease[on[h]] \/ closed[on[h]])'
    BY <1>1, <1>2, <1>4, <1>6, OnCall DEF Base, Control, Roles, Stays
  <2>3. (\A t \in handed : lease[t] \/ closed[t])'
    BY <1>1, <1>4 DEF Base, Control, Roles, Types
  <2>4. (\A h \in Procs : InSyncCall(h) => ~lease[on[h]])'
    <3>1. \A h \in Procs \ {g} : InSyncCall(h)' => InSyncCall(h) /\ Creates(h) /\ on'[h] = on[h]
      BY <1>2 DEF Stays, InSyncCall, Creates
    <3>2. \A h \in Procs \ {g} : InSyncCall(h)' => on'[h] \in Tasks
      BY <3>1, OnCall DEF Base
    <3> QED
      BY <1>5, <1>6, <3>2
  <2> QED
    BY <1>1, <1>2, <1>5, <1>6, <1>7, <2>1, <2>2, <2>3, <2>4 DEF Base, Control, Roles, Stays
<1> QED
  BY <1>8, <1>9, <1>10 DEF Control

\* releaseDriver: CallAsync hands its call out, Await and Cancel return.
LEMMA ControlReleaseDriver ==
  ASSUME Base, NEW g \in Procs, ReleaseDriver(g)
  PROVE  Control'
<1> USE DEF goRest, instVars, schedVars, HolderVars
<1>1. /\ UNCHANGED <<op, on, ret, outcome, locked, pending, asyncActive, closed, lease, task>>
      /\ pc[g] = "release" /\ pc'[g] \in {"idle", "lockClose"} /\ op[g] # "call" /\ on[g] \in Tasks
      /\ pc'[g] = "lockClose" => op[g] = "close"
      /\ driver' = [driver EXCEPT ![on[g]] = FALSE]
      /\ handed' = handed \/ (op[g] = "callasync" /\ handed' = handed \cup {on[g]})
      /\ \A h \in Procs \ {g} : KeepsPlace(h)
  <2>1. pc[g] = "release" /\ op[g] # "call" /\ on[g] \in Tasks
    BY Labelled, OnCall DEF ReleaseDriver, Base
  <2> QED
    BY <2>1 DEF ReleaseDriver, Broadcast, KeepsPlace, Base, Types
<1>2. \A h \in Procs \ {g} : Stays(h)
  BY <1>1, Bystander DEF Base, KeepsPlace
<1>3. /\ ~Owner(g)' /\ ~Framed(g) /\ ~Framed(g)' /\ ~Settles(g) /\ ~Settles(g)'
      /\ ~Publishing(g) /\ ~Publishing(g)' /\ ~Activating(g) /\ ~Activating(g)'
      /\ ~Entering(g) /\ ~Entering(g)' /\ ~Creates(g)' /\ ~InCallAsync(g)' /\ ~InSyncCall(g)'
      /\ InClose(g)' <=> InClose(g) /\ Busy(g)'
      /\ Follows(g)' => Follows(g)
      /\ Busy(g)' => Busy(g)
      /\ Busy(g)
      /\ op[g] = "callasync" => Creates(g)
      /\ Owner(g) <=> ~closed[on[g]]
  BY <1>1 DEF Owner, Framed, Settles, Publishing, Activating, Entering, Creates, InCallAsync,
     InSyncCall, InClose, Follows, Busy, Begun, Driving
<1>4. OneHolder'
  BY <1>1, <1>2, <1>3 DEF Base, Control, OneHolder, Stays
<1>5. Settling'
  <2>1. (\A h \in Procs : Owner(h) => (closed[on[h]] <=> Settles(h)))'
    BY <1>1, <1>2, <1>3 DEF Base, Control, Settling, Stays
  <2>2. (\A t \in Tasks : lease[t] /\ closed[t] => \E h \in Procs : on[h] = t /\ Settles(h))'
    BY <1>1, <1>2, <1>3 DEF Base, Control, Settling, Stays
  <2>3. (\A h \in Procs : ~Publishing(h))' <=> \A h \in Procs : ~Publishing(h)
    BY <1>2, <1>3 DEF Stays
  <2>4. (\A h \in Procs : ~Activating(h))' <=> \A h \in Procs : ~Activating(h)
    BY <1>2, <1>3 DEF Stays
  <2> QED
    BY <1>1, <2>1, <2>2, <2>3, <2>4 DEF Base, Control, Settling
<1>6. lease[on[g]] \/ closed[on[g]]
  BY <1>1, <1>3 DEF Base, Control, OneHolder
<1>7. task[on[g]] # "new"
  <2>1. \A h \in Procs : Owner(g) /\ Owner(h) => ~Entering(h)
    BY <1>3 DEF Base, Control, OneHolder
  <2> QED
    BY <1>1, <1>3, <1>6, <2>1 DEF Base, Control, Roles
<1>8. Roles'
  <2>1. (\A h \in Procs : Owner(h) /\ ~closed[on[h]] => driver[on[h]] \/ Early(h))'
    <3>1. \A h \in Procs \ {g} : Owner(h) => on[h] \in Tasks /\ (closed[on[h]] \/ on[h] # on[g])
      BY <1>1, <1>3, OnCall DEF Base, Control, OneHolder
    <3>2. \A h \in Procs \ {g} : Owner(h) /\ ~closed[on[h]] => driver'[on[h]] \/ Early(h)
      BY <1>1, <3>1 DEF Base, Control, Roles, Types
    <3> QED
      BY <1>1, <1>2, <1>3, <3>2 DEF Stays
  <2>2. (\A t \in Tasks : task[t] = "new" =>
          /\ ~closed[t] /\ t \notin handed
          /\ lease[t] => \E h \in Procs : on[h] = t /\ Owner(h) /\ Entering(h))'
    BY <1>1, <1>2, <1>3, <1>7 DEF Base, Control, Roles, Stays
  <2>3. (\A h \in Procs : Creates(h) => on[h] \notin handed)'
    <3>1. \A h \in Procs \ {g} : Creates(h) /\ op[g] = "callasync" => on[h] # on[g]
      BY <1>3, MadeByOne
    <3> QED
      BY <3>1, <1>1, <1>2, <1>3 DEF Base, Control, Roles, Stays
  <2>4. (\A t \in handed : lease[t] \/ closed[t])'
    BY <1>1, <1>6 DEF Base, Control, Roles
  <2> QED
    BY <1>1, <1>2, <1>3, <2>1, <2>2, <2>3, <2>4 DEF Base, Control, Roles, Stays
<1> QED
  BY <1>4, <1>5, <1>8 DEF Control

\* Close and Call take syncCallMu for their own frame.
LEMMA ControlLocks ==
  ASSUME Base, NEW g \in Procs, Locks(g)
  PROVE  Control'
<1> USE DEF goRest, goAim, instRest, instCtl, pendVars, pendRest, schedVars
<1>1. /\ UNCHANGED <<op, on, ret, outcome, pending, asyncActive, closed, lease, driver, handed>>
      /\ locked = FALSE /\ locked' = TRUE
      /\ \A h \in Procs \ {g} : pc'[h] = pc[h]
  BY DEF Locks, LockClose, LockCall, Goto, Base, Types
<1>2. \A h \in Procs \ {g} : Stays(h)
  BY <1>1, Bystander DEF Base
<1>3. (\A h \in Procs : ~Owner(h) /\ ~Framed(h)) /\ (\A u \in Tasks : ~lease[u])
  BY <1>1, OnCall DEF Base, Control, OneHolder, Types
<1>4. \/ /\ LockClose(g) /\ pc[g] = "lockClose" /\ pc'[g] = "closeReap" /\ op[g] = "close" /\ task' = task
      \/ /\ LockCall(g) /\ pc[g] = "lockCall" /\ pc'[g] \in {"unlock", "start"} /\ op[g] = "call"
         /\ task' = task \/ task' = [task EXCEPT ![on[g]] = "running"]
         /\ on[g] \in Tasks
  BY SMTT(40), Labelled, OnCall DEF Locks, LockClose, LockCall, Goto, Base, Types
<1>5. /\ ~Owner(g)' /\ Framed(g)' /\ ~Settles(g)' /\ ~Entering(g)' /\ ~Publishing(g)' /\ ~Activating(g)'
      /\ ~Publishing(g) /\ ~Activating(g)
      /\ Creates(g)' <=> Creates(g)
      /\ InCallAsync(g)' <=> InCallAsync(g)
      /\ InSyncCall(g)' <=> InSyncCall(g)
      /\ InClose(g)' <=> InClose(g)
      /\ Follows(g)' <=> Follows(g)
      /\ Busy(g)' <=> Busy(g)
  BY <1>1, <1>4 DEF Owner, Framed, Settles, Entering, Publishing, Activating, Creates, InCallAsync,
     InSyncCall, InClose, Follows, Busy, Begun, Driving
<1>6. OneHolder'
  BY <1>1, <1>2, <1>3, <1>5 DEF OneHolder, Stays
<1>7. Settling'
  <2>1. pending = NoTask /\ ~asyncActive
    BY <1>3 DEF Base, Control, Settling, Types
  <2> QED
    BY <1>1, <1>2, <1>3, <1>5, <2>1 DEF Settling, Stays
<1>8. Roles'
  <2>1. \A t \in Tasks : task'[t] = "new" => task[t] = "new"
    BY <1>4 DEF Base, Types
  <2>2. \A h \in Procs \ {g} : Entering(h) => task'[on[h]] = "new"
    <3>1. \A h \in Procs \ {g} : Entering(h) => Creates(h) /\ Busy(h) /\ on[h] \in Tasks
      BY Labelled, OnCall DEF Base, Entering, Creates, Busy
    <3>2. LockCall(g) => Creates(g)
      BY <1>4 DEF Creates, Busy, LockCall, LockClose
    <3>3. \A h \in Procs \ {g} : Entering(h) => LockClose(g) \/ on[h] # on[g]
      BY <1>4, <3>1, <3>2, MadeByOne
    <3>4. LockClose(g) => task' = task
      BY DEF LockClose
    <3> QED
      BY <1>4, <3>1, <3>3, <3>4 DEF Base, Control, Roles, Types
  <2>3. (\A t \in Tasks : task[t] = "new" =>
          /\ ~closed[t] /\ t \notin handed
          /\ lease[t] => \E h \in Procs : on[h] = t /\ Owner(h) /\ Entering(h))'
    BY <1>1, <1>3, <2>1 DEF Base, Control, Roles
  <2>4. (\A h \in Procs : ~Owner(h))'
    BY <1>2, <1>3, <1>5 DEF Stays
  <2> QED
    BY <1>1, <1>2, <1>5, <2>2, <2>3, <2>4 DEF Base, Control, Roles, Stays
<1> QED
  BY <1>6, <1>7, <1>8 DEF Control

\* Close and Call give syncCallMu back.
LEMMA ControlUnlocks ==
  ASSUME Base, NEW g \in Procs, CloseTable(g) \/ Unlock(g)
  PROVE  Control'
<1> USE DEF goRest, instRest, instCtl, pendVars, pendRest, schedVars
<1>1. /\ UNCHANGED <<op, on, ret, outcome, pending, asyncActive, closed, lease, driver, handed, task>>
      /\ locked' = FALSE
      /\ pc[g] \in {"closeTable", "unlock"} /\ pc'[g] = "idle"
      /\ \A h \in Procs \ {g} : pc'[h] = pc[h]
  BY DEF CloseTable, Unlock, Goto, Base, Types
<1>2. \A h \in Procs \ {g} : Stays(h)
  BY <1>1, Bystander DEF Base
<1>3. Framed(g)
  BY <1>1 DEF Framed
<1>4. \A h \in Procs : (Framed(h) => h = g) /\ ~Owner(h)
  BY <1>3, OnCall DEF Base, Control, OneHolder
<1>5. \A u \in Tasks : ~lease[u]
  BY <1>3 DEF Base, Control, OneHolder
<1>6. /\ ~Owner(g)' /\ ~Framed(g)' /\ ~Settles(g)' /\ ~Entering(g)' /\ ~Publishing(g)' /\ ~Activating(g)'
      /\ ~Publishing(g) /\ ~Activating(g) /\ ~Creates(g)' /\ ~InCallAsync(g)' /\ ~InSyncCall(g)'
      /\ ~InClose(g)' /\ ~Follows(g)' /\ ~Busy(g)'
  BY <1>1 DEF Owner, Framed, Settles, Entering, Publishing, Activating, Creates, InCallAsync,
     InSyncCall, InClose, Follows, Busy, Begun, Driving
<1>7. OneHolder'
  BY <1>1, <1>2, <1>4, <1>5, <1>6 DEF OneHolder, Stays
<1>8. Settling'
  <2>1. pending = NoTask /\ ~asyncActive
    BY <1>5 DEF Base, Control, Settling, Types
  <2> QED
    BY <1>1, <1>2, <1>4, <1>5, <1>6, <2>1 DEF Settling, Stays
<1>9. Roles'
  <2>1. (\A h \in Procs : ~Owner(h))'
    BY <1>2, <1>4, <1>6 DEF Stays
  <2>2. (\A t \in Tasks : task[t] = "new" =>
          /\ ~closed[t] /\ t \notin handed
          /\ lease[t] => \E h \in Procs : on[h] = t /\ Owner(h) /\ Entering(h))'
    BY <1>1, <1>5 DEF Base, Control, Roles
  <2> QED
    BY <1>1, <1>2, <1>6, <2>1, <2>2 DEF Base, Control, Roles, Stays
<1> QED
  BY <1>7, <1>8, <1>9 DEF Control

\* Every goroutine takes steps of these.
Step(g) == Embedder(g) \/ GuestOrHost(g) \/ Runtime(g) \/ Locks(g)

\* No step of a goroutine breaks the control invariant, but for a Close that
\* overtakes a CallAsync.
LEMMA ControlStep ==
  ASSUME Base, ~overtaken', NEW g \in Procs, Step(g)
  PROVE  Control'
<1>1. CASE Embedder(g)
  BY <1>1, ControlBegins, ControlStays DEF Embedder
<1>2. CASE GuestOrHost(g)
  BY <1>2, ControlWorks
<1>3. CASE Runtime(g)
  <2>1. CASE RunThunk(g) \/ ResumeReady(g) \/ DriveEnds(g) \/ DrainMailbox(g) \/ ApplyOne(g) \/ ApplyFails(g)
    BY <2>1, ControlWorks
  <2>2. CASE TryLock(g)
    BY <2>2, ControlLoose, ControlTakesLease
  <2>3. CASE Publish(g) \/ Activate(g) \/ ClaimUnshared(g) \/ FinishAsync(g)
    BY <2>3, ControlPublish, ControlActivate, ControlClaimUnshared, ControlFinish
  <2>4. CASE Reap(g) \/ AwaitWaits(g) \/ Watcher(g) \/ CloseReap(g)
    BY <2>4, ControlStays
  <2>5. CASE ReleasePendingLease(g) \/ ReleaseDriver(g)
    BY <2>5, ControlUnlease, ControlReleaseDriver
  <2>6. CASE ClaimDriver(g) \/ Cancel(g)
    BY <2>6, ControlLoose, ControlTakesDriver
  <2>7. CASE CancelReturns(g)
    BY <2>7, ControlLoose
  <2>8. CASE CloseTable(g) \/ Unlock(g)
    BY <2>8, ControlUnlocks
  <2> QED
    BY <1>3, <2>1, <2>2, <2>3, <2>4, <2>5, <2>6, <2>7, <2>8 DEF Runtime
<1>4. CASE Locks(g)
  BY <1>4, ControlLocks
<1> QED
  BY <1>1, <1>2, <1>3, <1>4 DEF Step

\* What a goroutine that executes guest code, or works for it, has at hand.
LEMMA AtWork ==
  ASSUME Base, NEW g \in Procs
  PROVE  /\ GuestRuns(g) => run[g] \in Tasks
         /\ pc[g] = "hostfn" => arg[g] \in AsyncCalls /\ Made(arg[g]) /\ run[g] \in Tasks
         /\ pc[g] = "drain" /\ ret[g] # "drive" => arg[g] \in AsyncCalls
         /\ pc[g] = "apply" =>
              /\ Head(batch[g]) \in Elems(batch[g]) \cap AsyncCalls /\ Made(Head(batch[g]))
              /\ Tail(batch[g]) \in Seq(AsyncCalls)
              /\ Elems(batch[g]) = Elems(Tail(batch[g])) \cup {Head(batch[g])}
         /\ runq # <<>> => /\ Head(runq) \in Elems(runq) \cap AsyncCalls /\ Made(Head(runq))
                          /\ Tail(runq) \in Seq(AsyncCalls)
                          /\ Elems(runq) = Elems(Tail(runq)) \cup {Head(runq)}
<1>1. Types /\ LocalOf(g) /\ Known
  BY DEF Base, Local
<1>2. GuestRuns(g) => run[g] \in Tasks
  BY <1>1 DEF LocalOf, Types, InGuest, GuestRuns
<1>3. pc[g] = "hostfn" => arg[g] \in AsyncCalls /\ Made(arg[g]) /\ run[g] \in Tasks
  BY <1>1 DEF LocalOf, Types, InGuest, Known
<1>4. pc[g] = "drain" /\ ret[g] # "drive" => arg[g] \in AsyncCalls
  BY <1>1 DEF LocalOf, Types, InGuest
<1>5. pc[g] = "apply" => batch[g] \in Seq(AsyncCalls) /\ batch[g] # <<>>
  BY <1>1 DEF LocalOf, Types
<1>6. \A a \in Elems(batch[g]) \cup Elems(runq) : Made(a)
  BY <1>1 DEF Known
<1>7. runq \in Seq(AsyncCalls)
  BY <1>1 DEF Types
<1>8. \A s \in Seq(AsyncCalls) : s # <<>> =>
        /\ Head(s) \in Elems(s) \cap AsyncCalls /\ Tail(s) \in Seq(AsyncCalls)
        /\ Elems(s) = Elems(Tail(s)) \cup {Head(s)}
  BY TailFacts
<1> QED
  BY <1>2, <1>3, <1>4, <1>5, <1>6, <1>7, <1>8

\* A step of control leads to a label.
LEMMA GotoLabel ==
  ASSUME Types, NEW g \in Procs, NEW l \in Labels
  PROVE  /\ Goto(g, l) \/ Broadcast(g, l) => pc' \in [Procs -> Labels]
         /\ Signal \/ pc' = pc => pc' \in [Procs -> Labels]
<1>1. Goto(g, l) => pc' \in [Procs -> Labels]
  BY DEF Types, Goto
<1>2. "wait" \in Labels
  BY DEF Labels
<1>3. Broadcast(g, l) => pc' \in [Procs -> Labels]
  BY <1>2 DEF Types, Broadcast
<1>4. Signal => pc' \in [Procs -> Labels]
  BY <1>2 DEF Types, Signal
<1>5. pc' = pc => pc' \in [Procs -> Labels]
  BY DEF Types
<1> QED
  BY <1>1, <1>3, <1>4, <1>5

\* The labels are labels.
LEMMA KnownLabels ==
  ASSUME Types, NEW g \in Procs
  PROVE  ret[g] \in Labels /\ {"idle", "tryLock", "publish", "activate", "start", "claim", "drive",
           "resume", "hostfn", "drain", "apply", "finish", "reap", "unlease",
           "release", "await", "wait", "asleep", "cancel", "waitDone",
           "lockCall", "unlock", "lockClose", "closeReap", "closeTable"} \subseteq Labels
BY DEF Types, Labels

\* No step leads a goroutine out of the code.
LEMMA PcTypesStep ==
  ASSUME Base, NEW g \in Procs, Step(g)
  PROVE  pc' \in [Procs -> Labels]
<1> USE DEF goRest, goVars, goAim, instVars, instRest, instCtl, pendVars, pendRest, schedVars, schedTasks,
            resVars, resRest, acVars, Tasks
<1>a. Types
  BY DEF Base
<1>c. GoTypes
  BY <1>a DEF Types
<1>0. pc' = pc => pc' \in [Procs -> Labels]
  BY <1>c
<1> HIDE DEF GoTypes, InstTypes, PendTypes, TaskTypes, CallTypes
<1>1. CASE ContextEnds(g) \/ HostDefers(g) \/ GuestSignals(g)
  BY <1>1, <1>0 DEF ContextEnds, HostDefers, GuestSignals
<1>2. CASE BeginCallAsync(g)
  BY <1>2, <1>a, GotoLabel, KnownLabels DEF BeginCallAsync, Begin
<1>3. CASE BeginAwait(g)
  BY <1>3, <1>a, GotoLabel, KnownLabels DEF BeginAwait, Begin
<1>4. CASE BeginCancel(g)
  BY <1>4, <1>a, GotoLabel, KnownLabels DEF BeginCancel, Begin
<1>5. CASE BeginClose(g)
  BY <1>5, <1>a, GotoLabel, KnownLabels DEF BeginClose
<1>6. CASE BeginCall(g)
  BY <1>6, <1>a, GotoLabel, KnownLabels DEF BeginCall, Begin
<1>7. CASE GuestImports(g)
  BY <1>7, <1>a, GotoLabel, KnownLabels DEF GuestImports
<1>8. CASE HostResolves(g)
  BY <1>8, <1>a, GotoLabel, KnownLabels DEF HostResolves, QueueExternalCompletion
<1>9. CASE HostReturns(g)
  BY <1>9, <1>a, GotoLabel, KnownLabels DEF HostReturns
<1>10. CASE GuestWaits(g)
  BY <1>10, <1>a, GotoLabel, KnownLabels DEF GuestWaits, AfterGuest
<1>11. CASE GuestExits(g)
  BY <1>11, <1>a, GotoLabel, KnownLabels DEF GuestExits, AfterGuest
<1>12. CASE GuestTraps(g)
  BY <1>12, <1>a, GotoLabel, KnownLabels DEF GuestTraps, Fails
<1>13. CASE RunThunk(g)
  BY <1>13, <1>a, GotoLabel, KnownLabels DEF RunThunk, QueueExternalCompletion
<1>14. CASE ResumeReady(g)
  BY <1>14, <1>a, GotoLabel, KnownLabels DEF ResumeReady
<1>15. CASE DriveEnds(g)
  BY <1>15, <1>a, GotoLabel, KnownLabels DEF DriveEnds
<1>16. CASE DrainMailbox(g)
  BY <1>16, <1>a, GotoLabel, KnownLabels DEF DrainMailbox
<1>17. CASE ApplyOne(g)
  BY <1>17, <1>a, GotoLabel, KnownLabels DEF ApplyOne
<1>18. CASE ApplyFails(g)
  BY <1>18, <1>a, GotoLabel, KnownLabels DEF ApplyFails, Fails
<1>19. CASE TryLock(g)
  BY <1>19, <1>a, GotoLabel, KnownLabels DEF TryLock
<1>20. CASE Publish(g)
  BY <1>20, <1>a, GotoLabel, KnownLabels DEF Publish
<1>21. CASE Activate(g)
  BY <1>21, <1>a, GotoLabel, KnownLabels DEF Activate
<1>22. CASE ClaimUnshared(g)
  BY <1>22, <1>a, GotoLabel, KnownLabels DEF ClaimUnshared
<1>23. CASE FinishAsync(g)
  BY <1>23, <1>a, GotoLabel, KnownLabels DEF FinishAsync
<1>24. CASE Reap(g)
  BY <1>24, <1>a, GotoLabel, KnownLabels DEF Reap
<1>25. CASE ReleasePendingLease(g)
  BY <1>25, <1>a, GotoLabel, KnownLabels DEF ReleasePendingLease
<1>26. CASE ReleaseDriver(g)
  BY <1>26, <1>a, GotoLabel, KnownLabels DEF ReleaseDriver
<1>27. CASE ClaimDriver(g)
  BY <1>27, <1>a, GotoLabel, KnownLabels DEF ClaimDriver
<1>28. CASE AwaitWaits(g)
  BY <1>28, <1>a, GotoLabel, KnownLabels DEF AwaitWaits
<1>29. CASE Watcher(g)
  BY <1>29, <1>a, GotoLabel, KnownLabels DEF Watcher, Signal, GoTypes
<1>30. CASE Cancel(g)
  BY <1>30, <1>a, GotoLabel, KnownLabels DEF Cancel, TellDriver, AfterCancel
<1>31. CASE CancelReturns(g)
  BY <1>31, <1>a, GotoLabel, KnownLabels DEF CancelReturns, AfterCancel
<1>32. CASE CloseReap(g)
  BY <1>32, <1>a, GotoLabel, KnownLabels DEF CloseReap
<1>33. CASE CloseTable(g)
  BY <1>33, <1>a, GotoLabel, KnownLabels DEF CloseTable
<1>34. CASE Unlock(g)
  BY <1>34, <1>a, GotoLabel, KnownLabels DEF Unlock
<1>35. CASE LockClose(g)
  BY <1>35, <1>a, GotoLabel, KnownLabels DEF LockClose
<1>36. CASE LockCall(g)
  BY <1>36, <1>a, GotoLabel, KnownLabels DEF LockCall
<1> QED
  BY <1>1, <1>2, <1>3, <1>4, <1>5, <1>6, <1>7, <1>8, <1>9, <1>10, <1>11, <1>12, <1>13, <1>14,
     <1>15, <1>16, <1>17, <1>18, <1>19, <1>20, <1>21, <1>22, <1>23, <1>24, <1>25, <1>26,
     <1>27, <1>28, <1>29, <1>30, <1>31, <1>32, <1>33, <1>34, <1>35, <1>36 DEF Step, Embedder,
     GuestOrHost, Runtime, Locks

\* The local variables of the goroutines keep their types.
LEMMA GoTypesStep ==
  ASSUME Base, NEW g \in Procs, Step(g)
  PROVE  GoTypes'
<1> USE DEF goRest, goVars, goAim, instVars, instRest, instCtl, pendVars, pendRest, schedVars, schedTasks,
            resVars, resRest, acVars, Tasks
<1>a. Types
  BY DEF Base
<1>c. GoTypes
  BY <1>a DEF Types
<1>b. pc' \in [Procs -> Labels]
  BY PcTypesStep
<1>0. UNCHANGED <<op, on, run, ret, batch, arg, outcome, ctx>> => GoTypes'
  BY <1>c, <1>b
<1>1. CASE HostResolves(g) \/ HostDefers(g) \/ GuestSignals(g) \/ RunThunk(g) \/ TryLock(g) \/
        Publish(g) \/ ClaimUnshared(g) \/ FinishAsync(g) \/ Reap(g) \/ ReleasePendingLease(g) \/
        ReleaseDriver(g) \/ ClaimDriver(g) \/ CancelReturns(g) \/ CloseReap(g) \/ CloseTable(g) \/
        Unlock(g) \/ LockClose(g)
  BY <1>1, <1>0 DEF QueueExternalCompletion, HostResolves, HostDefers, GuestSignals, RunThunk,
     TryLock, Publish, ClaimUnshared, FinishAsync, Reap, ReleasePendingLease, ReleaseDriver,
     ClaimDriver, CancelReturns, CloseReap, CloseTable, Unlock, LockClose
<1>2. CASE BeginCallAsync(g)
  BY <1>2, <1>a, <1>b DEF BeginCallAsync, Begin, Ops, Types
<1>3. CASE BeginAwait(g)
  BY <1>3, <1>a, <1>b DEF BeginAwait, Begin, Ops, Types
<1>4. CASE BeginCancel(g)
  BY <1>4, <1>a, <1>b DEF BeginCancel, Begin, Ops, Types
<1>5. CASE BeginClose(g)
  BY <1>5, <1>a, <1>b DEF BeginClose, Ops, CallToCancel, Types
<1>6. CASE BeginCall(g)
  BY <1>6, <1>a, <1>b DEF BeginCall, Begin, Ops, Types
<1>7. CASE ContextEnds(g)
  BY <1>7, <1>a, <1>b DEF ContextEnds, Ops, Types
<1>8. CASE GuestImports(g)
  BY <1>8, <1>a, AtWork, <1>b DEF GuestImports, Ops, GuestRuns, Types
<1>9. CASE HostReturns(g)
  <2>1. /\ UNCHANGED <<op, on, run, ret, batch, outcome, ctx>>
        /\ arg' = arg \/ arg' = [arg EXCEPT ![g] = NoCall]
    BY <1>9 DEF HostReturns
  <2> QED
    BY <2>1, <1>c, <1>b
<1>10. CASE GuestWaits(g)
  BY <1>10, <1>a, <1>b DEF GuestWaits, Ops, Types
<1>11. CASE GuestExits(g)
  BY <1>11, <1>a, <1>b DEF GuestExits, Ops, Types
<1>12. CASE GuestTraps(g)
  <2>1. /\ UNCHANGED <<op, on, ret, ctx>>
        /\ run' = [run EXCEPT ![g] = NoTask] /\ arg' = [arg EXCEPT ![g] = NoCall]
        /\ batch' = [batch EXCEPT ![g] = <<>>]
        /\ \E o \in {"start", "err"} : outcome' = [outcome EXCEPT ![g] = o]
    BY <1>12 DEF GuestTraps, Fails
  <2> QED
    BY <2>1, <1>c, <1>b
<1>13. CASE ResumeReady(g)
  BY <1>13, <1>a, FirstReady, <1>b DEF ResumeReady, Ops, Unpark, Types
<1>14. CASE DriveEnds(g)
  <2>1. /\ UNCHANGED <<op, on, run, batch, arg, ctx>>
        /\ ret' = ret \/ ret' = [ret EXCEPT ![g] = "drive"]
        /\ outcome' = outcome \/ outcome' = [outcome EXCEPT ![g] = "ok"]
    BY <1>14 DEF DriveEnds
  <2> QED
    BY <2>1, <1>c, <1>b
<1>15. CASE DrainMailbox(g)
  BY <1>15, <1>a, <1>b DEF DrainMailbox, Ops, Types
<1>16. CASE ApplyOne(g)
  <2>1. /\ UNCHANGED <<op, on, run, ret, outcome, ctx>>
        /\ batch' = [batch EXCEPT ![g] = Tail(@)] /\ Tail(batch[g]) \in Seq(AsyncCalls)
        /\ arg' = arg \/ arg' = [arg EXCEPT ![g] = NoCall]
    BY <1>16, AtWork DEF ApplyOne
  <2> QED
    BY <2>1, <1>c, <1>b
<1>17. CASE ApplyFails(g)
  <2>1. /\ UNCHANGED <<op, on, ret, ctx>>
        /\ run' \in [Procs -> Tasks \cup {NoTask}]
        /\ arg' \in [Procs -> AsyncCalls \cup {NoCall}]
        /\ batch' = [batch EXCEPT ![g] = <<>>]
        /\ outcome' \in [Procs -> {"ok", "err", "start"}]
    <3>1. /\ UNCHANGED <<op, on, ret, ctx>> /\ batch' = [batch EXCEPT ![g] = <<>>]
          /\ run' = run \/ run' = [run EXCEPT ![g] = NoTask]
          /\ arg' = arg \/ arg' = [arg EXCEPT ![g] = NoCall]
          /\ \E o \in {"start", "err"} : outcome' = [outcome EXCEPT ![g] = o]
      BY <1>17 DEF ApplyFails, Fails
    <3>2. run' \in [Procs -> Tasks \cup {NoTask}]
      BY <3>1, <1>c
    <3>3. arg' \in [Procs -> AsyncCalls \cup {NoCall}]
      BY <3>1, <1>c
    <3>4. outcome' \in [Procs -> {"ok", "err", "start"}]
      BY <3>1, <1>c
    <3> QED
      BY <3>1, <3>2, <3>3, <3>4
  <2> QED
    BY <2>1, <1>c, <1>b
<1>18. CASE Activate(g)
  BY <1>18, <1>a, <1>b DEF Activate, Ops, Types
<1>19. CASE AwaitWaits(g)
  BY <1>19, <1>a, <1>b DEF AwaitWaits, Ops, Types
<1>20. CASE Watcher(g)
  BY <1>20, <1>a, <1>b DEF Watcher, Ops, Types
<1>21. CASE Cancel(g)
  <2>1. /\ UNCHANGED <<op, on, run, ret, batch, arg, ctx>>
        /\ outcome' = outcome \/ outcome' = [outcome EXCEPT ![g] = "err"]
    BY <1>21 DEF Cancel
  <2> QED
    BY <2>1, <1>c, <1>b
<1>22. CASE LockCall(g)
  <2>1. /\ UNCHANGED <<op, on, ret, batch, arg, outcome, ctx>>
        /\ run' = run \/ run' = [run EXCEPT ![g] = on[g]]
    BY <1>22 DEF LockCall
  <2> QED
    BY ZenonT(60), <2>1, <1>c, <1>b
<1> QED
  BY <1>1, <1>2, <1>3, <1>4, <1>5, <1>6, <1>7, <1>8, <1>9, <1>10, <1>11, <1>12, <1>13, <1>14,
     <1>15, <1>16, <1>17, <1>18, <1>19, <1>20, <1>21, <1>22 DEF Step, Embedder, GuestOrHost,
     Runtime, Locks

\* The fields of Instance keep their types.
LEMMA InstTypesStep ==
  ASSUME Base, NEW g \in Procs, Step(g)
  PROVE  InstTypes'
<1> USE DEF goRest, goVars, goAim, instVars, instRest, instCtl, pendVars, pendRest, schedVars, schedTasks,
            resVars, resRest, acVars, Tasks
<1>a. Types
  BY DEF Base
<1>c. InstTypes
  BY <1>a DEF Types
<1>0. UNCHANGED <<pending, mailbox, locked, asyncActive, poisoned, closing, shut>> => InstTypes'
  BY <1>c
<1>1. CASE BeginCallAsync(g) \/ BeginAwait(g) \/ BeginCancel(g) \/ BeginCall(g) \/ ContextEnds(g) \/
        GuestImports(g) \/ HostDefers(g) \/ HostReturns(g) \/ GuestWaits(g) \/ GuestSignals(g) \/
        GuestExits(g) \/ ResumeReady(g) \/ DriveEnds(g) \/ ApplyOne(g) \/ ClaimUnshared(g) \/ Reap(g)
        \/ ReleaseDriver(g) \/ ClaimDriver(g) \/ AwaitWaits(g) \/ Watcher(g) \/ Cancel(g) \/
        CancelReturns(g) \/ CloseReap(g)
  BY <1>1, <1>0 DEF Begin, BeginCallAsync, BeginAwait, BeginCancel, BeginCall, ContextEnds,
     GuestImports, HostDefers, HostReturns, GuestWaits, GuestSignals, GuestExits, ResumeReady,
     DriveEnds, ApplyOne, ClaimUnshared, Reap, ReleaseDriver, ClaimDriver, AwaitWaits,
     Watcher, Cancel, CancelReturns, CloseReap
<1>2. CASE BeginClose(g)
  BY <1>2, <1>a DEF BeginClose, CallToCancel, Types
<1>3. CASE HostResolves(g)
  <2>1. /\ UNCHANGED <<locked, pending, asyncActive, poisoned, closing, shut>>
        /\ mailbox' = mailbox \/ (arg[g] \in AsyncCalls /\ mailbox' = Append(mailbox, arg[g]))
    BY <1>3, AtWork DEF HostResolves, QueueExternalCompletion
  <2> QED
    BY <2>1, <1>c
<1>4. CASE GuestTraps(g)
  <2>1. /\ UNCHANGED <<locked, pending, asyncActive, mailbox, closing, shut>>
        /\ poisoned' \in BOOLEAN
    BY <1>4 DEF GuestTraps, Fails
  <2> QED
    BY <2>1, <1>c
<1>5. CASE RunThunk(g)
  <2>1. /\ UNCHANGED <<locked, pending, asyncActive, poisoned, closing, shut>>
        /\ mailbox' = mailbox \/ (Head(runq) \in AsyncCalls /\ mailbox' = Append(mailbox, Head(runq)))
    BY <1>5, AtWork DEF RunThunk, QueueExternalCompletion
  <2> QED
    BY <2>1, <1>c
<1>6. CASE DrainMailbox(g)
  BY <1>6, <1>a DEF DrainMailbox, Types
<1>7. CASE ApplyFails(g)
  BY <1>7, <1>a DEF ApplyFails, Fails, Types
<1>8. CASE TryLock(g)
  BY <1>8, <1>a DEF TryLock, Types
<1>9. CASE Publish(g)
  BY <1>9, <1>a DEF Publish, Types
<1>10. CASE Activate(g)
  BY <1>10, <1>a DEF Activate, Types
<1>11. CASE FinishAsync(g)
  <2>1. /\ UNCHANGED <<locked, poisoned, closing, shut>>
        /\ UNCHANGED <<pending, asyncActive>> \/ (pending' = NoTask /\ asyncActive' = FALSE)
        /\ mailbox' \in Seq(AsyncCalls)
    <3>1. <<>> \in Seq(AsyncCalls)
      OBVIOUS
    <3>2. mailbox' = mailbox \/ mailbox' = <<>>
      BY <1>11 DEF FinishAsync
    <3>3. mailbox' \in Seq(AsyncCalls)
      BY <3>1, <3>2, <1>c
    <3> QED
      BY <1>11, <3>3 DEF FinishAsync
  <2> QED
    BY <2>1, <1>c
<1>12. CASE ReleasePendingLease(g)
  BY <1>12, <1>a DEF ReleasePendingLease, Types
<1>13. CASE CloseTable(g)
  BY <1>13, <1>a DEF CloseTable, Types
<1>14. CASE Unlock(g)
  BY <1>14, <1>a DEF Unlock, Types
<1>15. CASE LockClose(g)
  BY <1>15, <1>a DEF LockClose, Types
<1>16. CASE LockCall(g)
  BY <1>16, <1>a DEF LockCall, Types
<1> QED
  BY <1>1, <1>2, <1>3, <1>4, <1>5, <1>6, <1>7, <1>8, <1>9, <1>10, <1>11, <1>12, <1>13, <1>14,
     <1>15, <1>16 DEF Step, Embedder, GuestOrHost, Runtime, Locks

\* The fields of PendingCall keep their types.
LEMMA PendTypesStep ==
  ASSUME Base, NEW g \in Procs, Step(g)
  PROVE  PendTypes'
<1> USE DEF goRest, goVars, goAim, instVars, instRest, instCtl, pendVars, pendRest, schedVars, schedTasks,
            resVars, resRest, acVars, Tasks
<1>a. Types
  BY DEF Base
<1>c. PendTypes
  BY <1>a DEF Types
<1>0. UNCHANGED <<closed, lease, driver, cancelRequested, calls, handed, overtaken>> => PendTypes'
  BY <1>c
<1>1. CASE BeginCallAsync(g) \/ BeginAwait(g) \/ BeginCancel(g) \/ BeginClose(g) \/ BeginCall(g) \/
        ContextEnds(g) \/ HostResolves(g) \/ HostDefers(g) \/ HostReturns(g) \/ GuestWaits(g) \/
        GuestSignals(g) \/ GuestExits(g) \/ GuestTraps(g) \/ RunThunk(g) \/ ResumeReady(g) \/
        DriveEnds(g) \/ DrainMailbox(g) \/ ApplyOne(g) \/ ApplyFails(g) \/ Publish(g) \/ Activate(g) \/
        Reap(g) \/ AwaitWaits(g) \/ Watcher(g) \/ CancelReturns(g) \/ CloseReap(g) \/ CloseTable(g) \/
        Unlock(g) \/ LockClose(g) \/ LockCall(g)
  BY <1>1, <1>0 DEF Fails, Begin, QueueExternalCompletion, BeginCallAsync, BeginAwait,
     BeginCancel, BeginClose, BeginCall, ContextEnds, HostResolves, HostDefers, HostReturns,
     GuestWaits, GuestSignals, GuestExits, GuestTraps, RunThunk, ResumeReady, DriveEnds,
     DrainMailbox, ApplyOne, ApplyFails, Publish, Activate, Reap, AwaitWaits, Watcher,
     CancelReturns, CloseReap, CloseTable, Unlock, LockClose, LockCall
<1>2. CASE GuestImports(g)
  <2>1. /\ UNCHANGED <<closed, lease, driver, cancelRequested, handed, overtaken>>
        /\ calls' = calls \/ (pending # NoTask /\ \E a \in AsyncCalls : calls' = [calls EXCEPT ![pending] = @ \cup {a}])
    BY <1>2 DEF GuestImports
  <2> QED
    BY <2>1, <1>c
<1>3. CASE TryLock(g)
  BY ZenonT(60), <1>3, <1>a DEF TryLock, Types
<1>4. CASE ClaimUnshared(g)
  BY <1>4, <1>a DEF ClaimUnshared, Types
<1>5. CASE FinishAsync(g)
  BY <1>5, <1>a DEF FinishAsync, Types
<1>6. CASE ReleasePendingLease(g)
  <2>1. /\ UNCHANGED <<closed, driver, cancelRequested, calls, handed, overtaken>>
        /\ lease' = [lease EXCEPT ![on[g]] = FALSE]
    BY <1>6 DEF ReleasePendingLease, LeaseReset
  <2> QED
    BY <2>1, <1>c
<1>7. CASE ReleaseDriver(g)
  <2>1. /\ UNCHANGED <<closed, lease, cancelRequested, calls, overtaken>>
        /\ driver' = [driver EXCEPT ![on[g]] = FALSE] /\ on[g] \in Tasks
        /\ handed' = handed \/ handed' = handed \cup {on[g]}
    BY <1>7, OnCall DEF ReleaseDriver, Base
  <2> QED
    BY <2>1, <1>c
<1>8. CASE ClaimDriver(g)
  BY ZenonT(60), <1>8, <1>a DEF ClaimDriver, Types
<1>9. CASE Cancel(g)
  <2>1. /\ UNCHANGED <<closed, lease, calls, handed>>
        /\ driver' = driver \/ driver' = [driver EXCEPT ![on[g]] = TRUE]
        /\ cancelRequested' = cancelRequested \/ cancelRequested' = [cancelRequested EXCEPT ![on[g]] = TRUE]
    BY <1>9 DEF Cancel
  <2>2. overtaken' \in BOOLEAN
    <3>1. overtaken' = overtaken \/ overtaken' = (overtaken \/ Overtakes(g))
      BY <1>9 DEF Cancel
    <3> QED
      BY <3>1, <1>c
  <2> QED
    BY <2>1, <2>2, <1>c
<1> QED
  BY <1>1, <1>2, <1>3, <1>4, <1>5, <1>6, <1>7, <1>8, <1>9 DEF Step, Embedder, GuestOrHost,
     Runtime, Locks

\* The scheduler's state and the tasks keep their types.
LEMMA TaskTypesStep ==
  ASSUME Base, NEW g \in Procs, Step(g)
  PROVE  TaskTypes'
<1> USE DEF goRest, goVars, goAim, instVars, instRest, instCtl, pendVars, pendRest, schedVars, schedTasks,
            resVars, resRest, acVars, Tasks
<1>a. Types
  BY DEF Base
<1>c. TaskTypes
  BY <1>a DEF Types
<1>0. UNCHANGED <<runq, parked, task, event, signals>> => TaskTypes'
  BY <1>c
<1>1. CASE BeginCallAsync(g) \/ BeginAwait(g) \/ BeginCancel(g) \/ BeginClose(g) \/ BeginCall(g) \/
        ContextEnds(g) \/ GuestImports(g) \/ HostReturns(g) \/ DriveEnds(g) \/ DrainMailbox(g) \/
        TryLock(g) \/ Publish(g) \/ ClaimUnshared(g) \/ FinishAsync(g) \/ ReleasePendingLease(g) \/
        ReleaseDriver(g) \/ ClaimDriver(g) \/ AwaitWaits(g) \/ Watcher(g) \/ Cancel(g) \/
        CancelReturns(g) \/ CloseTable(g) \/ Unlock(g) \/ LockClose(g)
  BY <1>1, <1>0 DEF Begin, BeginCallAsync, BeginAwait, BeginCancel, BeginClose, BeginCall,
     ContextEnds, GuestImports, HostReturns, DriveEnds, DrainMailbox, TryLock, Publish,
     ClaimUnshared, FinishAsync, ReleasePendingLease, ReleaseDriver, ClaimDriver, AwaitWaits,
     Watcher, Cancel, CancelReturns, CloseTable, Unlock, LockClose
<1>2. CASE HostResolves(g)
  BY <1>2, <1>a, AtWork DEF HostResolves, ResolveNow, Applied, Unresolved, Made, Types
<1>3. CASE HostDefers(g)
  BY <1>3, <1>a, AtWork DEF HostDefers, Types
<1>4. CASE GuestWaits(g)
  BY <1>4, <1>a, AtWork DEF GuestWaits, Types
<1>5. CASE GuestSignals(g)
  BY <1>5, <1>a DEF GuestSignals, Types
<1>6. CASE GuestExits(g)
  BY <1>6, <1>a DEF GuestExits, Types
<1>7. CASE GuestTraps(g)
  <2>1. /\ UNCHANGED <<runq, parked, event, signals>>
        /\ task' = [task EXCEPT ![run[g]] = "trapped"]
    BY <1>7 DEF GuestTraps, Fails
  <2> QED
    BY <2>1, <1>c
<1>8. CASE RunThunk(g)
  BY <1>8, <1>a, AtWork DEF RunThunk, Applied, QueueExternalCompletion, Made, Types
<1>9. CASE ResumeReady(g)
  BY <1>9, <1>a, FirstReady, WithoutFacts DEF ResumeReady, Unpark, Types
<1>10. CASE ApplyOne(g)
  BY SMTT(40), <1>10, <1>a, AtWork DEF ApplyOne, Applied, Made, Types
<1>11. CASE ApplyFails(g)
  <2>1. /\ UNCHANGED <<runq, parked, event, signals>>
        /\ task' = task \/ task' = [task EXCEPT ![run[g]] = "trapped"]
    BY <1>11 DEF ApplyFails, Fails
  <2> QED
    BY <2>1, <1>c
<1>12. CASE Activate(g)
  BY <1>12, <1>a DEF Activate, Types
<1>13. CASE Reap(g)
  BY <1>13, <1>a, FilteredFacts DEF Reap, ReapTasks, Holds, Types
<1>14. CASE CloseReap(g)
  BY <1>14, <1>a, FilteredFacts DEF CloseReap, ReapTasks, Holds, Types
<1>15. CASE LockCall(g)
  <2>1. /\ UNCHANGED <<runq, parked, event, signals>>
        /\ task' = task \/ task' = [task EXCEPT ![on[g]] = "running"]
    BY <1>15 DEF LockCall
  <2> QED
    BY <2>1, <1>c
<1> QED
  BY <1>1, <1>2, <1>3, <1>4, <1>5, <1>6, <1>7, <1>8, <1>9, <1>10, <1>11, <1>12, <1>13, <1>14,
     <1>15 DEF Step, Embedder, GuestOrHost, Runtime, Locks

\* The AsyncCall objects keep their types.
LEMMA CallTypesStep ==
  ASSUME Base, NEW g \in Procs, Step(g)
  PROVE  CallTypes'
<1> USE DEF goRest, goVars, goAim, instVars, instRest, instCtl, pendVars, pendRest, schedVars, schedTasks,
            resVars, resRest, acVars, Tasks
<1>a. Types
  BY DEF Base
<1>c. CallTypes
  BY <1>a DEF Types
<1>0. UNCHANGED <<state, owner, applied, stray, loaded>> => CallTypes'
  BY <1>c
<1>1. CASE BeginCallAsync(g) \/ BeginAwait(g) \/ BeginCancel(g) \/ BeginClose(g) \/ BeginCall(g) \/
        ContextEnds(g) \/ HostDefers(g) \/ HostReturns(g) \/ GuestWaits(g) \/ GuestSignals(g) \/
        GuestExits(g) \/ GuestTraps(g) \/ ResumeReady(g) \/ DriveEnds(g) \/ DrainMailbox(g) \/
        ApplyFails(g) \/ TryLock(g) \/ Publish(g) \/ Activate(g) \/ ClaimUnshared(g) \/ Reap(g) \/
        ReleasePendingLease(g) \/ ReleaseDriver(g) \/ ClaimDriver(g) \/ AwaitWaits(g) \/ Watcher(g) \/
        Cancel(g) \/ CancelReturns(g) \/ CloseReap(g) \/ CloseTable(g) \/ Unlock(g) \/ LockClose(g) \/
        LockCall(g)
  BY <1>1, <1>0 DEF Fails, Begin, BeginCallAsync, BeginAwait, BeginCancel, BeginClose,
     BeginCall, ContextEnds, HostDefers, HostReturns, GuestWaits, GuestSignals, GuestExits,
     GuestTraps, ResumeReady, DriveEnds, DrainMailbox, ApplyFails, TryLock, Publish, Activate,
     ClaimUnshared, Reap, ReleasePendingLease, ReleaseDriver, ClaimDriver, AwaitWaits,
     Watcher, Cancel, CancelReturns, CloseReap, CloseTable, Unlock, LockClose, LockCall
<1>2. CASE GuestImports(g)
  BY <1>2, <1>a, AtWork DEF GuestImports, GuestRuns, Types
<1>3. CASE HostResolves(g)
  <2>1. /\ UNCHANGED <<owner, stray, loaded>>
        /\ \E s \in {"open", "queued", "applied", "closed"} : state' = state \/ state' = [state EXCEPT ![arg[g]] = s]
        /\ applied' = applied \/ applied' = [applied EXCEPT ![arg[g]] = @ + 1]
    BY <1>3 DEF HostResolves, QueueExternalCompletion, ResolveNow, Applied
  <2> QED
    BY <2>1, <1>c
<1>4. CASE RunThunk(g)
  <2>1. /\ UNCHANGED <<owner, stray, loaded>>
        /\ \E s \in {"open", "queued", "applied", "closed"} : state' = state \/ state' = [state EXCEPT ![Head(runq)] = s]
        /\ applied' = applied \/ applied' = [applied EXCEPT ![Head(runq)] = @ + 1]
    BY <1>4 DEF RunThunk, QueueExternalCompletion, Applied
  <2> QED
    BY <2>1, <1>c
<1>5. CASE ApplyOne(g)
  <2>1. /\ UNCHANGED <<owner, stray, loaded>>
        /\ state' = [state EXCEPT ![Head(batch[g])] = "applied"]
        /\ \E a \in AsyncCalls : applied' = [applied EXCEPT ![a] = @ + 1]
    BY <1>5, AtWork DEF ApplyOne, Applied
  <2>2. state' \in [AsyncCalls -> {"open", "queued", "applied", "closed"}]
    BY <2>1, <1>c
  <2>3. applied' \in [AsyncCalls -> Nat]
    BY <2>1, <1>c
  <2> QED
    BY <2>1, <2>2, <2>3, <1>c
<1>6. CASE FinishAsync(g)
  <2>1. /\ UNCHANGED <<owner, applied, stray, loaded>>
        /\ state' = [a \in AsyncCalls |-> IF ~closed[on[g]] /\ a \in calls[on[g]] /\ state[a] # "applied" THEN "closed" ELSE state[a]]
    BY <1>6 DEF FinishAsync, ClosedCalls
  <2> QED
    BY <2>1, <1>c
<1> QED
  BY <1>1, <1>2, <1>3, <1>4, <1>5, <1>6 DEF Step, Embedder, GuestOrHost, Runtime, Locks

\* The program counter after a step of control.
LEMMA Moves ==
  ASSUME Types, NEW g \in Procs, NEW l
  PROVE  /\ Goto(g, l) => pc'[g] = l /\ \A h \in Procs \ {g} : pc'[h] = pc[h]
         /\ Broadcast(g, l) => pc'[g] = l /\ \A h \in Procs \ {g} : pc'[h] = IF pc[h] = "asleep" THEN "wait" ELSE pc[h]
         /\ Signal => \A h \in Procs : pc'[h] = IF pc[h] = "asleep" THEN "wait" ELSE pc[h]
         /\ pc' = pc => \A h \in Procs : pc'[h] = pc[h]
BY DEF Types, Goto, Broadcast, Signal

KeepsLocal(h) ==
  /\ pc'[h] = pc[h] \/ (pc[h] = "asleep" /\ pc'[h] = "wait")
  /\ op'[h] = op[h] /\ on'[h] = on[h] /\ run'[h] = run[h] /\ ret'[h] = ret[h]
  /\ batch'[h] = batch[h] /\ arg'[h] = arg[h] /\ outcome'[h] = outcome[h]

\* A step of g leaves the other goroutines where they are.
LEMMA OthersStay ==
  ASSUME Base, NEW g \in Procs, Step(g), NEW h \in Procs \ {g}
  PROVE  KeepsLocal(h)
<1> USE DEF goRest, goVars, goAim, instVars, instRest, instCtl, pendVars, pendRest, schedVars, schedTasks,
            resVars, resRest, acVars, Tasks
<1>a. Types
  BY DEF Base
<1>1. CASE BeginCallAsync(g)
  BY SMTT(40), <1>1, <1>a, Moves DEF BeginCallAsync, Begin, KeepsLocal, Types
<1>2. CASE BeginAwait(g)
  BY SMTT(40), <1>2, <1>a, Moves DEF BeginAwait, Begin, KeepsLocal, Types
<1>3. CASE BeginCancel(g)
  BY <1>3, <1>a, Moves DEF BeginCancel, Begin, KeepsLocal, Types
<1>4. CASE BeginClose(g)
  BY <1>4, <1>a, Moves DEF BeginClose, KeepsLocal, Types
<1>5. CASE BeginCall(g)
  BY <1>5, <1>a, Moves DEF BeginCall, Begin, KeepsLocal, Types
<1>6. CASE ContextEnds(g)
  BY <1>6, <1>a, Moves DEF ContextEnds, KeepsLocal, Types
<1>7. CASE GuestImports(g)
  BY <1>7, <1>a, Moves DEF GuestImports, KeepsLocal, Types
<1>8. CASE HostResolves(g)
  BY <1>8, <1>a, Moves DEF HostResolves, QueueExternalCompletion, KeepsLocal, Types
<1>9. CASE HostDefers(g)
  BY <1>9, <1>a, Moves DEF HostDefers, KeepsLocal, Types
<1>10. CASE HostReturns(g)
  BY <1>10, <1>a, Moves DEF HostReturns, KeepsLocal, Types
<1>11. CASE GuestWaits(g)
  BY SMTT(40), <1>11, <1>a, Moves DEF GuestWaits, KeepsLocal, Types
<1>12. CASE GuestSignals(g)
  BY <1>12, <1>a, Moves DEF GuestSignals, KeepsLocal, Types
<1>13. CASE GuestExits(g)
  BY SMTT(40), <1>13, <1>a, Moves DEF GuestExits, KeepsLocal, Types
<1>14. CASE GuestTraps(g)
  <2>1. /\ \E l : Goto(g, l)
        /\ UNCHANGED <<op, on, ret>> /\ run' = [run EXCEPT ![g] = NoTask]
        /\ batch' = [batch EXCEPT ![g] = <<>>] /\ arg' = [arg EXCEPT ![g] = NoCall]
        /\ \E x : outcome' = [outcome EXCEPT ![g] = x]
    BY <1>14 DEF GuestTraps, Fails
  <2> QED
    BY <2>1, <1>a, Moves DEF KeepsLocal, Types
<1>15. CASE RunThunk(g)
  BY <1>15, <1>a, Moves DEF RunThunk, QueueExternalCompletion, KeepsLocal, Types
<1>16. CASE ResumeReady(g)
  BY <1>16, <1>a, Moves DEF ResumeReady, KeepsLocal, Types
<1>17. CASE DriveEnds(g)
  BY <1>17, <1>a, Moves DEF DriveEnds, KeepsLocal, Types
<1>18. CASE DrainMailbox(g)
  BY <1>18, <1>a, Moves DEF DrainMailbox, KeepsLocal, Types
<1>19. CASE ApplyOne(g)
  BY <1>19, <1>a, Moves DEF ApplyOne, KeepsLocal, Types
<1>20. CASE ApplyFails(g)
  BY <1>20, <1>a, Moves DEF ApplyFails, Fails, KeepsLocal, Types
<1>21. CASE TryLock(g)
  BY <1>21, <1>a, Moves DEF TryLock, KeepsLocal, Types
<1>22. CASE Publish(g)
  BY <1>22, <1>a, Moves DEF Publish, KeepsLocal, Types
<1>23. CASE Activate(g)
  BY <1>23, <1>a, Moves DEF Activate, KeepsLocal, Types
<1>24. CASE ClaimUnshared(g)
  BY <1>24, <1>a, Moves DEF ClaimUnshared, KeepsLocal, Types
<1>25. CASE FinishAsync(g)
  BY <1>25, <1>a, Moves DEF FinishAsync, KeepsLocal, Types
<1>26. CASE Reap(g)
  BY <1>26, <1>a, Moves DEF Reap, KeepsLocal, Types
<1>27. CASE ReleasePendingLease(g)
  BY <1>27, <1>a, Moves DEF ReleasePendingLease, KeepsLocal, Types
<1>28. CASE ReleaseDriver(g)
  BY <1>28, <1>a, Moves DEF ReleaseDriver, KeepsLocal, Types
<1>29. CASE ClaimDriver(g)
  BY <1>29, <1>a, Moves DEF ClaimDriver, KeepsLocal, Types
<1>30. CASE AwaitWaits(g)
  BY SMTT(40), <1>30, <1>a, Moves DEF AwaitWaits, KeepsLocal, Types
<1>31. CASE Watcher(g)
  BY <1>31, <1>a, Moves DEF Watcher, KeepsLocal, Types
<1>32. CASE Cancel(g)
  BY <1>32, <1>a, Moves DEF Cancel, TellDriver, KeepsLocal, Types
<1>33. CASE CancelReturns(g)
  BY <1>33, <1>a, Moves DEF CancelReturns, KeepsLocal, Types
<1>34. CASE CloseReap(g)
  BY <1>34, <1>a, Moves DEF CloseReap, KeepsLocal, Types
<1>35. CASE CloseTable(g)
  BY <1>35, <1>a, Moves DEF CloseTable, KeepsLocal, Types
<1>36. CASE Unlock(g)
  BY <1>36, <1>a, Moves DEF Unlock, KeepsLocal, Types
<1>37. CASE LockClose(g)
  BY <1>37, <1>a, Moves DEF LockClose, KeepsLocal, Types
<1>38. CASE LockCall(g)
  BY <1>38, <1>a, Moves DEF LockCall, KeepsLocal, Types
<1> QED
  BY <1>1, <1>2, <1>3, <1>4, <1>5, <1>6, <1>7, <1>8, <1>9, <1>10, <1>11, <1>12, <1>13, <1>14,
     <1>15, <1>16, <1>17, <1>18, <1>19, <1>20, <1>21, <1>22, <1>23, <1>24, <1>25, <1>26,
     <1>27, <1>28, <1>29, <1>30, <1>31, <1>32, <1>33, <1>34, <1>35, <1>36, <1>37, <1>38 DEF
     Step, Embedder, GuestOrHost, Runtime, Locks

\* A goroutine that takes a step still does what its operation may do.
LEMMA LocalSelf ==
  ASSUME Base, NEW g \in Procs, Step(g)
  PROVE  LocalOf(g)'
<1> USE DEF goRest, goVars, goAim, instVars, instRest, instCtl, pendVars, pendRest, schedVars, schedTasks,
            resVars, resRest, acVars, Tasks
<1>a. Types /\ LocalOf(g)
  BY DEF Base, Local
<1>1. CASE BeginCallAsync(g)
  BY <1>1, <1>a, Moves DEF BeginCallAsync, Begin, LocalOf, InGuest, Begun, Types
<1>2. CASE BeginAwait(g)
  BY <1>2, <1>a, Moves DEF BeginAwait, Begin, LocalOf, InGuest, Begun, Types
<1>3. CASE BeginCancel(g)
  BY <1>3, <1>a, Moves DEF BeginCancel, Begin, LocalOf, InGuest, Begun, Types
<1>4. CASE BeginClose(g)
  BY <1>4, <1>a, Moves DEF BeginClose, CallToCancel, LocalOf, InGuest, Begun, Types
<1>5. CASE BeginCall(g)
  <2>1. /\ pc[g] = "idle" /\ op'[g] = "call" /\ pc'[g] = "lockCall" /\ on'[g] # NoTask
        /\ UNCHANGED <<run, ret, batch, arg>>
        /\ outcome'[g] = "ok"
    BY <1>5, <1>a, Moves DEF BeginCall, Begin, Types
  <2> QED
    BY <2>1, <1>a DEF LocalOf, InGuest, Begun, Types
<1>6. CASE ContextEnds(g)
  BY <1>6, <1>a, Moves DEF ContextEnds, LocalOf, InGuest, Begun, Types
<1>7. CASE GuestImports(g)
  <2>1. /\ pc[g] \in {"start", "resume"} /\ pc'[g] = "hostfn" /\ ret'[g] = pc[g] /\ arg'[g] # NoCall
        /\ UNCHANGED <<op, on, run, batch, outcome>>
    BY <1>7, <1>a, Moves DEF GuestImports, GuestRuns, Types
  <2> QED
    BY <2>1, <1>a DEF LocalOf, InGuest, Begun, Types, Ops
<1>8. CASE HostResolves(g)
  BY <1>8, <1>a, Moves DEF HostResolves, QueueExternalCompletion, LocalOf, InGuest, Begun, Types
<1>9. CASE HostDefers(g)
  BY <1>9, <1>a, Moves DEF HostDefers, LocalOf, InGuest, Begun, Types
<1>10. CASE HostReturns(g)
  <2>1. /\ pc[g] = "hostfn"
        /\ UNCHANGED <<op, on, run, ret, batch, outcome>>
        /\ (pc'[g] = "drain" /\ arg' = arg /\ op[g] # "call") \/ pc'[g] = ret[g]
    <3>1. asyncActive => op[g] # "call"
      BY <1>10, FramedAlone DEF HostReturns, Framed, Driving
    <3> QED
      BY <1>10, <1>a, <3>1, Moves DEF HostReturns, Types
  <2> QED
    BY <2>1, <1>a DEF LocalOf, InGuest, Begun, Types
<1>11. CASE GuestWaits(g)
  BY SMTT(40), <1>11, <1>a, Moves DEF GuestWaits, GuestRuns, AfterGuest, LocalOf, InGuest, Begun, Types
<1>12. CASE GuestSignals(g)
  BY <1>12, <1>a, Moves DEF GuestSignals, GuestRuns, LocalOf, InGuest, Begun, Types
<1>13. CASE GuestExits(g)
  BY <1>13, <1>a, Moves DEF GuestExits, GuestRuns, AfterGuest, LocalOf, InGuest, Begun, Types
<1>14. CASE GuestTraps(g)
  <2>1. /\ pc[g] \in {"start", "resume", "hostfn"}
        /\ UNCHANGED <<op, on, ret>>
        /\ run'[g] = NoTask /\ batch'[g] = <<>> /\ (outcome'[g] = "start" => op[g] = "callasync")
        /\ pc'[g] = IF op[g] = "call" THEN "reap" ELSE "finish"
    BY <1>14, <1>a, Moves DEF GuestTraps, Fails, GuestRuns, Types
  <2> QED
    BY <2>1, <1>a DEF LocalOf, InGuest, Begun, Types
<1>15. CASE RunThunk(g)
  BY <1>15, <1>a, Moves DEF RunThunk, QueueExternalCompletion, LocalOf, InGuest, Begun, Types
<1>16. CASE ResumeReady(g)
  <2>1. /\ pc[g] = "drive" /\ pc'[g] = "resume" /\ run'[g] # NoTask
        /\ UNCHANGED <<op, on, ret, batch, arg, outcome>>
    BY <1>16, <1>a, Moves, FirstReady DEF ResumeReady, Types
  <2> QED
    BY <2>1, <1>a DEF LocalOf, InGuest, Begun, Types
<1>17. CASE DriveEnds(g)
  <2>1. /\ pc[g] = "drive" /\ (outcome'[g] = "start" => outcome[g] = "start")
        /\ UNCHANGED <<op, on, run, batch, arg>>
        /\ \/ pc'[g] = "finish" /\ op[g] # "call" /\ ret' = ret
           \/ pc'[g] = "drain" /\ op[g] # "call" /\ ret'[g] = "drive"
           \/ pc'[g] \in {"unlock", "reap"} /\ op[g] = "call" /\ ret' = ret
    BY <1>17, <1>a, Moves DEF DriveEnds, CallDone, Types
  <2> QED
    BY <2>1, <1>a DEF LocalOf, InGuest, Begun, Types
<1>18. CASE DrainMailbox(g)
  <2>1. /\ pc[g] = "drain"
        /\ UNCHANGED <<op, on, run, ret, outcome>>
        /\ \/ batch'[g] # <<>> /\ pc'[g] = "apply" /\ arg' = arg
           \/ batch'[g] = <<>> /\ pc'[g] = IF ret[g] # "drive" THEN ret[g]
                                           ELSE IF op[g] = "await" THEN "wait" ELSE "release"
    BY SMTT(40), <1>18, <1>a, Moves DEF DrainMailbox, Types
  <2> QED
    BY <2>1, <1>a DEF LocalOf, InGuest, Begun, Types
<1>19. CASE ApplyOne(g)
  <2>1. /\ pc[g] = "apply"
        /\ UNCHANGED <<op, on, run, ret, outcome>>
        /\ \/ batch'[g] # <<>> /\ pc'[g] = "apply" /\ arg' = arg
           \/ batch'[g] = <<>> /\ pc'[g] = ret[g]
    BY SMTT(40), <1>19, <1>a, Moves DEF ApplyOne, Types
  <2> QED
    BY <2>1, <1>a DEF LocalOf, InGuest, Begun, Types
<1>20. CASE ApplyFails(g)
  <2>1. /\ pc[g] = "apply" /\ batch'[g] = <<>> /\ (outcome'[g] = "start" => op[g] = "callasync")
        /\ UNCHANGED <<op, on, ret>>
        /\ \/ ret[g] # "drive" /\ run'[g] = NoTask /\ pc'[g] = IF op[g] = "call" THEN "reap" ELSE "finish"
           \/ ret[g] = "drive" /\ run' = run /\ pc'[g] = "finish"
    BY SMTT(40), <1>20, <1>a, Moves DEF ApplyFails, Fails, Types
  <2> QED
    BY <2>1, <1>a DEF LocalOf, InGuest, Begun, Types
<1>21. CASE TryLock(g)
  <2>1. /\ pc[g] = "tryLock" /\ pc'[g] \in {"idle", "publish"}
        /\ UNCHANGED <<op, on, run, ret, batch, arg, outcome>>
    BY <1>21, <1>a, Moves DEF TryLock, Types
  <2> QED
    BY <2>1, <1>a DEF LocalOf, InGuest, Begun, Types
<1>22. CASE Publish(g)
  BY <1>22, <1>a, Moves DEF Publish, LocalOf, InGuest, Begun, Types
<1>23. CASE Activate(g)
  BY SMTT(40), <1>23, <1>a, Moves DEF Activate, LocalOf, InGuest, Begun, Types
<1>24. CASE ClaimUnshared(g)
  BY <1>24, <1>a, Moves DEF ClaimUnshared, LocalOf, InGuest, Begun, Types
<1>25. CASE FinishAsync(g)
  <2>1. /\ pc[g] = "finish" /\ pc'[g] \in {"unlease", "reap"}
        /\ UNCHANGED <<op, on, run, ret, batch, arg, outcome>>
    BY <1>25, <1>a, Moves DEF FinishAsync, Types
  <2> QED
    BY <2>1, <1>a DEF LocalOf, InGuest, Begun, Types
<1>26. CASE Reap(g)
  BY SMTT(40), <1>26, <1>a, Moves DEF Reap, LocalOf, InGuest, Begun, Types
<1>27. CASE ReleasePendingLease(g)
  BY SMTT(40), <1>27, <1>a, Moves DEF ReleasePendingLease, LocalOf, InGuest, Begun, Types
<1>28. CASE ReleaseDriver(g)
  BY <1>28, <1>a, Moves DEF ReleaseDriver, LocalOf, InGuest, Begun, Types
<1>29. CASE ClaimDriver(g)
  BY <1>29, <1>a, Moves DEF ClaimDriver, LocalOf, InGuest, Begun, Types
<1>30. CASE AwaitWaits(g)
  <2>1. /\ pc[g] = "wait" /\ pc'[g] \in {"asleep", "release", "finish", "drive"}
        /\ UNCHANGED <<op, on, run, ret, batch, arg>>
        /\ outcome'[g] \in {"err", outcome[g]}
    BY SMTT(40), <1>30, <1>a, Moves DEF AwaitWaits, Types
  <2> QED
    BY <2>1, <1>a DEF LocalOf, InGuest, Begun, Types
<1>31. CASE Watcher(g)
  BY <1>31, <1>a, Moves DEF Watcher, LocalOf, InGuest, Begun, Types
<1>32. CASE Cancel(g)
  <2>1. /\ pc[g] = "cancel" /\ pc'[g] \in {"idle", "lockClose", "waitDone", "finish"}
        /\ pc'[g] = "idle" => op[g] # "close"
        /\ pc'[g] = "lockClose" => op[g] = "close"
        /\ UNCHANGED <<op, on, run, ret, batch, arg>>
        /\ outcome'[g] \in {"err", outcome[g]}
    BY SMTT(40), <1>32, <1>a, Moves DEF Cancel, TellDriver, AfterCancel, Types
  <2> QED
    BY <2>1, <1>a DEF LocalOf, InGuest, Begun, Types
<1>33. CASE CancelReturns(g)
  <2>1. /\ pc[g] = "waitDone" /\ (pc'[g] = "idle" \/ (pc'[g] = "lockClose" /\ op[g] = "close"))
        /\ UNCHANGED <<op, on, run, ret, batch, arg, outcome>>
    BY <1>33, <1>a, Moves DEF CancelReturns, AfterCancel, Types
  <2> QED
    BY <2>1, <1>a DEF LocalOf, InGuest, Begun, Types
<1>34. CASE CloseReap(g)
  BY <1>34, <1>a, Moves DEF CloseReap, LocalOf, InGuest, Begun, Types
<1>35. CASE CloseTable(g)
  BY <1>35, <1>a, Moves DEF CloseTable, LocalOf, InGuest, Begun, Types
<1>36. CASE Unlock(g)
  BY <1>36, <1>a, Moves DEF Unlock, LocalOf, InGuest, Begun, Types
<1>37. CASE LockClose(g)
  BY <1>37, <1>a, Moves DEF LockClose, LocalOf, InGuest, Begun, Types
<1>38. CASE LockCall(g)
  BY <1>38, <1>a, Moves DEF LockCall, LocalOf, InGuest, Begun, Types
<1> QED
  BY <1>1, <1>2, <1>3, <1>4, <1>5, <1>6, <1>7, <1>8, <1>9, <1>10, <1>11, <1>12, <1>13, <1>14,
     <1>15, <1>16, <1>17, <1>18, <1>19, <1>20, <1>21, <1>22, <1>23, <1>24, <1>25, <1>26,
     <1>27, <1>28, <1>29, <1>30, <1>31, <1>32, <1>33, <1>34, <1>35, <1>36, <1>37, <1>38 DEF
     Step, Embedder, GuestOrHost, Runtime, Locks

\* Every goroutine does what its operation may do.
LEMMA LocalStep ==
  ASSUME Base, NEW g \in Procs, Step(g)
  PROVE  Local'
<1>1. LocalOf(g)'
  BY LocalSelf
<1>2. ASSUME NEW h \in Procs \ {g} PROVE LocalOf(h)'
  <2>1. KeepsLocal(h) /\ LocalOf(h)
    BY OthersStay DEF Base, Local
  <2>2. CASE pc'[h] = pc[h]
    BY <2>1, <2>2 DEF KeepsLocal, LocalOf, InGuest
  <2>3. CASE pc[h] = "asleep" /\ pc'[h] = "wait"
    BY <2>1, <2>3 DEF KeepsLocal, LocalOf, InGuest, Begun
  <2> QED
    BY <2>1, <2>2, <2>3 DEF KeepsLocal
<1> QED
  BY <1>1, <1>2 DEF Local

\* Who works for the holder of the lease works alone.
LEMMA Alone ==
  ASSUME Base, NEW g \in Procs, NEW h \in Procs, Owner(g) \/ Framed(g), Owner(h) \/ Framed(h)
  PROVE  g = h /\ locked
BY OnCall DEF Base, Control, OneHolder

\* Guest code runs in one goroutine, the one that works for the holder.
LEMMA GuestHolds ==
  ASSUME Base, NEW g \in Procs, InGuest(g)
  PROVE  Owner(g) \/ Framed(g)
<1>1. op[g] = "call" => pc[g] \in {"start", "resume", "hostfn"}
  BY Labelled DEF Base, InGuest
<1> QED
  BY <1>1 DEF InGuest, Owner, Framed, Begun, Driving

\* While g works for the holder of the lease, or nobody does, no other
\* goroutine has a guest task to run.
LEMMA OneGuest ==
  ASSUME Base, NEW g \in Procs, Owner(g) \/ Framed(g) \/ ~locked
  PROVE  \A h \in Procs \ {g} : run[h] = NoTask
<1> SUFFICES ASSUME NEW h \in Procs \ {g}, run[h] # NoTask PROVE FALSE
  OBVIOUS
<1>1. InGuest(h)
  BY DEF Base, Local, LocalOf
<1>2. (Owner(h) \/ Framed(h)) /\ locked
  BY <1>1, GuestHolds, Alone
<1> QED
  BY <1>2, Alone

\* g runs task t, and at most the state of t, which was not registered, changes.
LEMMA OneTaskChanges ==
  ASSUME Base, NEW g \in Procs, NEW t \in Tasks, NEW s \in {"running", "exited", "trapped"},
         task' = [task EXCEPT ![t] = s], parked' = parked, t \notin Elems(parked),
         \A h \in Procs \ {g} : run'[h] = NoTask,
         run'[g] = NoTask \/ (run'[g] = t /\ s = "running")
  PROVE  Guests'
<1>1. \A u \in Tasks : task'[u] = IF u = t THEN s ELSE task[u]
  BY DEF Base, Types
<1>2. (\A h \in Procs : run[h] # NoTask => task[run[h]] = "running")'
  BY <1>1
<1>3. (\A u \in Tasks : u \in Elems(parked) <=> task[u] = "parked")'
  BY <1>1 DEF Base, Guests
<1> QED
  BY <1>2, <1>3 DEF Base, Guests

\* Reaping unregisters exactly the parked tasks that hold a goroutine.
LEMMA GuestsReap ==
  ASSUME Base, NEW g \in Procs, ReapTasks, run' = run
  PROVE  Guests'
<1>1. /\ parked \in Seq(Tasks)
      /\ parked' = Filtered(parked, StackTasks)
      /\ task' = [t \in Tasks |-> IF task[t] = "parked" /\ t \in StackTasks THEN "reaped" ELSE task[t]]
  <2>1. parked \in Seq(Tasks)
    BY DEF Base, Types
  <2> QED
    BY <2>1 DEF ReapTasks, Holds
<1>2. Elems(parked') = Elems(parked) \ StackTasks /\ (Once(parked) => Once(parked'))
  BY <1>1, FilteredFacts
<1>3. \A t \in Tasks : task'[t] = IF task[t] = "parked" /\ t \in StackTasks THEN "reaped" ELSE task[t]
  BY <1>1
<1>4. (\A h \in Procs : run[h] # NoTask => task[run[h]] = "running")'
  <2>1. \A h \in Procs : run[h] # NoTask => run[h] \in Tasks
    BY DEF Base, Types
  <2> QED
    BY <1>3, <2>1 DEF Base, Guests
<1>5. (\A t \in Tasks : t \in Elems(parked) <=> task[t] = "parked")'
  <2>1. \A t \in Tasks : t \in Elems(parked') <=> task'[t] = "parked"
    BY <1>2, <1>3 DEF Base, Guests
  <2> QED
    BY <2>1 DEF Elems
<1>6. Once(parked)'
  BY <1>2 DEF Base, Guests, Once
<1> QED
  BY <1>4, <1>5, <1>6 DEF Guests

\* The scheduler's list holds the tasks that wait, whatever step is taken.
LEMMA GuestsStep ==
  ASSUME Base, NEW g \in Procs, Step(g)
  PROVE  Guests'
<1> USE DEF goRest, goVars, goAim, instVars, instRest, instCtl, pendVars, pendRest, schedVars, schedTasks,
            resVars, resRest, acVars
<1>a. Types /\ LocalOf(g)
  BY DEF Base, Local
<1>b. GuestRuns(g) \/ pc[g] = "hostfn" \/ InGuest(g) =>
        /\ run[g] \in Tasks \ Elems(parked)
        /\ Owner(g) \/ Framed(g)
        /\ \A h \in Procs \ {g} : run[h] = NoTask
  <2>1. GuestRuns(g) \/ pc[g] = "hostfn" => InGuest(g)
    BY DEF GuestRuns, InGuest
  <2>2. InGuest(g) => run[g] \in Tasks /\ task[run[g]] = "running"
    BY <1>a DEF LocalOf, Types, Base, Guests
  <2>3. InGuest(g) => run[g] \notin Elems(parked)
    BY <2>2 DEF Base, Guests
  <2> QED
    BY <2>1, <2>2, <2>3, GuestHolds, OneGuest
<1>1. CASE UNCHANGED <<run, parked, task>>
  BY <1>1 DEF Base, Guests
<1>2. CASE GuestWaits(g)
  <2>1. /\ GuestRuns(g)
        /\ parked' = Append(parked, run[g]) /\ task' = [task EXCEPT ![run[g]] = "parked"]
        /\ run' = [run EXCEPT ![g] = NoTask]
    BY <1>2 DEF GuestWaits
  <2>2. run[g] \in Tasks \ Elems(parked) /\ parked \in Seq(Tasks) /\ Once(parked)
    BY <2>1, <1>b DEF Base, Types, Guests
  <2>3. Elems(parked') = Elems(parked) \cup {run[g]} /\ Once(parked')
    BY <2>1, <2>2, ElemsAppend
  <2>4. \A u \in Tasks : task'[u] = IF u = run[g] THEN "parked" ELSE task[u]
    BY <2>1, <1>a DEF Types
  <2>5. \A h \in Procs : run'[h] = NoTask
    BY <2>1, <1>a, <1>b DEF Types
  <2>6. \A t \in Tasks : t \in Elems(parked') <=> task'[t] = "parked"
    BY <2>2, <2>3, <2>4 DEF Base, Guests
  <2> QED
    BY <2>3, <2>5, <2>6 DEF Guests, Elems, Once
<1>3. CASE GuestExits(g)
  <2>1. GuestRuns(g) /\ parked' = parked /\ task' = [task EXCEPT ![run[g]] = "exited"] /\ run' = [run EXCEPT ![g] = NoTask]
    BY <1>3 DEF GuestExits
  <2>2. \A h \in Procs : run'[h] = NoTask
    BY <2>1, <1>a, <1>b DEF Types
  <2> QED
    BY <2>1, <2>2, <1>b, OneTaskChanges
<1>4. CASE GuestTraps(g) \/ (ApplyFails(g) /\ ret[g] # "drive")
  <2>1. /\ GuestRuns(g) \/ pc[g] = "hostfn" \/ InGuest(g)
        /\ parked' = parked /\ task' = [task EXCEPT ![run[g]] = "trapped"] /\ run' = [run EXCEPT ![g] = NoTask]
    BY <1>4 DEF GuestTraps, ApplyFails, Fails, InGuest
  <2>2. \A h \in Procs : run'[h] = NoTask
    BY <2>1, <1>a, <1>b DEF Types
  <2> QED
    BY <2>1, <2>2, <1>b, OneTaskChanges
<1>5. CASE ResumeReady(g)
  <2> DEFINE i == First(ReadyIndexes)
             t == parked[i]
  <2>1. /\ parked' = Without(parked, i) /\ task' = [task EXCEPT ![t] = "running"]
        /\ run' = [run EXCEPT ![g] = t] /\ pc[g] = "drive" /\ ReadyIndexes # {}
    BY <1>5 DEF ResumeReady, Unpark
  <2>2. i \in DOMAIN parked /\ t \in Elems(parked) \cap Tasks /\ parked \in Seq(Tasks) /\ Once(parked)
    BY <2>1, <1>a, FirstReady DEF Base, Types, Guests
  <2> HIDE DEF i
  <2>3. Elems(parked') = Elems(parked) \ {t} /\ Once(parked')
    <3>1. /\ Elems(parked') \subseteq Elems(parked) /\ Elems(parked) \subseteq Elems(parked') \cup {t}
          /\ Once(parked') /\ t \notin Elems(parked')
      BY <2>1, <2>2, WithoutFacts
    <3> QED
      BY <3>1
  <2> HIDE DEF t
  <2>4. \A u \in Tasks : task'[u] = IF u = t THEN "running" ELSE task[u]
    BY <2>1, <1>a DEF Types
  <2>5. \A h \in Procs \ {g} : run'[h] = NoTask
    <3>1. Owner(g) \/ Framed(g)
      BY <2>1 DEF Owner, Framed, Begun, Driving
    <3> QED
      BY <2>1, <3>1, <1>a, OneGuest DEF Types
  <2>6. run'[g] = t
    BY <2>1, <1>a DEF Types
  <2>7. \A u \in Tasks : u \in Elems(parked') <=> task'[u] = "parked"
    BY <2>2, <2>3, <2>4 DEF Base, Guests
  <2>8. (\A h \in Procs : run[h] # NoTask => task[run[h]] = "running")'
    BY <2>2, <2>4, <2>5, <2>6
  <2> QED
    BY <2>3, <2>7, <2>8 DEF Guests, Elems, Once
<1>6. CASE Activate(g) \/ (LockCall(g) /\ ~poisoned)
  <2>1. /\ parked' = parked /\ task' = [task EXCEPT ![on[g]] = "running"]
        /\ run' = [run EXCEPT ![g] = on[g]] /\ Entering(g)
        /\ Owner(g) \/ Framed(g) \/ ~locked
    <3>1. Activate(g) => Owner(g)
      BY Labelled DEF Activate, Owner, Begun, Base
    <3> QED
      BY <1>6, <3>1 DEF Activate, LockCall, Entering
  <2>2. on[g] \in Tasks /\ on[g] \notin Elems(parked)
    <3>1. on[g] \in Tasks
      BY <2>1, OnCall DEF Base
    <3>2. task[on[g]] = "new"
      BY <2>1 DEF Base, Control, Roles
    <3> QED
      BY <3>1, <3>2 DEF Base, Guests
  <2>3. (\A h \in Procs \ {g} : run'[h] = NoTask) /\ run'[g] = on[g]
    BY <2>1, <1>a, OneGuest DEF Types
  <2> QED
    BY <2>1, <2>2, <2>3, OneTaskChanges
<1>7. CASE Reap(g) \/ CloseReap(g)
  BY <1>7, GuestsReap DEF Reap, CloseReap
<1>8. UNCHANGED <<run, parked, task>> \/ GuestWaits(g) \/ GuestExits(g) \/ GuestTraps(g) \/ (ApplyFails(g) /\ ret[g] # "drive")
        \/ ResumeReady(g) \/ Activate(g) \/ (LockCall(g) /\ ~poisoned) \/ Reap(g) \/ CloseReap(g)
  <2>1. CASE Embedder(g)
    BY <2>1 DEF Embedder, Begin, BeginCallAsync, BeginAwait, BeginCancel, BeginClose,
       BeginCall, ContextEnds
  <2>2. CASE GuestOrHost(g)
    BY <2>2 DEF GuestOrHost, GuestImports, HostResolves, HostDefers, HostReturns, GuestSignals
  <2>3. CASE Runtime(g)
    BY <2>3 DEF Runtime, RunThunk, DriveEnds, DrainMailbox, ApplyOne, ApplyFails, TryLock, Publish,
       ClaimUnshared, FinishAsync, ReleasePendingLease, ReleaseDriver, ClaimDriver, AwaitWaits, Watcher,
       Cancel, CancelReturns, CloseTable, Unlock
  <2>4. CASE Locks(g)
    BY <2>4 DEF Locks, LockClose, LockCall
  <2> QED
    BY <2>1, <2>2, <2>3, <2>4 DEF Step
<1> QED
  BY <1>1, <1>2, <1>3, <1>4, <1>5, <1>6, <1>7, <1>8

-----------------------------------------------------------------------------
(***************************************************************************)
(* What a step does with completions: nothing, accept one for the mailbox, *)
(* resolve one at once, take the mailbox, apply one, drop a batch, create  *)
(* an AsyncCall, settle a call, or publish one.                            *)
(***************************************************************************)
Leaves == UNCHANGED <<state, applied, mailbox, batch, calls, owner>>
Accepts(a) ==
  /\ a \in AsyncCalls /\ Made(a)
  /\ QueueExternalCompletion(a)
  /\ UNCHANGED <<applied, batch, calls, owner>>
SetsApplied(a) ==
  /\ state' = [state EXCEPT ![a] = "applied"]
  /\ applied' = [applied EXCEPT ![a] = @ + 1]
Resolves(a) ==
  /\ a \in AsyncCalls /\ Made(a) /\ state[a] = "open"
  /\ \/ SetsApplied(a)
     \/ state' = [state EXCEPT ![a] = "closed"] /\ applied' = applied
  /\ UNCHANGED <<mailbox, batch, calls, owner>>
Takes(g) ==
  /\ pc[g] = "drain"
  /\ batch' = [batch EXCEPT ![g] = mailbox] /\ mailbox' = <<>>
  /\ UNCHANGED <<state, applied, calls, owner>>
Applies(g) ==
  /\ pc[g] = "apply" /\ SetsApplied(Head(batch[g]))
  /\ batch' = [batch EXCEPT ![g] = Tail(@)]
  /\ UNCHANGED <<mailbox, calls, owner>>
Drops(g) ==
  /\ pc[g] = "apply" /\ pc'[g] = "finish" /\ on' = on
  /\ batch' = [batch EXCEPT ![g] = <<>>]
  /\ UNCHANGED <<state, applied, mailbox, calls, owner>>
Clears(g) ==
  /\ pc[g] = "publish" /\ mailbox' = <<>>
  /\ UNCHANGED <<state, applied, batch, calls, owner>>
Completion(g) ==
  \/ Leaves \/ (\E a \in AsyncCalls : Accepts(a) \/ Resolves(a))
  \/ Takes(g) \/ Applies(g) \/ Drops(g) \/ Clears(g) \/ GuestImports(g) \/ FinishAsync(g)

\* Resolve without a driver.
LEMMA Immediate ==
  ASSUME NEW a \in AsyncCalls, Made(a), ResolveNow(a), UNCHANGED <<mailbox, batch, calls, owner>>
  PROVE  Leaves \/ Resolves(a)
BY DEF ResolveNow, Applied, Unresolved, Leaves, Resolves, SetsApplied

\* Every step of a goroutine does one of these.
LEMMA CompletionStep ==
  ASSUME Base, NEW g \in Procs, Step(g)
  PROVE  Completion(g)
<1> USE DEF goRest, goVars, goAim, instVars, instRest, instCtl, pendVars, pendRest, schedVars, schedTasks,
            resVars, resRest, acVars
<1>a. Types /\ LocalOf(g)
  BY DEF Base, Local
<1>1. CASE HostResolves(g)
  <2>1. arg[g] \in AsyncCalls /\ Made(arg[g])
    BY <1>1, AtWork DEF HostResolves
  <2>2. Accepts(arg[g]) \/ (ResolveNow(arg[g]) /\ UNCHANGED <<mailbox, batch, calls, owner>>)
    BY <1>1, <2>1 DEF HostResolves, Accepts
  <2> QED
    BY <2>1, <2>2, Immediate DEF Completion
<1>2. CASE RunThunk(g)
  <2> DEFINE a == Head(runq)
  <2>1. a \in AsyncCalls /\ Made(a)
    <3>1. runq # <<>> /\ runq \in Seq(AsyncCalls)
      BY <1>2, <1>a DEF RunThunk, Types
    <3> QED
      BY <3>1, TailFacts DEF Base, Known
  <2>2. Accepts(a) \/ Leaves \/ Resolves(a)
    BY <1>2, <2>1 DEF RunThunk, Accepts, Leaves, Resolves, Applied, SetsApplied, Unresolved
  <2> QED
    BY <2>1, <2>2 DEF Completion
<1>3. CASE DrainMailbox(g)
  BY <1>3 DEF DrainMailbox, Completion, Takes
<1>4. CASE ApplyOne(g)
  BY <1>4 DEF ApplyOne, Applied, Completion, Applies, SetsApplied
<1>5. CASE ApplyFails(g)
  <2>1. op[g] # "call"
    BY <1>5, Labelled DEF Base, ApplyFails
  <2>2. \E l : Goto(g, l) /\ (l = "finish")
    BY <1>5, <2>1 DEF ApplyFails, Fails
  <2>3. pc'[g] = "finish"
    BY <2>2, <1>a, Moves
  <2> QED
    BY <1>5, <2>3 DEF ApplyFails, Fails, Completion, Drops
<1>6. CASE GuestTraps(g)
  <2>1. batch[g] = <<>>
    BY <1>6, <1>a DEF GuestTraps, GuestRuns, LocalOf
  <2>2. batch' = [batch EXCEPT ![g] = <<>>]
    BY <1>6 DEF GuestTraps, Fails
  <2>3. batch' = batch
    BY <2>1, <2>2, <1>a DEF Types
  <2> QED
    BY <1>6, <2>3 DEF GuestTraps, Fails, Completion, Leaves
<1>7. CASE Publish(g)
  BY <1>7 DEF Publish, Completion, Clears
<1>8. CASE GuestImports(g) \/ FinishAsync(g)
  BY <1>8 DEF Completion
<1>9. Leaves \/ HostResolves(g) \/ RunThunk(g) \/ DrainMailbox(g) \/ ApplyOne(g) \/ ApplyFails(g)
        \/ GuestTraps(g) \/ Publish(g) \/ GuestImports(g) \/ FinishAsync(g)
  <2>1. CASE Embedder(g)
    BY <2>1 DEF Leaves, Embedder, Begin, BeginCallAsync, BeginAwait, BeginCancel,
       BeginClose, BeginCall, ContextEnds
  <2>2. CASE GuestOrHost(g)
    BY <2>2 DEF Leaves, GuestOrHost, HostDefers, HostReturns, GuestSignals, GuestWaits, GuestExits
  <2>3. CASE Runtime(g)
    BY <2>3 DEF Leaves, Runtime, ResumeReady, DriveEnds, TryLock, Activate, Reap, CloseReap,
       ClaimUnshared, ReleasePendingLease, ReleaseDriver, ClaimDriver, AwaitWaits, Watcher,
       Cancel, CancelReturns, CloseTable, Unlock
  <2>4. CASE Locks(g)
    BY <2>4 DEF Leaves, Locks, LockClose, LockCall
  <2> QED
    BY <2>1, <2>2, <2>3, <2>4 DEF Step
<1> QED
  BY <1>1, <1>2, <1>3, <1>4, <1>5, <1>6, <1>7, <1>8, <1>9 DEF Completion

\* The owner of an AsyncCall is set once, by the guest that calls the import.
LEMMA OwnerGrows ==
  ASSUME Base, NEW g \in Procs, Completion(g)
  PROVE  \A a \in AsyncCalls : Made(a) => Made(a)'
<1>1. CASE GuestImports(g)
  BY <1>1, AtWork DEF GuestImports, Made, Base, Types
<1>2. CASE ~GuestImports(g)
  BY <1>2 DEF Completion, Leaves, Accepts, Resolves, Takes, Applies, Drops, Clears, Made,
     FinishAsync, resRest
<1> QED
  BY <1>1, <1>2

\* What queueExternalCompletion does to an AsyncCall somebody made.
LEMMA AcceptCases ==
  ASSUME Base, NEW a \in AsyncCalls, QueueExternalCompletion(a)
  PROVE  \/ pending = NoTask /\ state' = [state EXCEPT ![a] = "closed"] /\ mailbox' = mailbox /\ pc' = pc
         \/ /\ pending # NoTask /\ state[a] = "open" /\ state' = [state EXCEPT ![a] = "queued"]
            /\ mailbox' = Append(mailbox, a) /\ Signal
         \/ pending # NoTask /\ state' = state /\ mailbox' = mailbox /\ pc' = pc
<1>1. pending # NoTask => closed[pending] = FALSE
  BY DEF Base, Types, Control, Settling
<1> QED
  BY <1>1 DEF QueueExternalCompletion, Unresolved

\* Whatever holds an AsyncCall holds one that an import made.
LEMMA KnownStep ==
  ASSUME Base, NEW g \in Procs, Step(g)
  PROVE  Known'
<1> USE DEF goRest, goVars, goAim, instVars, instRest, instCtl, pendVars, pendRest, schedVars, schedTasks,
            resVars, resRest, acVars
<1>a. Types /\ Known /\ Completion(g)
  BY CompletionStep DEF Base
<1>b. \A a \in AsyncCalls : Made(a) => Made(a)'
  BY <1>a, OwnerGrows
<1>i. GuestImports(g) => \E a \in AsyncCalls :
        /\ owner'[a] # NoTask
        /\ arg' = [arg EXCEPT ![g] = a]
        /\ state' = state \/ state' = [state EXCEPT ![a] = "closed"]
        /\ calls' = calls \/ (pending \in Tasks /\ calls' = [calls EXCEPT ![pending] = @ \cup {a}])
        /\ UNCHANGED <<mailbox, runq, batch, loaded>>
  <2> SUFFICES ASSUME GuestImports(g)
               PROVE  \E a \in AsyncCalls :
        /\ owner'[a] # NoTask
        /\ arg' = [arg EXCEPT ![g] = a]
        /\ state' = state \/ state' = [state EXCEPT ![a] = "closed"]
        /\ calls' = calls \/ (pending \in Tasks /\ calls' = [calls EXCEPT ![pending] = @ \cup {a}])
        /\ UNCHANGED <<mailbox, runq, batch, loaded>>
    OBVIOUS
  <2>1. run[g] \in Tasks
    BY AtWork DEF GuestImports
  <2>2. PICK a \in AsyncCalls :
          /\ owner' = [owner EXCEPT ![a] = run[g]] /\ arg' = [arg EXCEPT ![g] = a]
          /\ state' = state \/ state' = [state EXCEPT ![a] = "closed"]
          /\ calls' = calls \/ (pending # NoTask /\ calls' = [calls EXCEPT ![pending] = @ \cup {a}])
          /\ UNCHANGED <<mailbox, runq, batch, loaded>>
    BY DEF GuestImports
  <2>3. owner'[a] = run[g] /\ run[g] # NoTask /\ pending \in Tasks \cup {NoTask}
    BY <2>1, <2>2, <1>a DEF Types
  <2> QED
    BY <2>2, <2>3 DEF Made
<1>f. FinishAsync(g) =>
        /\ on[g] \in Tasks /\ UNCHANGED <<runq, batch, loaded, arg, calls>>
        /\ mailbox' = mailbox \/ mailbox' = <<>>
        /\ \A a \in AsyncCalls : state'[a] = state[a] \/ a \in calls[on[g]]
  BY <1>a, OnCall DEF FinishAsync, ClosedCalls, Base
<1>1. (\A a \in AsyncCalls : state[a] # "open" => Made(a))'
  <2> SUFFICES ASSUME NEW a \in AsyncCalls, state'[a] # "open" PROVE Made(a)'
    OBVIOUS
  <2>1. CASE GuestImports(g)
    <3>1. PICK b \in AsyncCalls : owner'[b] # NoTask /\ (state' = state \/ state' = [state EXCEPT ![b] = "closed"])
      BY <2>1, <1>i
    <3>2. state'[a] = state[a] \/ a = b
      BY <3>1, <1>a DEF Types
    <3> QED
      BY <3>1, <3>2, <1>a, <1>b DEF Known, Made
  <2>2. CASE FinishAsync(g)
    BY <2>2, <1>a, <1>b, <1>f DEF Known
  <2>3. CASE \E b \in AsyncCalls : Accepts(b)
    <3>1. PICK b \in AsyncCalls : Accepts(b)
      BY <2>3
    <3>2. state'[a] = state[a] \/ a = b
      BY ZenonT(60), <3>1, <1>a, AcceptCases DEF Accepts, Types
    <3> QED
      BY <3>1, <3>2, <1>a, <1>b DEF Known, Accepts
  <2>4. CASE \E b \in AsyncCalls : Resolves(b)
    <3>1. PICK b \in AsyncCalls : Resolves(b)
      BY <2>4
    <3>2. state'[a] = state[a] \/ a = b
      BY <3>1, <1>a DEF Resolves, SetsApplied, Types
    <3> QED
      BY <3>1, <3>2, <1>a, <1>b DEF Known, Resolves
  <2>5. CASE Applies(g)
    <3>1. Head(batch[g]) \in AsyncCalls /\ Made(Head(batch[g]))
      BY <2>5, AtWork DEF Applies
    <3>2. state'[a] = state[a] \/ a = Head(batch[g])
      BY <2>5, <1>a DEF Applies, SetsApplied, Types
    <3> QED
      BY <3>1, <3>2, <1>a, <1>b DEF Known
  <2>6. CASE state' = state
    BY <2>6, <1>a, <1>b DEF Known
  <2> QED
    BY <1>a, <2>1, <2>2, <2>3, <2>4, <2>5, <2>6 DEF Completion, Leaves, Takes, Drops, Clears
<1>2. (\A a \in Elems(runq) : Made(a))'
  <2>0. Elems(runq') \subseteq Elems(runq) \cup {a \in AsyncCalls : Made(a)}
    <3>1. CASE HostDefers(g)
      <4>1. arg[g] \in AsyncCalls /\ Made(arg[g]) /\ runq' = Append(runq, arg[g]) /\ runq \in Seq(AsyncCalls)
        BY <3>1, <1>a, AtWork DEF HostDefers, Types
      <4> QED
        BY <4>1, ElemsAppend
    <3>2. CASE RunThunk(g)
      BY <3>2, AtWork DEF RunThunk
    <3>3. CASE runq' = runq
      BY <3>3
    <3>4. runq' = runq \/ HostDefers(g) \/ RunThunk(g)
      <4>1. CASE Embedder(g)
        BY <4>1 DEF Embedder, Begin, BeginCallAsync, BeginAwait, BeginCancel,
           BeginClose, BeginCall, ContextEnds
      <4>2. CASE GuestOrHost(g)
        BY <4>2 DEF GuestOrHost, HostReturns, GuestSignals, GuestWaits, GuestExits,
           GuestImports, HostResolves, GuestTraps, Fails
      <4>3. CASE Runtime(g)
        BY <4>3 DEF Runtime, ResumeReady, DriveEnds, TryLock, Activate, Reap, CloseReap,
           ApplyOne, ApplyFails, Fails,
           DrainMailbox, Publish, FinishAsync,
           ClaimUnshared, ReleasePendingLease, ReleaseDriver, ClaimDriver, AwaitWaits, Watcher,
           Cancel, CancelReturns, CloseTable, Unlock
      <4>4. CASE Locks(g)
        BY <4>4 DEF Locks, LockClose, LockCall
      <4> QED
        BY <4>1, <4>2, <4>3, <4>4 DEF Step
    <3> QED
      BY <3>1, <3>2, <3>3, <3>4
  <2>1. Elems(runq) \subseteq AsyncCalls
    BY <1>a DEF Types, Elems
  <2>2. \A a \in Elems(runq') : Made(a)'
    BY <2>0, <2>1, <1>a, <1>b DEF Known
  <2> QED
    BY <2>2 DEF Elems
<1>3. (\A a \in Elems(mailbox) : Made(a))'
  <2>1. Elems(mailbox') \subseteq Elems(mailbox) \cup {a \in AsyncCalls : Made(a)}
    <3>1. CASE \E b \in AsyncCalls : Accepts(b)
      <4>1. PICK b \in AsyncCalls : Accepts(b)
        BY <3>1
      <4>2. mailbox' = mailbox \/ mailbox' = Append(mailbox, b)
        BY <4>1, AcceptCases DEF Accepts
      <4>3. mailbox \in Seq(AsyncCalls)
        BY <1>a DEF Types
      <4>4. Elems(Append(mailbox, b)) = Elems(mailbox) \cup {b}
        BY <4>3, ElemsAppend
      <4> QED
        BY <4>1, <4>2, <4>4 DEF Accepts
    <3>2. CASE mailbox' = mailbox \/ mailbox' = <<>>
      BY <3>2 DEF Elems
    <3> QED
      BY <1>a, <1>i, <1>f, <3>1, <3>2 DEF Completion, Leaves, Resolves, Takes, Applies,
         Drops, Clears
  <2>2. Elems(mailbox) \subseteq AsyncCalls
    BY <1>a DEF Types, Elems
  <2>3. \A a \in Elems(mailbox') : Made(a)'
    BY <2>1, <2>2, <1>a, <1>b DEF Known
  <2> QED
    BY <2>3 DEF Elems
<1>4. (\A h \in Procs : \A a \in Elems(batch[h]) : Made(a))'
  <2> SUFFICES ASSUME NEW h \in Procs PROVE \A a \in Elems(batch'[h]) : Made(a)'
    BY DEF Elems
  <2>1. \/ batch' = batch \/ batch' = [batch EXCEPT ![g] = mailbox] \/ batch' = [batch EXCEPT ![g] = <<>>]
        \/ (pc[g] = "apply" /\ batch' = [batch EXCEPT ![g] = Tail(@)])
    BY <1>a, <1>i, <1>f DEF Completion, Leaves, Accepts, Resolves, Takes, Applies, Drops, Clears
  <2>2. \/ batch'[h] = batch[h] \/ batch'[h] = mailbox \/ batch'[h] = <<>>
        \/ (h = g /\ pc[g] = "apply" /\ batch'[h] = Tail(batch[g]))
    BY <2>1, <1>a DEF Types
  <2>3. Elems(batch'[h]) \subseteq Elems(batch[h]) \cup Elems(mailbox)
    <3>1. Elems(<<>>) = {}
      BY DEF Elems
    <3> QED
      BY <2>2, <3>1, AtWork
  <2>4. Elems(batch[h]) \cup Elems(mailbox) \subseteq AsyncCalls
    BY <1>a DEF Types, Elems
  <2> QED
    BY <2>3, <2>4, <1>a, <1>b DEF Known
<1>5. (\A h \in Procs : arg[h] # NoCall => Made(arg[h]))'
  <2> SUFFICES ASSUME NEW h \in Procs, arg'[h] # NoCall PROVE owner'[arg'[h]] # NoTask
    BY DEF Made
  <2>1. \/ arg' = arg \/ arg' = [arg EXCEPT ![g] = NoCall] \/ GuestImports(g)
    <3>1. CASE Embedder(g)
      BY <3>1 DEF Embedder, Begin, BeginCallAsync, BeginAwait, BeginCancel, BeginClose,
         BeginCall, ContextEnds
    <3>2. CASE GuestOrHost(g)
      BY <3>2 DEF GuestOrHost, HostReturns, HostDefers, GuestSignals, GuestWaits,
         GuestExits, HostResolves, GuestTraps, Fails
    <3>3. CASE Runtime(g)
      BY <3>3 DEF Runtime, ResumeReady, DriveEnds, TryLock, Activate, Reap, CloseReap,
         ApplyOne, ApplyFails, Fails,
         DrainMailbox, Publish, FinishAsync, RunThunk,
         ClaimUnshared, ReleasePendingLease, ReleaseDriver, ClaimDriver, AwaitWaits, Watcher,
         Cancel, CancelReturns, CloseTable, Unlock
    <3>4. CASE Locks(g)
      BY <3>4 DEF Locks, LockClose, LockCall
    <3> QED
      BY <3>1, <3>2, <3>3, <3>4 DEF Step
  <2>2. arg'[h] = arg[h] \/ GuestImports(g)
    BY <2>1, <1>a DEF Types
  <2>3. CASE arg'[h] = arg[h]
    <3>1. arg[h] \in AsyncCalls
      BY <2>3, <1>a DEF Types
    <3> QED
      BY <3>1, <2>3, <1>a, <1>b DEF Known, Made
  <2>4. CASE GuestImports(g)
    <3>1. PICK a \in AsyncCalls : owner'[a] # NoTask /\ arg' = [arg EXCEPT ![g] = a]
      BY <2>4, <1>i
    <3>2. arg'[h] = arg[h] \/ arg'[h] = a
      BY <3>1, <1>a DEF Types
    <3> QED
      BY <2>3, <3>1, <3>2 DEF Made
  <2> QED
    BY <2>2, <2>3, <2>4
<1>6. (\A c \in Completers : loaded[c] # <<>> => Made(loaded[c][1]))'
  <2>1. loaded' = loaded
    <3>1. CASE Embedder(g)
      BY <3>1 DEF Embedder, Begin, BeginCallAsync, BeginAwait, BeginCancel, BeginClose,
         BeginCall, ContextEnds
    <3>2. CASE GuestOrHost(g)
      BY <3>2 DEF GuestOrHost, HostReturns, HostDefers, GuestSignals, GuestWaits,
         GuestExits, HostResolves, GuestTraps, Fails, GuestImports
    <3>3. CASE Runtime(g)
      BY <3>3 DEF Runtime, ResumeReady, DriveEnds, TryLock, Activate, Reap, CloseReap,
         ApplyOne, ApplyFails, Fails,
         DrainMailbox, Publish, FinishAsync, RunThunk,
         ClaimUnshared, ReleasePendingLease, ReleaseDriver, ClaimDriver, AwaitWaits, Watcher,
         Cancel, CancelReturns, CloseTable, Unlock
    <3>4. CASE Locks(g)
      BY <3>4 DEF Locks, LockClose, LockCall
    <3> QED
      BY <3>1, <3>2, <3>3, <3>4 DEF Step
  <2>2. \A c \in Completers : loaded[c] # <<>> => loaded[c][1] \in AsyncCalls
    BY <1>a DEF Types
  <2>3. \A c \in Completers : loaded[c] # <<>> => owner'[loaded[c][1]] # NoTask
    BY <2>2, <1>a, <1>b DEF Known, Made
  <2> QED
    BY <2>1, <2>3 DEF Made
<1>7. (\A t \in Tasks : \A a \in calls[t] : Made(a))'
  <2> SUFFICES ASSUME NEW t \in Tasks, NEW a \in calls'[t] PROVE owner'[a] # NoTask
    BY DEF Made
  <2>1. CASE calls' = calls
    BY <2>1, <1>a, <1>b DEF Known, Types, Made
  <2>2. CASE GuestImports(g)
    <3>1. PICK b \in AsyncCalls :
            /\ owner'[b] # NoTask
            /\ calls' = calls \/ (pending \in Tasks /\ calls' = [calls EXCEPT ![pending] = @ \cup {b}])
      BY <2>2, <1>i
    <3>2. calls \in [Tasks -> SUBSET AsyncCalls]
      BY <1>a DEF Types
    <3>3. calls'[t] = calls[t] \/ calls'[t] = calls[t] \cup {b}
      BY <3>1, <3>2
    <3>4. a = b \/ (a \in calls[t] /\ a \in AsyncCalls)
      BY <3>2, <3>3
    <3>5. a \in calls[t] => Made(a)
      BY <1>a DEF Known
    <3>6. CASE a = b
      BY <3>1, <3>6
    <3>7. CASE a \in calls[t] /\ a \in AsyncCalls
      BY <3>5, <3>7, <1>b DEF Made
    <3> QED
      BY <3>4, <3>6, <3>7
  <2> QED
    BY <1>a, <1>f, <2>1, <2>2 DEF Completion, Leaves, Accepts, Resolves, Takes, Applies,
       Drops, Clears
<1> QED
  BY <1>1, <1>2, <1>3, <1>4, <1>5, <1>6, <1>7 DEF Known

-----------------------------------------------------------------------------
(* Steps of a host goroutine that resolves, and the induction of Base.     *)

Settlement == Leaves \/ \E a \in AsyncCalls : Accepts(a) \/ Resolves(a)

\* What a Resolve has read is an AsyncCall that somebody made.
LEMMA HasLoaded ==
  ASSUME Base, NEW c \in Completers, loaded[c] # <<>>
  PROVE  loaded[c][1] \in AsyncCalls /\ Made(loaded[c][1])
BY DEF Base, Types, Known

\* A Resolve accepts or resolves, and touches no control state.
LEMMA ResolverCompletion ==
  ASSUME Base, NEW c \in Completers, Resolver(c)
  PROVE  /\ Settlement
         /\ UNCHANGED <<goRest, locked, pending, asyncActive, instCtl, pendVars, schedTasks, signals, owner>>
         /\ Signal \/ pc' = pc
         /\ event' = event \/ \E a \in AsyncCalls : event' = event \cup {owner[a]} /\ Made(a)
         /\ \/ \E a \in AsyncCalls : Made(a) /\ loaded' = [loaded EXCEPT ![c] = <<a, asyncActive>>]
            \/ loaded' = [loaded EXCEPT ![c] = <<>>]
         /\ stray' = stray \/ (stray' = stray \cup {loaded[c][1]} /\ loaded[c] # <<>>)
<1> USE DEF goRest, goVars, goAim, instVars, instRest, instCtl, pendVars, pendRest, schedVars, schedTasks,
            resVars, resRest, acVars
<1>1. CASE ResolveBegins(c)
  <2>1. Settlement /\ UNCHANGED <<goVars, instVars, pendVars, schedVars, acVars>>
    BY <1>1 DEF ResolveBegins, Settlement, Leaves
  <2>2. \E a \in AsyncCalls : Made(a) /\ loaded' = [loaded EXCEPT ![c] = <<a, asyncActive>>]
    BY <1>1 DEF ResolveBegins, Made
  <2>3. UNCHANGED <<goRest, locked, pending, asyncActive, instCtl, pendVars, schedTasks, signals, owner>>
    BY <2>1
  <2>4. stray' = stray /\ event' = event /\ pc' = pc /\ Settlement
    BY <2>1
  <2>5. \/ \E a \in AsyncCalls : Made(a) /\ loaded' = [loaded EXCEPT ![c] = <<a, asyncActive>>]
        \/ loaded' = [loaded EXCEPT ![c] = <<>>]
    BY <2>2
  <2>6. event' = event \/ \E a \in AsyncCalls : event' = event \cup {owner[a]} /\ Made(a)
    BY <2>4
  <2>7. stray' = stray \/ (stray' = stray \cup {loaded[c][1]} /\ loaded[c] # <<>>)
    BY <2>4
  <2> QED
    BY <2>3, <2>4, <2>5, <2>6, <2>7
<1>2. CASE ResolveQueues(c)
  <2>1. loaded[c] # <<>> /\ loaded' = [loaded EXCEPT ![c] = <<>>] /\ QueueExternalCompletion(loaded[c][1])
        /\ UNCHANGED <<goRest, locked, pending, asyncActive, instCtl, pendVars, schedVars, owner, applied, stray>>
    BY <1>2 DEF ResolveQueues
  <2>2. Accepts(loaded[c][1]) /\ loaded[c][1] \in AsyncCalls
    BY <2>1, HasLoaded DEF Accepts
  <2>3. Signal \/ pc' = pc
    BY <2>1, <2>2, AcceptCases
  <2>4. Settlement
    BY <2>2 DEF Settlement
  <2> QED
    BY <2>1, <2>3, <2>4
<1>3. CASE ResolveApplies(c)
  <2>1. /\ loaded[c] # <<>> /\ loaded' = [loaded EXCEPT ![c] = <<>>] /\ ResolveNow(loaded[c][1])
        /\ UNCHANGED <<goVars, instVars, pendVars, schedTasks, signals, owner>>
        /\ stray' = stray \/ stray' = stray \cup {loaded[c][1]}
    BY <1>3 DEF ResolveApplies
  <2>2. loaded[c][1] \in AsyncCalls /\ Made(loaded[c][1])
    BY <2>1, HasLoaded
  <2>3. Settlement
    BY <2>1, <2>2, Immediate DEF Settlement
  <2>4. event' = event \/ event' = event \cup {owner[loaded[c][1]]}
    BY <2>1 DEF ResolveNow, Applied
  <2> QED
    BY <2>1, <2>2, <2>3, <2>4
<1> QED
  BY <1>1, <1>2, <1>3 DEF Resolver

\* The states of the AsyncCalls and the mailbox after a step of that kind.
LEMMA SettlementTypes ==
  ASSUME Base, Settlement
  PROVE  /\ state' \in [AsyncCalls -> {"open", "queued", "applied", "closed"}]
         /\ applied' \in [AsyncCalls -> Nat] /\ mailbox' \in Seq(AsyncCalls)
         /\ batch' = batch /\ calls' = calls /\ owner' = owner
         /\ \A a \in AsyncCalls : state'[a] # "open" => Made(a)
         /\ \A a \in Elems(mailbox') : Made(a)
<1>a. CallTypes /\ mailbox \in Seq(AsyncCalls) /\ Known
  BY DEF Base, Types
<1>1. CASE Leaves
  BY <1>1, <1>a DEF Leaves, Known
<1>2. CASE \E a \in AsyncCalls : Accepts(a)
  <2>1. PICK a \in AsyncCalls : Accepts(a)
    BY <1>2
  <2>2. /\ Made(a) /\ UNCHANGED <<applied, batch, calls, owner>>
        /\ state' = state \/ state' = [state EXCEPT ![a] = "closed"] \/ state' = [state EXCEPT ![a] = "queued"]
        /\ mailbox' = mailbox \/ mailbox' = Append(mailbox, a)
    BY <2>1, AcceptCases DEF Accepts
  <2>3. mailbox' \in Seq(AsyncCalls) /\ Elems(mailbox') \subseteq Elems(mailbox) \cup {a}
    <3>1. Append(mailbox, a) \in Seq(AsyncCalls) /\ Elems(Append(mailbox, a)) = Elems(mailbox) \cup {a}
      BY <1>a, ElemsAppend
    <3> QED
      BY <2>2, <3>1, <1>a
  <2>4. state' \in [AsyncCalls -> {"open", "queued", "applied", "closed"}]
    BY <2>2, <1>a
  <2>5. \A b \in AsyncCalls : state'[b] # "open" => Made(b)
    BY <2>2, <1>a DEF Known
  <2> QED
    BY <2>2, <2>3, <2>4, <2>5, <1>a DEF Known
<1>3. CASE \E a \in AsyncCalls : Resolves(a)
  <2>1. PICK a \in AsyncCalls : Resolves(a)
    BY <1>3
  <2>2. applied' = applied \/ applied' = [applied EXCEPT ![a] = @ + 1]
    BY <2>1 DEF Resolves, SetsApplied
  <2>3. applied' \in [AsyncCalls -> Nat]
    BY <2>2, <1>a
  <2>4. /\ Made(a) /\ UNCHANGED <<mailbox, batch, calls, owner>>
        /\ state' = [state EXCEPT ![a] = "closed"] \/ state' = [state EXCEPT ![a] = "applied"]
    BY <2>1 DEF Resolves, SetsApplied
  <2>5. state' \in [AsyncCalls -> {"open", "queued", "applied", "closed"}]
    BY <2>4, <1>a
  <2>6. \A b \in AsyncCalls : state'[b] # "open" => Made(b)
    BY <2>4, <1>a DEF Known
  <2> QED
    BY <2>3, <2>4, <2>5, <2>6, <1>a DEF Known
<1> QED
  BY <1>1, <1>2, <1>3 DEF Settlement

\* A host goroutine that resolves keeps Base.
LEMMA ResolverStep ==
  ASSUME Base, NEW c \in Completers, Resolver(c)
  PROVE  Base'
<1> USE DEF goRest, goVars, goAim, instVars, instRest, instCtl, pendVars, pendRest, schedVars, schedTasks,
            resVars, resRest, acVars
<1>a. Types /\ Local /\ Known
  BY DEF Base
<1>b. /\ UNCHANGED <<goRest, locked, pending, asyncActive, instCtl, pendVars, schedTasks, signals, owner>>
      /\ Signal \/ pc' = pc
  BY ResolverCompletion
<1>c. \/ \E a \in AsyncCalls : Made(a) /\ loaded' = [loaded EXCEPT ![c] = <<a, asyncActive>>]
      \/ loaded' = [loaded EXCEPT ![c] = <<>>]
  BY ResolverCompletion
<1>d. /\ state' \in [AsyncCalls -> {"open", "queued", "applied", "closed"}]
      /\ applied' \in [AsyncCalls -> Nat] /\ mailbox' \in Seq(AsyncCalls)
      /\ \A a \in AsyncCalls : state'[a] # "open" => Made(a)
      /\ \A a \in Elems(mailbox') : Made(a)
  BY ResolverCompletion, SettlementTypes
<1>1. GoTypes'
  <2>1. pc' \in [Procs -> Labels]
    BY <1>a, <1>b DEF Signal, Labels, Types
  <2> QED
    BY <2>1, <1>a, <1>b DEF Types
<1>2. InstTypes' /\ PendTypes'
  BY <1>a, <1>b, <1>d DEF Types
<1>3. TaskTypes'
  <2>1. event' = event \/ \E a \in AsyncCalls : event' = event \cup {owner[a]} /\ Made(a)
    BY ResolverCompletion
  <2>2. event' \subseteq Tasks
    BY <2>1, <1>a DEF Types, Made
  <2>3. runq' = runq
    BY <1>b
  <2> QED
    BY <2>2, <2>3, <1>a, <1>b DEF Types
<1>4. CallTypes'
  <2>1. loaded' \in [Completers -> {<<>>} \cup (AsyncCalls \X BOOLEAN)]
    <3>1. CASE loaded' = [loaded EXCEPT ![c] = <<>>]
      BY <3>1, <1>a DEF Types
    <3>2. CASE \E a \in AsyncCalls : Made(a) /\ loaded' = [loaded EXCEPT ![c] = <<a, asyncActive>>]
      <4>1. PICK a \in AsyncCalls : loaded' = [loaded EXCEPT ![c] = <<a, asyncActive>>]
        BY <3>2
      <4>2. <<a, asyncActive>> \in AsyncCalls \X BOOLEAN
        BY <1>a DEF Types
      <4> QED
        BY <4>1, <4>2, <1>a DEF Types
    <3> QED
      BY <3>1, <3>2, <1>c
  <2>2. stray' \subseteq AsyncCalls
    <3>1. stray' = stray \/ (stray' = stray \cup {loaded[c][1]} /\ loaded[c] # <<>>)
      BY ResolverCompletion
    <3>2. loaded[c] # <<>> => loaded[c][1] \in AsyncCalls
      BY HasLoaded
    <3> QED
      BY <3>1, <3>2, <1>a DEF Types
  <2> QED
    BY <2>1, <2>2, <1>a, <1>b, <1>d DEF Types
<1>5. Local'
  <2> SUFFICES ASSUME NEW g \in Procs PROVE LocalOf(g)'
    BY DEF Local
  <2>1. pc'[g] = pc[g] \/ (pc[g] = "asleep" /\ pc'[g] = "wait")
    BY <1>a, <1>b, Moves
  <2>2. LocalOf(g)
    BY <1>a DEF Local
  <2> QED
    BY <2>1, <2>2, <1>b DEF LocalOf, InGuest, Begun
<1>6. Guests'
  BY <1>b DEF Base, Guests
<1>7. Known'
  <2>1. \A d \in Completers : loaded'[d] # <<>> => owner'[loaded'[d][1]] # NoTask
    <3>1. CASE loaded' = [loaded EXCEPT ![c] = <<>>]
      BY <3>1, <1>a, <1>b DEF Types, Known, Made
    <3>2. CASE \E a \in AsyncCalls : Made(a) /\ loaded' = [loaded EXCEPT ![c] = <<a, asyncActive>>]
      <4>1. PICK a \in AsyncCalls : Made(a) /\ loaded' = [loaded EXCEPT ![c] = <<a, asyncActive>>]
        BY <3>2
      <4> SUFFICES ASSUME NEW d \in Completers, loaded'[d] # <<>> PROVE owner'[loaded'[d][1]] # NoTask
        OBVIOUS
      <4>2. loaded'[d] = loaded[d] \/ loaded'[d][1] = a
        BY <4>1, <1>a DEF Types
      <4> QED
        BY <4>1, <4>2, <1>a, <1>b DEF Known, Made
    <3> QED
      BY <3>1, <3>2, <1>c
  <2>2. batch' = batch /\ calls' = calls /\ arg' = arg /\ runq' = runq /\ owner' = owner
    BY <1>b
  <2>3. (\A a \in AsyncCalls : state[a] # "open" => Made(a))' /\ (\A a \in Elems(mailbox) : Made(a))'
    BY <2>2, <1>d DEF Made, Elems
  <2> QED
    BY <2>1, <2>2, <2>3, <1>a DEF Known, Made
<1>8. Control'
  BY ControlResolver
<1> QED
  BY <1>1, <1>2, <1>3, <1>4, <1>5, <1>6, <1>7, <1>8 DEF Base, Types

-----------------------------------------------------------------------------
\* Base holds before anything was called.
LEMMA BaseInit ==
  ASSUME Init PROVE Base
<1>1. GoTypes /\ InstTypes /\ PendTypes /\ TaskTypes /\ CallTypes
  <2>1. GoTypes
    BY DEF Init, Labels, Ops
  <2>2. InstTypes
    <3>1. mailbox = <<>> /\ pending = NoTask
      BY DEF Init
    <3>2. locked = FALSE /\ asyncActive = FALSE /\ poisoned = FALSE /\ closing = FALSE /\ shut = FALSE
      BY DEF Init
    <3>3. mailbox \in Seq(AsyncCalls)
      BY <3>1
    <3>4. pending \in Tasks \cup {NoTask}
      BY <3>1
    <3>5. locked \in BOOLEAN /\ asyncActive \in BOOLEAN /\ poisoned \in BOOLEAN /\ closing \in BOOLEAN /\ shut \in BOOLEAN
      BY <3>2
    <3> QED
      BY <3>3, <3>4, <3>5
  <2>3. PendTypes
    BY DEF Init
  <2>4. TaskTypes
    BY DEF Init
  <2>5. CallTypes
    BY DEF Init
  <2> QED
    BY <2>1, <2>2, <2>3, <2>4, <2>5
<1>2. Local
  BY DEF Init, Local, LocalOf, InGuest
<1>3. Guests
  BY DEF Init, Guests, Elems, Once
<1>4. Known
  BY DEF Init, Known, Elems, Made
<1>5. \A g \in Procs : /\ ~Owner(g) /\ ~Framed(g) /\ ~Settles(g) /\ ~Busy(g) /\ ~Entering(g) /\ ~Creates(g)
                       /\ ~InSyncCall(g) /\ ~InCallAsync(g) /\ ~Follows(g) /\ ~Publishing(g)
  BY DEF Init, Owner, Framed, Settles, Busy, Entering, Creates, InSyncCall, InCallAsync, Follows, Publishing,
         Begun, Driving
<1>6. Control
  BY <1>5 DEF Init, Control, OneHolder, Settling, Roles
<1> QED
  BY <1>1, <1>2, <1>3, <1>4, <1>6 DEF Base, Types

\* Base is about the variables of the specification only.
LEMMA BaseStutters ==
  ASSUME Base, UNCHANGED vars
  PROVE  Base'
<1> USE DEF vars, goVars, instVars, pendVars, schedVars, acVars
<1>1. GoTypes' /\ InstTypes' /\ PendTypes' /\ TaskTypes' /\ CallTypes'
  BY DEF Base, Types
<1>2. Local' /\ Guests' /\ Known'
  <2>1. Local'
    BY DEF Base, Local, LocalOf, InGuest
  <2>2. Guests' /\ Known'
    BY DEF Base, Guests, Known, Made
  <2> QED
    BY <2>1, <2>2
<1>3. \A h \in Procs : Stays(h)
  BY Bystander DEF Base
<1>4. Control'
  BY <1>3, Quiet
<1> QED
  BY <1>1, <1>2, <1>4 DEF Base, Types

\* Base is inductive as long as no Close overtakes a CallAsync.
LEMMA BaseStep ==
  ASSUME Base, ~overtaken', [Next]_vars
  PROVE  Base'
<1>1. CASE UNCHANGED vars
  BY <1>1, BaseStutters
<1>2. CASE \E c \in Completers : Resolver(c)
  BY <1>2, ResolverStep
<1>3. CASE \E g \in Procs : Step(g)
  <2>1. PICK g \in Procs : Step(g)
    BY <1>3
  <2>2. Types'
    BY <2>1, GoTypesStep, InstTypesStep, PendTypesStep, TaskTypesStep, CallTypesStep DEF Types
  <2>3. Local' /\ Guests' /\ Known' /\ Control'
    BY <2>1, LocalStep, GuestsStep, KnownStep, ControlStep
  <2> QED
    BY <2>2, <2>3 DEF Base
<1> QED
  BY <1>1, <1>2, <1>3 DEF Next, Step

-----------------------------------------------------------------------------
(***************************************************************************)
(* The completions.  Those the mailbox and a batch hold were accepted and  *)
(* not applied, each once; a completion is applied once; a settled call    *)
(* has none left; an accepted one is where the driver will find it.        *)
(***************************************************************************)
Posted ==
  /\ \A a \in Elems(mailbox) : state[a] = "queued"
  /\ Once(mailbox)
  /\ \A g \in Procs : Once(batch[g])
  /\ \A g \in Procs : \A a \in Elems(batch[g]) : state[a] = "queued" /\ a \notin Elems(mailbox)
Mail == (mailbox # <<>> => pending # NoTask) /\ Posted

Applying ==
  /\ \A a \in AsyncCalls : applied[a] <= 1
  /\ \A a \in AsyncCalls : state[a] \in {"open", "queued"} => applied[a] = 0
  /\ \A t \in Tasks : calls[t] # {} => lease[t] \/ closed[t]
  /\ \A t \in Tasks : \A a \in calls[t] : closed[t] => state[a] \in {"applied", "closed"}

Reachable(a) ==
  \/ a \in Elems(mailbox)
  \/ \E g \in Procs : a \in Elems(batch[g])
  \/ \E g \in Procs : pc[g] = "finish" /\ a \in calls[on[g]]
Registered == \A t \in Tasks : \A a \in calls[t] : state[a] = "queued" => Reachable(a)

\* Without synchronous calls every AsyncCall belongs to a pending call.
AllRegistered ==
  SyncTasks = {} =>
    /\ \A g \in Procs : op[g] # "call"
    /\ \A a \in AsyncCalls : Made(a) => \E t \in Tasks : a \in calls[t]

Asleep == \A g \in Procs : pc[g] = "asleep" => NothingToDo(g) \/ ctx[g] = "done"

Inv == Base /\ Mail /\ Applying /\ Registered /\ AllRegistered /\ Asleep

-----------------------------------------------------------------------------
\* Who pumps a published call pumps the pending one.
LEMMA PumpsPending ==
  ASSUME Base, NEW g \in Procs, op[g] # "call", pc[g] \in Begun \ {"publish", "reap", "unlease"}
  PROVE  /\ pending = on[g] /\ on[g] \in Tasks /\ Owner(g)
         /\ pc[g] # "activate" => asyncActive
<1>1. on[g] \in Tasks /\ closed[on[g]] = FALSE /\ Owner(g) /\ lease[on[g]] = TRUE
  BY PumpsOpen
<1>2. \A h \in Procs : Publishing(h) \/ Activating(h) => Owner(h)
  BY Labelled DEF Base, Publishing, Activating, Owner, Begun
<1>3. \A h \in Procs : Owner(h) => h = g
  BY <1>1 DEF Base, Control, OneHolder
<1>4. ~Publishing(g) /\ (pc[g] # "activate" => ~Activating(g))
  BY DEF Publishing, Activating
<1>5. pending = on[g]
  BY <1>1, <1>2, <1>3, <1>4 DEF Base, Control, Settling
<1> QED
  BY <1>1, <1>2, <1>3, <1>4, <1>5 DEF Base, Control, Settling

\* A batch is applied by the goroutine that pumps, and there is one.
LEMMA BatchAlone ==
  ASSUME Base, NEW h \in Procs, batch[h] # <<>>
  PROVE  /\ pc[h] = "apply" /\ Owner(h) /\ pending = on[h] /\ pending # NoTask
         /\ \A g \in Procs : Owner(g) => g = h
<1>1. pc[h] = "apply"
  BY DEF Base, Local, LocalOf
<1>2. op[h] # "call" /\ pc[h] \in Begun \ {"publish", "reap", "unlease"}
  BY <1>1, Labelled DEF Base, Begun
<1>3. pending = on[h] /\ on[h] \in Tasks /\ Owner(h)
  BY <1>2, PumpsPending
<1> QED
  BY <1>1, <1>3 DEF Base, Control, OneHolder

\* Nothing is pending while a call is published.
LEMMA NonePending ==
  ASSUME Base, NEW g \in Procs, pc[g] = "publish"
  PROVE  pending = NoTask
BY DEF Base, Types, Control, Settling, Publishing

\* An empty mailbox or batch holds nothing.
LEMMA EmptyElems ==
  Elems(<<>>) = {} /\ Once(<<>>)
BY DEF Elems, Once

\* Accepting or resolving a completion keeps the mailbox and the batches in order.
LEMMA PostedSettles ==
  ASSUME Base, Mail, Settlement
  PROVE  Posted'
<1>a. Types /\ Posted /\ mailbox \in Seq(AsyncCalls) /\ batch' = batch
  BY SettlementTypes DEF Base, Types, Mail
<1>b. /\ Elems(mailbox) \subseteq AsyncCalls
      /\ \A h \in Procs : Elems(batch[h]) \subseteq AsyncCalls
  BY <1>a DEF Types, Elems
<1>1. CASE Leaves
  BY <1>1, <1>a DEF Leaves, Posted
<1>2. CASE \E a \in AsyncCalls : Accepts(a)
  <2>1. PICK a \in AsyncCalls : Accepts(a)
    BY <1>2
  <2>2. CASE pending = NoTask
    <3>1. mailbox = <<>> /\ mailbox' = mailbox
      BY <2>1, <2>2, AcceptCases DEF Mail, Accepts
    <3>2. \A h \in Procs : batch[h] = <<>>
      BY <2>2, BatchAlone
    <3> QED
      BY <1>a, <3>1, <3>2, EmptyElems DEF Posted
  <2>3. CASE state[a] = "open" /\ state' = [state EXCEPT ![a] = "queued"] /\ mailbox' = Append(mailbox, a)
    <3>1. a \notin Elems(mailbox) /\ \A h \in Procs : a \notin Elems(batch[h])
      BY <2>3, <1>a DEF Posted
    <3>2. Elems(mailbox') = Elems(mailbox) \cup {a} /\ Once(mailbox')
      BY <2>3, <3>1, <1>a, ElemsAppend DEF Posted
    <3>3. state'[a] = "queued" /\ \A b \in AsyncCalls : b # a => state'[b] = state[b]
      BY <2>3, <1>a DEF Types
    <3>4. \A b \in Elems(mailbox') : state'[b] = "queued"
      BY <3>2, <3>3, <1>a, <1>b DEF Posted
    <3>5. \A h \in Procs : \A b \in Elems(batch'[h]) : state'[b] = "queued" /\ b \notin Elems(mailbox')
      BY <3>1, <3>2, <3>3, <1>a, <1>b DEF Posted
    <3>6. (\A b \in Elems(mailbox) : state[b] = "queued")'
      BY <3>4 DEF Elems
    <3>7. (\A h \in Procs : \A b \in Elems(batch[h]) : state[b] = "queued" /\ b \notin Elems(mailbox))'
      BY <3>5 DEF Elems
    <3>8. Once(mailbox)' /\ (\A h \in Procs : Once(batch[h]))'
      BY <3>2, <1>a DEF Once, Posted
    <3> QED
      BY <3>6, <3>7, <3>8 DEF Posted
  <2>4. CASE state' = state /\ mailbox' = mailbox
    BY <2>4, <1>a DEF Posted
  <2> QED
    BY <2>1, <2>2, <2>3, <2>4, AcceptCases DEF Accepts
<1>3. CASE \E a \in AsyncCalls : Resolves(a)
  <2>1. PICK a \in AsyncCalls : Resolves(a)
    BY <1>3
  <2>2. state[a] = "open" /\ mailbox' = mailbox /\ \A b \in AsyncCalls : b # a => state'[b] = state[b]
    BY <2>1, <1>a DEF Types, Resolves, SetsApplied
  <2>3. a \notin Elems(mailbox) /\ \A h \in Procs : a \notin Elems(batch[h])
    BY <2>2, <1>a DEF Posted
  <2> QED
    BY <2>2, <2>3, <1>a, <1>b DEF Posted
<1> QED
  BY <1>1, <1>2, <1>3 DEF Settlement

\* What a step does with the state of an AsyncCall.
Advances(a) ==
  \/ state'[a] = state[a] /\ applied'[a] = applied[a]
  \/ state[a] = "open" /\ state'[a] = "queued" /\ applied'[a] = applied[a] /\ a \in Elems(mailbox')
  \/ state'[a] = "closed" /\ applied'[a] = applied[a]
  \/ state[a] \in {"open", "queued"} /\ state'[a] = "applied" /\ applied'[a] = applied[a] + 1

\* Accepting or resolving moves an AsyncCall forward only.
LEMMA SettlementAdvances ==
  ASSUME Base, Mail, Settlement, NEW a \in AsyncCalls
  PROVE  Advances(a)
<1>a. Types /\ mailbox \in Seq(AsyncCalls)
  BY DEF Base, Types
<1>1. CASE Leaves
  BY <1>1 DEF Leaves, Advances
<1>2. CASE \E b \in AsyncCalls : Accepts(b)
  <2>1. PICK b \in AsyncCalls : Accepts(b)
    BY <1>2
  <2>2. applied' = applied
    BY <2>1 DEF Accepts
  <2>3. Elems(Append(mailbox, b)) = Elems(mailbox) \cup {b}
    BY <1>a, ElemsAppend
  <2>4. \/ state' = state \/ state' = [state EXCEPT ![b] = "closed"]
        \/ state[b] = "open" /\ state' = [state EXCEPT ![b] = "queued"] /\ mailbox' = Append(mailbox, b)
    BY <2>1, AcceptCases DEF Accepts
  <2>5. \/ state'[a] = state[a] \/ state'[a] = "closed"
        \/ state[a] = "open" /\ state'[a] = "queued" /\ mailbox' = Append(mailbox, a) /\ a = b
    BY <2>4, <1>a DEF Types
  <2> QED
    BY <2>2, <2>3, <2>5 DEF Advances
<1>3. CASE \E b \in AsyncCalls : Resolves(b)
  <2>1. PICK b \in AsyncCalls : Resolves(b)
    BY <1>3
  <2> QED
    BY <2>1, <1>a DEF Resolves, SetsApplied, Advances, Types
<1> QED
  BY <1>1, <1>2, <1>3 DEF Settlement

\* So does every step of a goroutine.
LEMMA CompletionAdvances ==
  ASSUME Base, Mail, NEW g \in Procs, Completion(g), NEW a \in AsyncCalls
  PROVE  Advances(a)
<1>a. Types
  BY DEF Base
<1>1. CASE Settlement
  BY <1>1, SettlementAdvances
<1>2. CASE Takes(g) \/ Drops(g) \/ Clears(g)
  BY <1>2 DEF Takes, Drops, Clears, Advances
<1>3. CASE Applies(g)
  <2> DEFINE b == Head(batch[g])
  <2>1. b \in AsyncCalls /\ state[b] = "queued"
    BY <1>3, AtWork DEF Applies, Mail, Posted
  <2>2. state' = [state EXCEPT ![b] = "applied"] /\ applied' = [applied EXCEPT ![b] = @ + 1]
    BY <1>3 DEF Applies, SetsApplied
  <2> HIDE DEF b
  <2> QED
    BY <2>1, <2>2, <1>a DEF Advances, Types
<1>4. CASE GuestImports(g)
  <2>1. /\ applied' = applied
        /\ state' = state \/ \E b \in AsyncCalls : state' = [state EXCEPT ![b] = "closed"]
    BY <1>4 DEF GuestImports
  <2> QED
    BY <2>1, <1>a DEF Advances, Types
<1>5. CASE FinishAsync(g)
  <2>1. applied' = applied /\ (state'[a] = state[a] \/ state'[a] = "closed")
    BY <1>5 DEF FinishAsync, ClosedCalls, resRest
  <2> QED
    BY <2>1 DEF Advances
<1> QED
  BY <1>1, <1>2, <1>3, <1>4, <1>5 DEF Completion, Settlement

\* The batches other than g's are empty while g works for a pending call.
LEMMA OthersEmpty ==
  ASSUME Base, NEW g \in Procs, Owner(g)
  PROVE  \A h \in Procs \ {g} : batch[h] = <<>>
BY BatchAlone

\* Draining, applying, dropping and settling keep the mailbox and the batches
\* in order.
LEMMA PostedStep ==
  ASSUME Base, Mail, NEW g \in Procs, Completion(g)
  PROVE  Posted'
<1>a. Types /\ Posted /\ Known /\ mailbox \in Seq(AsyncCalls)
  BY DEF Base, Types, Mail
<1>b. /\ Elems(mailbox) \subseteq AsyncCalls
      /\ \A h \in Procs : Elems(batch[h]) \subseteq AsyncCalls /\ batch[h] \in Seq(AsyncCalls)
  BY <1>a DEF Types, Elems
<1>1. CASE Settlement
  BY <1>1, PostedSettles
<1>2. CASE Takes(g)
  <2>1. Owner(g) /\ pc[g] = "drain"
    BY <1>2, Labelled DEF Takes, Owner, Begun, Base
  <2>2. \A h \in Procs \ {g} : batch[h] = <<>>
    BY <2>1, OthersEmpty
  <2>3. batch'[g] = mailbox /\ mailbox' = <<>> /\ state' = state /\ \A h \in Procs \ {g} : batch'[h] = <<>>
    BY <1>2, <1>a, <2>2 DEF Takes, Types
  <2>4. \A h \in Procs : /\ Once(batch'[h])
                         /\ \A a \in Elems(batch'[h]) : state'[a] = "queued" /\ a \notin Elems(mailbox')
    BY <2>3, <1>a, EmptyElems DEF Posted
  <2> QED
    BY <2>3, <2>4, EmptyElems DEF Posted, Elems, Once
<1>3. CASE Applies(g)
  <2> DEFINE b == Head(batch[g])
             r == Tail(batch[g])
  <2>1. pc[g] = "apply" /\ Owner(g) /\ batch[g] # <<>>
    BY <1>3, Labelled DEF Applies, Owner, Begun, Base, Local, LocalOf
  <2>2. b \in AsyncCalls /\ r \in Seq(AsyncCalls) /\ Elems(batch[g]) = Elems(r) \cup {b}
        /\ Once(r) /\ b \notin Elems(r) /\ b \in Elems(batch[g])
    BY <2>1, <1>a, <1>b, TailFacts DEF Posted
  <2>3. /\ state' = [state EXCEPT ![b] = "applied"] /\ batch' = [batch EXCEPT ![g] = r] /\ mailbox' = mailbox
    BY <1>3 DEF Applies, SetsApplied
  <2> HIDE DEF b, r
  <2>4. /\ \A a \in AsyncCalls : a # b => state'[a] = state[a]
        /\ batch'[g] = r /\ \A h \in Procs \ {g} : batch'[h] = <<>>
    BY <2>1, <2>3, <1>a, OthersEmpty DEF Types
  <2>5. b \notin Elems(mailbox)
    BY <2>2, <1>a DEF Posted
  <2>6. \A h \in Procs : /\ Once(batch'[h])
                         /\ \A a \in Elems(batch'[h]) : state'[a] = "queued" /\ a \notin Elems(mailbox)
    BY <2>2, <2>4, <1>a, <1>b, EmptyElems DEF Posted
  <2>7. \A a \in Elems(mailbox) : state'[a] = "queued"
    BY <2>4, <2>5, <1>a, <1>b DEF Posted
  <2>8. (\A a \in Elems(mailbox) : state[a] = "queued")' /\ Once(mailbox)'
    BY <2>3, <2>7, <1>a DEF Posted, Elems, Once
  <2>9. (\A h \in Procs : Once(batch[h]))'
    BY <2>6 DEF Once
  <2>10. (\A h \in Procs : \A a \in Elems(batch[h]) : state[a] = "queued" /\ a \notin Elems(mailbox))'
    BY <2>3, <2>6 DEF Elems
  <2> QED
    BY <2>8, <2>9, <2>10 DEF Posted
<1>4. CASE Drops(g)
  <2>1. pc[g] = "apply" /\ Owner(g)
    BY <1>4, Labelled DEF Drops, Owner, Begun, Base
  <2>2. mailbox' = mailbox /\ state' = state /\ \A h \in Procs : batch'[h] = <<>>
    BY <1>4, <2>1, <1>a, OthersEmpty DEF Drops, Types
  <2> QED
    BY <2>2, <1>a, EmptyElems DEF Posted
<1>5. CASE Clears(g)
  BY <1>5, <1>a, EmptyElems DEF Clears, Posted
<1>6. CASE GuestImports(g)
  <2>1. PICK b \in AsyncCalls : owner[b] = NoTask /\ (state' = state \/ state' = [state EXCEPT ![b] = "closed"])
    BY <1>6 DEF GuestImports
  <2>2. mailbox' = mailbox /\ batch' = batch
    BY <1>6 DEF GuestImports, instVars
  <2>3. b \notin Elems(mailbox) /\ \A h \in Procs : b \notin Elems(batch[h])
    BY <2>1, <1>a DEF Known, Made
  <2>4. \A a \in AsyncCalls : a # b => state'[a] = state[a]
    BY <2>1, <1>a DEF Types
  <2> QED
    BY <2>2, <2>3, <2>4, <1>a, <1>b DEF Posted
<1>7. CASE FinishAsync(g)
  <2>1. pc[g] = "finish" /\ Owner(g) /\ pending = on[g]
    BY <1>7, Labelled, PumpsPending DEF FinishAsync, Base, Begun
  <2>2. mailbox' = <<>> /\ batch' = batch
    BY <1>7, <2>1 DEF FinishAsync, goRest
  <2>3. \A h \in Procs : batch[h] = <<>>
    BY <2>1, BatchAlone
  <2> QED
    BY <2>2, <2>3, EmptyElems DEF Posted
<1> QED
  BY <1>1, <1>2, <1>3, <1>4, <1>5, <1>6, <1>7 DEF Completion, Settlement

\* What becomes the pending call, and when it ends.
LEMMA PendingChanges ==
  ASSUME NEW g \in Procs, Step(g)
  PROVE  /\ pending' = pending \/ Publish(g) \/ FinishAsync(g)
         /\ closed' = closed \/ FinishAsync(g)
         /\ lease' = lease \/ TryLock(g) \/ ReleasePendingLease(g)
<1> USE DEF goRest, goVars, goAim, instVars, instRest, instCtl, pendVars, pendRest, schedVars, schedTasks,
            resVars, resRest, acVars
<1>1. CASE Embedder(g)
  BY <1>1 DEF Embedder, Begin, BeginCallAsync, BeginAwait, BeginCancel, BeginClose, BeginCall,
     ContextEnds
<1>2. CASE GuestOrHost(g)
  BY <1>2 DEF GuestOrHost, HostReturns, HostDefers, GuestSignals, GuestWaits, GuestExits,
     HostResolves, GuestTraps, Fails, GuestImports
<1>3. CASE Runtime(g)
  <2>1. ResumeReady(g) \/ DriveEnds(g) \/ Activate(g) \/ Reap(g) \/ CloseReap(g) \/ ApplyOne(g) \/ ApplyFails(g)
          \/ DrainMailbox(g) \/ RunThunk(g) => UNCHANGED <<pending, closed, lease>>
    BY DEF ResumeReady, DriveEnds, Activate, Reap, CloseReap, ApplyOne, ApplyFails, Fails, DrainMailbox, RunThunk
  <2>2. ClaimUnshared(g) \/ ReleaseDriver(g) \/ ClaimDriver(g) \/ AwaitWaits(g) \/ Watcher(g)
          \/ Cancel(g) \/ CancelReturns(g) \/ CloseTable(g) \/ Unlock(g) => UNCHANGED <<pending, closed, lease>>
    BY DEF ClaimUnshared, ReleaseDriver, ClaimDriver, AwaitWaits, Watcher, Cancel, CancelReturns, CloseTable, Unlock
  <2>3. /\ Publish(g) => UNCHANGED <<closed, lease>>
        /\ FinishAsync(g) => lease' = lease
        /\ TryLock(g) \/ ReleasePendingLease(g) => UNCHANGED <<pending, closed>>
    BY DEF Publish, TryLock, ReleasePendingLease, FinishAsync
  <2> QED
    BY <1>3, <2>1, <2>2, <2>3 DEF Runtime
<1>4. CASE Locks(g)
  BY <1>4 DEF Locks, LockClose, LockCall
<1> QED
  BY <1>1, <1>2, <1>3, <1>4 DEF Step

\* The mailbox holds completions only while a call is pending.
LEMMA MailStep ==
  ASSUME Base, Mail, NEW g \in Procs, Step(g)
  PROVE  Mail'
<1>a. Types /\ Completion(g)
  BY CompletionStep DEF Base
<1>1. Posted'
  BY <1>a, PostedStep
<1>2. mailbox' # <<>> => pending' # NoTask
  <2>1. CASE Publish(g)
    BY <2>1, <1>a, OnCall DEF Publish, Base
  <2>2. CASE FinishAsync(g)
    <3>1. pending = on[g]
      BY <2>2, Labelled, PumpsPending DEF FinishAsync, Base, Begun
    <3> QED
      BY <2>2, <3>1 DEF FinishAsync
  <2>3. CASE pending' = pending /\ ~FinishAsync(g)
    <3>1. mailbox' = mailbox \/ mailbox' = <<>> \/ pending # NoTask
      <4>1. (\E a \in AsyncCalls : Accepts(a)) => mailbox' = mailbox \/ pending # NoTask
        BY AcceptCases DEF Accepts
      <4> QED
        BY <2>3, <4>1, <1>a DEF Completion, Leaves, Resolves, Takes, Applies, Drops,
           Clears, GuestImports, instVars
    <3> QED
      BY <2>3, <3>1 DEF Mail
  <2> QED
    BY <2>1, <2>2, <2>3, PendingChanges
<1> QED
  BY <1>1, <1>2 DEF Mail

\* The calls a pending call has registered.
LEMMA CallsGrow ==
  ASSUME Base, NEW g \in Procs, Completion(g), NEW t \in Tasks
  PROVE  \/ calls'[t] = calls[t]
         \/ /\ GuestImports(g) /\ closed[t] = FALSE /\ lease[t] = TRUE
            /\ \E b \in AsyncCalls : owner[b] = NoTask /\ calls'[t] = calls[t] \cup {b}
<1>a. Types
  BY DEF Base
<1>1. CASE GuestImports(g)
  <2>1. PICK b \in AsyncCalls :
          /\ owner[b] = NoTask
          /\ \/ calls' = calls
             \/ pending # NoTask /\ calls' = [calls EXCEPT ![pending] = @ \cup {b}]
    BY <1>1 DEF GuestImports
  <2>2. calls \in [Tasks -> SUBSET AsyncCalls] /\ (pending # NoTask => pending \in Tasks)
    BY <1>a DEF Types
  <2>3. calls'[t] = calls[t] \/ (t = pending /\ calls'[t] = calls[t] \cup {b})
    BY <2>1, <2>2
  <2>4. t = pending => lease[t] = TRUE /\ closed[t] = FALSE
    BY <1>a DEF Base, Types, Control, Settling
  <2> QED
    BY <1>1, <2>1, <2>3, <2>4
<1>2. CASE calls' = calls
  BY <1>2
<1> QED
  BY <1>1, <1>2 DEF Completion, Leaves, Accepts, Resolves, Takes, Applies, Drops, Clears,
     FinishAsync, pendRest

\* A call that holds the lease or has settled does so after every step.
LEMMA HeldOrSettled ==
  ASSUME Base, NEW g \in Procs, Step(g), NEW t \in Tasks, lease[t] \/ closed[t]
  PROVE  lease'[t] \/ closed'[t]
<1>a. Types
  BY DEF Base
<1>1. CASE TryLock(g)
  <2>1. closed' = closed /\ (lease' = lease \/ lease' = [lease EXCEPT ![on[g]] = TRUE])
    BY <1>1 DEF TryLock
  <2>2. lease'[t] = lease[t] \/ lease'[t] = TRUE
    BY <2>1, <1>a DEF Types
  <2> QED
    BY <2>1, <2>2
<1>2. CASE ReleasePendingLease(g)
  <2>1. Settles(g) /\ Owner(g) /\ on[g] \in Tasks
    <3>1. op[g] # "call" /\ pc[g] = "unlease"
      BY <1>2, Labelled DEF Base, ReleasePendingLease
    <3> QED
      BY <3>1, OnCall DEF Base, Settles, Owner, Begun
  <2>2. closed[on[g]]
    BY <2>1 DEF Base, Control, Settling
  <2>3. closed' = closed /\ lease' = [lease EXCEPT ![on[g]] = FALSE]
    BY <1>2 DEF ReleasePendingLease, LeaseReset
  <2> QED
    BY <2>1, <2>2, <2>3, <1>a DEF Types
<1>3. CASE FinishAsync(g)
  <2>1. lease' = lease /\ closed' = [closed EXCEPT ![on[g]] = TRUE]
    BY <1>3 DEF FinishAsync
  <2> QED
    BY <2>1, <1>a DEF Types
<1>4. CASE lease' = lease /\ closed' = closed
  BY <1>4
<1> QED
  BY <1>1, <1>2, <1>3, <1>4, PendingChanges DEF TryLock

\* A completion is applied once, and never after its call has settled.
LEMMA ApplyingStep ==
  ASSUME Base, Mail, Applying, NEW g \in Procs, Step(g)
  PROVE  Applying'
<1>a. Types /\ Completion(g) /\ \A a \in AsyncCalls : Advances(a)
  BY CompletionStep, CompletionAdvances DEF Base
<1>1. \A a \in AsyncCalls : applied'[a] <= 1 /\ (state'[a] \in {"open", "queued"} => applied'[a] = 0)
  <2> SUFFICES ASSUME NEW a \in AsyncCalls
               PROVE  applied'[a] <= 1 /\ (state'[a] \in {"open", "queued"} => applied'[a] = 0)
    OBVIOUS
  <2>1. applied[a] <= 1 /\ (state[a] \in {"open", "queued"} => applied[a] = 0) /\ applied[a] \in Nat
    BY <1>a DEF Applying, Types
  <2>2. Advances(a)
    BY <1>a
  <2> QED
    BY <2>1, <2>2 DEF Advances
<1>2. \A t \in Tasks : calls'[t] # {} => lease'[t] \/ closed'[t]
  <2> SUFFICES ASSUME NEW t \in Tasks, calls'[t] # {} PROVE lease'[t] \/ closed'[t]
    OBVIOUS
  <2>1. lease[t] \/ closed[t]
    BY <1>a, CallsGrow DEF Applying
  <2> QED
    BY <2>1, HeldOrSettled
<1>3. \A t \in Tasks : \A a \in calls'[t] : closed'[t] => state'[a] \in {"applied", "closed"}
  <2> SUFFICES ASSUME NEW t \in Tasks, NEW a \in calls'[t], closed'[t]
               PROVE  state'[a] \in {"applied", "closed"}
    OBVIOUS
  <2>1. CASE FinishAsync(g) /\ t = on[g]
    <3>1. closed[t] = FALSE /\ state' = ClosedCalls(t) /\ calls' = calls
      BY <2>1, Labelled, PumpsOpen DEF FinishAsync, Base, Begun, pendRest
    <3>2. a \in calls[t] /\ a \in AsyncCalls
      BY <3>1, <1>a DEF Types
    <3> QED
      BY <3>1, <3>2, <1>a DEF ClosedCalls, Types
  <2>2. CASE closed'[t] = closed[t]
    <3>1. calls'[t] = calls[t]
      BY <2>2, <1>a, CallsGrow
    <3>2. a \in AsyncCalls /\ state[a] \in {"applied", "closed"}
      BY <2>2, <3>1, <1>a DEF Applying, Types
    <3>3. Advances(a)
      BY <3>2, <1>a
    <3> QED
      BY <3>2, <3>3 DEF Advances
  <2>3. FinishAsync(g) => on[g] \in Tasks /\ closed' = [closed EXCEPT ![on[g]] = TRUE]
    BY <1>a, OnCall DEF FinishAsync, Base
  <2> QED
    BY ZenonT(60), <2>1, <2>2, <2>3, <1>a, PendingChanges DEF Types
<1> QED
  BY <1>1, <1>2, <1>3 DEF Applying

\* The goroutine that is to settle a call settles it.
LEMMA FinishNext ==
  ASSUME Types, NEW g \in Procs, Step(g), pc[g] = "finish"
  PROVE  FinishAsync(g) \/ (pc'[g] = "finish" /\ on'[g] = on[g])
<1> USE DEF goRest, goVars, goAim
<1>1. CASE Embedder(g)
  <2>1. ContextEnds(g)
    BY <1>1 DEF Embedder, Begin, BeginCallAsync, BeginAwait, BeginCancel, BeginClose, BeginCall
  <2> QED
    BY <2>1 DEF ContextEnds
<1>2. CASE GuestOrHost(g)
  BY <1>2 DEF GuestOrHost, HostReturns, HostDefers, GuestSignals, GuestWaits, GuestExits,
     HostResolves, GuestTraps,
              GuestImports, GuestRuns
<1>3. CASE Runtime(g)
  <2>1. Watcher(g) \/ FinishAsync(g)
    BY <1>3 DEF Runtime, ResumeReady, DriveEnds, Activate, Reap, CloseReap, ApplyOne, ApplyFails,
     DrainMailbox, RunThunk, ClaimUnshared, ReleaseDriver, ClaimDriver, AwaitWaits,
     Cancel, CancelReturns, CloseTable, Unlock, Publish, TryLock, ReleasePendingLease
  <2>2. Watcher(g) => pc'[g] = pc[g] /\ on' = on
    BY DEF Watcher, Types
  <2> QED
    BY <2>1, <2>2
<1>4. CASE Locks(g)
  BY <1>4 DEF Locks, LockClose, LockCall
<1> QED
  BY <1>1, <1>2, <1>3, <1>4 DEF Step

\* An accepted completion of a pending call stays within the driver's reach.
LEMMA RegisteredStep ==
  ASSUME Base, Mail, Applying, Registered, NEW g \in Procs, Step(g)
  PROVE  Registered'
<1>a. Types /\ Completion(g) /\ \A a \in AsyncCalls : Advances(a)
  BY CompletionStep, CompletionAdvances DEF Base
<1> SUFFICES ASSUME NEW t \in Tasks, NEW a \in calls'[t], state'[a] = "queued"
             PROVE  \/ a \in Elems(mailbox')
                    \/ \E h \in Procs : a \in Elems(batch'[h])
                    \/ \E h \in Procs : pc'[h] = "finish" /\ a \in calls'[on'[h]]
  BY DEF Registered, Reachable, Elems
<1>b. a \in AsyncCalls
  <2>1. calls'[t] \subseteq AsyncCalls
    <3>1. calls[t] \subseteq AsyncCalls
      BY <1>a DEF Types
    <3>2. calls'[t] = calls[t] \/ \E b \in AsyncCalls : calls'[t] = calls[t] \cup {b}
      BY <1>a, CallsGrow
    <3> QED
      BY <3>1, <3>2
  <2> QED
    BY <2>1
<1>1. a \in Elems(mailbox') \/ state[a] = "queued"
  BY <1>a, <1>b DEF Advances
<1> SUFFICES ASSUME state[a] = "queued", a \notin Elems(mailbox')
             PROVE  \/ \E h \in Procs : a \in Elems(batch'[h])
                    \/ \E h \in Procs : pc'[h] = "finish" /\ a \in calls'[on'[h]]
  BY <1>1
<1>2. a \in calls[t]
  <2>1. owner[a] # NoTask
    BY <1>b DEF Base, Known, Made
  <2> QED
    <3>1. calls'[t] = calls[t] \/ \E b \in AsyncCalls : owner[b] = NoTask /\ calls'[t] = calls[t] \cup {b}
      BY <1>a, CallsGrow
    <3> QED
      BY <2>1, <3>1
<1>3. lease[t] /\ closed[t] = FALSE /\ Reachable(a)
  BY ZenonT(60), <1>2, <1>a DEF Applying, Registered, Types
<1>4. ~(FinishAsync(g) /\ t = on[g])
  <2> SUFFICES ASSUME FinishAsync(g), t = on[g] PROVE FALSE
    OBVIOUS
  <2>1. state' = ClosedCalls(t)
    BY DEF FinishAsync
  <2> QED
    BY <2>1, <1>2, <1>3, <1>b DEF ClosedCalls
<1>5. \A h \in Procs : Owner(h) => on[h] = t
  BY <1>3, OnCall DEF Base, Control, OneHolder
<1>6. CASE a \in Elems(mailbox)
  <2>1. ~FinishAsync(g)
    <3>1. FinishAsync(g) => Owner(g)
      BY Labelled DEF FinishAsync, Owner, Begun, Base
    <3> QED
      BY <3>1, <1>4, <1>5
  <2>2. ~Clears(g)
    <3>1. mailbox # <<>>
      BY <1>6, EmptyElems
    <3> QED
      BY <3>1, NonePending DEF Clears, Mail
  <2>3. CASE Takes(g)
    BY <2>3, <1>6, <1>a DEF Takes, Types
  <2>4. CASE \E b \in AsyncCalls : Accepts(b)
    <3>1. PICK b \in AsyncCalls : Accepts(b)
      BY <2>4
    <3>2. mailbox' = mailbox \/ mailbox' = Append(mailbox, b)
      BY <3>1, AcceptCases DEF Accepts
    <3>3. Elems(Append(mailbox, b)) = Elems(mailbox) \cup {b}
      BY <1>a, ElemsAppend DEF Types
    <3> QED
      BY <1>6, <3>2, <3>3
  <2>5. CASE mailbox' = mailbox
    BY <2>5, <1>6
  <2> QED
    BY <1>a, <2>1, <2>2, <2>3, <2>4, <2>5 DEF Completion, Leaves, Resolves, Applies, Drops,
       GuestImports, instVars
<1>7. CASE \E h \in Procs : a \in Elems(batch[h])
  <2>1. PICK h \in Procs : a \in Elems(batch[h])
    BY <1>7
  <2>2. batch[h] # <<>>
    BY <2>1, EmptyElems
  <2>3. pc[h] = "apply" /\ Owner(h) /\ on[h] = t
    BY <2>2, BatchAlone, <1>5
  <2>4. CASE h # g
    <3>1. batch'[h] = batch[h]
      BY <2>4, OthersStay DEF KeepsLocal
    <3> QED
      BY <3>1, <2>1
  <2>5. CASE h = g /\ Applies(g)
    <3>1. Elems(batch[g]) = Elems(Tail(batch[g])) \cup {Head(batch[g])} /\ Head(batch[g]) \in AsyncCalls
      BY <2>3, <2>5, AtWork
    <3>2. a # Head(batch[g])
      BY <2>5, <3>1, <1>a DEF Applies, SetsApplied, Types
    <3>3. batch'[g] = Tail(batch[g])
      BY <2>5, <1>a DEF Applies, Types
    <3> QED
      BY <2>1, <2>5, <3>1, <3>2, <3>3
  <2>6. CASE h = g /\ Drops(g)
    <3>1. pc'[g] = "finish" /\ on' = on /\ calls' = calls
      BY <2>6 DEF Drops
    <3> QED
      BY <2>3, <2>6, <3>1, <1>2
  <2>7. CASE batch' = batch
    BY <2>7, <2>1
  <2>8. h = g => Applies(g) \/ Drops(g) \/ batch' = batch
    BY <2>3, <1>a DEF Completion, Leaves, Accepts, Resolves, Takes, Clears, GuestImports,
       FinishAsync, goRest
  <2> QED
    BY <2>4, <2>5, <2>6, <2>7, <2>8
<1>8. CASE \E h \in Procs : pc[h] = "finish" /\ a \in calls[on[h]]
  <2>1. PICK h \in Procs : pc[h] = "finish" /\ a \in calls[on[h]]
    BY <1>8
  <2>2. Owner(h) /\ on[h] = t
    BY <2>1, Labelled, <1>5 DEF Owner, Begun, Base
  <2>3. pc'[h] = "finish" /\ on'[h] = on[h]
    <3>1. CASE h # g
      BY <3>1, <2>1, OthersStay DEF KeepsLocal
    <3>2. CASE h = g
      BY <3>2, <2>1, <2>2, <1>4, <1>a, FinishNext
    <3> QED
      BY <3>1, <3>2
  <2> QED
    BY <2>2, <2>3
<1> QED
  BY <1>3, <1>6, <1>7, <1>8 DEF Reachable

\* Without synchronous calls every import registers its AsyncCall.
LEMMA AllRegisteredStep ==
  ASSUME Base, AllRegistered, NEW g \in Procs, Step(g)
  PROVE  AllRegistered'
<1> SUFFICES ASSUME SyncTasks = {}
             PROVE  /\ \A h \in Procs : op'[h] # "call"
                    /\ \A a \in AsyncCalls : owner'[a] # NoTask => \E t \in Tasks : a \in calls'[t]
  BY DEF AllRegistered, Made
<1>a. Types /\ Completion(g) /\ \A h \in Procs : op[h] # "call"
  BY CompletionStep DEF Base, AllRegistered
<1>b. \A a \in AsyncCalls : owner[a] # NoTask => \E t \in Tasks : a \in calls[t]
  BY DEF AllRegistered, Made
<1>1. \A h \in Procs : op'[h] # "call"
  <2>1. op' = op \/ \E o \in {"callasync", "await", "cancel", "close"} : op' = [op EXCEPT ![g] = o]
    <3> USE DEF goRest, goVars, goAim
    <3>1. CASE Embedder(g)
      BY <3>1 DEF Embedder, Begin, BeginCallAsync, BeginAwait, BeginCancel, BeginClose,
         BeginCall, ContextEnds
    <3>2. CASE GuestOrHost(g)
      BY <3>2 DEF GuestOrHost, HostReturns, HostDefers, GuestSignals, GuestWaits,
         GuestExits, HostResolves, GuestTraps, Fails, GuestImports
    <3>3. CASE Runtime(g)
      BY <3>3 DEF Runtime, ResumeReady, DriveEnds, Activate, Reap, CloseReap, ApplyOne,
         ApplyFails, Fails,
         DrainMailbox, RunThunk, ClaimUnshared, ReleaseDriver, ClaimDriver, AwaitWaits, Watcher,
         Cancel, CancelReturns, CloseTable, Unlock, Publish, TryLock, ReleasePendingLease, FinishAsync
    <3>4. CASE Locks(g)
      BY <3>4 DEF Locks, LockClose, LockCall
    <3> QED
      BY <3>1, <3>2, <3>3, <3>4 DEF Step
  <2> QED
    BY <2>1, <1>a DEF Types
<1>2. \A a \in AsyncCalls : owner'[a] # NoTask => \E t \in Tasks : a \in calls'[t]
  <2>1. CASE GuestImports(g)
    <3>1. PICK b \in AsyncCalls :
            /\ owner' = [owner EXCEPT ![b] = run[g]]
            /\ asyncActive /\ pending # NoTask /\ ~closed[pending] =>
                 calls' = [calls EXCEPT ![pending] = @ \cup {b}]
      BY <2>1 DEF GuestImports
    <3>2. /\ pc[g] \in Begun \ {"publish", "activate", "reap", "unlease"} /\ op[g] # "call"
      BY <2>1, <1>a DEF GuestImports, GuestRuns, Begun
    <3>3. pending = on[g] /\ on[g] \in Tasks /\ asyncActive /\ closed[on[g]] = FALSE
      BY <3>2, PumpsPending, PumpsOpen
    <3>4. calls \in [Tasks -> SUBSET AsyncCalls] /\ calls' = [calls EXCEPT ![pending] = @ \cup {b}]
      BY <3>1, <3>3, <1>a DEF Types
    <3>5. b \in calls'[pending] /\ \A t \in Tasks : calls[t] \subseteq calls'[t]
      BY <3>3, <3>4
    <3>6. \A a \in AsyncCalls : owner'[a] # NoTask => owner[a] # NoTask \/ a = b
      BY <3>1, <1>a DEF Types
    <3> QED
      BY <3>3, <3>5, <3>6, <1>b
  <2>2. CASE ~GuestImports(g)
    <3>1. owner' = owner /\ calls' = calls
      BY <2>2, <1>a DEF Completion, Leaves, Accepts, Resolves, Takes, Applies, Drops,
         Clears, FinishAsync, pendRest, resRest
    <3> QED
      BY <3>1, <1>b
  <2> QED
    BY <2>1, <2>2
<1> QED
  BY <1>1, <1>2

\* Who changes what a sleeper looks at wakes it.
LEMMA Wakes ==
  ASSUME Base, NEW g \in Procs, Step(g), NEW h \in Procs \ {g}, pc'[h] = "asleep"
  PROVE  /\ mailbox' = mailbox \/ mailbox' = <<>>
         /\ closed' = closed /\ cancelRequested' = cancelRequested
         /\ on'[h] = on[h] /\ ctx'[h] = ctx[h]
<1> USE DEF goRest, goVars, goAim, instVars, instRest, instCtl, pendVars, pendRest, schedVars, schedTasks,
            resVars, resRest, acVars
<1>a. Types /\ KeepsLocal(h)
  BY OthersStay DEF Base
<1>b. pc[h] = "asleep" /\ on'[h] = on[h]
  BY <1>a DEF KeepsLocal
<1>c. ~Signal /\ \A l : ~Broadcast(g, l)
  BY <1>a, Moves, <1>b
<1>1. mailbox' = mailbox \/ mailbox' = <<>>
  <2>1. Completion(g)
    BY CompletionStep
  <2>2. (\E a \in AsyncCalls : Accepts(a)) => mailbox' = mailbox
    BY <1>c, AcceptCases DEF Accepts
  <2> QED
    BY <2>1, <2>2 DEF Completion, Leaves, Resolves, Takes, Applies, Drops, Clears,
       GuestImports, FinishAsync
<1>2. closed' = closed
  BY <1>c, PendingChanges DEF FinishAsync
<1>3. cancelRequested' = cancelRequested
  <2>1. CASE Embedder(g)
    BY <2>1 DEF Embedder, Begin, BeginCallAsync, BeginAwait, BeginCancel, BeginClose,
       BeginCall, ContextEnds
  <2>2. CASE GuestOrHost(g)
    BY <2>2 DEF GuestOrHost, HostReturns, HostDefers, GuestSignals, GuestWaits, GuestExits,
       HostResolves, GuestTraps, Fails, GuestImports
  <2>3. CASE Runtime(g)
    <3>1. Cancel(g) => cancelRequested' = cancelRequested
      BY <1>c DEF Cancel, TellDriver
    <3> QED
      BY <2>3, <3>1 DEF Runtime, ResumeReady, DriveEnds, Activate, Reap, CloseReap,
         ApplyOne, ApplyFails, Fails,
         DrainMailbox, RunThunk, ClaimUnshared, ReleaseDriver, ClaimDriver, AwaitWaits, Watcher,
         CancelReturns, CloseTable, Unlock, Publish, TryLock, ReleasePendingLease, FinishAsync
  <2>4. CASE Locks(g)
    BY <2>4 DEF Locks, LockClose, LockCall
  <2> QED
    BY <2>1, <2>2, <2>3, <2>4 DEF Step
<1>4. ctx'[h] = ctx[h]
  <2>1. ctx' = ctx \/ \E c : ctx' = [ctx EXCEPT ![g] = c]
    <3>1. CASE Embedder(g)
      BY <3>1 DEF Embedder, Begin, BeginCallAsync, BeginAwait, BeginCancel, BeginClose,
         BeginCall, ContextEnds
    <3>2. CASE GuestOrHost(g)
      BY <3>2 DEF GuestOrHost, HostReturns, HostDefers, GuestSignals, GuestWaits,
         GuestExits, HostResolves, GuestTraps, Fails, GuestImports
    <3>3. CASE Runtime(g)
      BY <3>3 DEF Runtime, ResumeReady, DriveEnds, Activate, Reap, CloseReap, ApplyOne,
         ApplyFails, Fails,
         DrainMailbox, RunThunk, ClaimUnshared, ReleaseDriver, ClaimDriver, AwaitWaits, Watcher,
         Cancel, CancelReturns, CloseTable, Unlock, Publish, TryLock, ReleasePendingLease, FinishAsync
    <3>4. CASE Locks(g)
      BY <3>4 DEF Locks, LockClose, LockCall
    <3> QED
      BY <3>1, <3>2, <3>3, <3>4 DEF Step
  <2> QED
    BY <2>1, <1>a DEF Types
<1> QED
  BY <1>1, <1>2, <1>3, <1>4, <1>b

\* Nobody sleeps over something to do.
LEMMA AsleepStep ==
  ASSUME Base, Asleep, NEW g \in Procs, Step(g)
  PROVE  Asleep'
<1>a. Types
  BY DEF Base
<1> SUFFICES ASSUME NEW h \in Procs, pc'[h] = "asleep" PROVE NothingToDo(h)' \/ ctx'[h] = "done"
  BY DEF Asleep, NothingToDo
<1>1. CASE h # g
  <2>1. /\ mailbox' = mailbox \/ mailbox' = <<>>
        /\ closed' = closed /\ cancelRequested' = cancelRequested
        /\ on'[h] = on[h] /\ ctx'[h] = ctx[h]
    BY <1>1, Wakes
  <2>2. pc[h] = "asleep"
    BY <1>1, OthersStay DEF KeepsLocal
  <2> QED
    BY <2>1, <2>2 DEF Asleep, NothingToDo
<1>2. CASE h = g
  <2>1. AwaitWaits(g) \/ ContextEnds(g) \/ (pc[g] = "asleep" /\ Watcher(g))
    <3> USE DEF goRest, goVars, goAim
    <3>1. CASE Embedder(g)
      BY <3>1, <1>2, <1>a, Moves DEF Embedder, Begin, BeginCallAsync, BeginAwait,
         BeginCancel, BeginClose, BeginCall
    <3>2. CASE GuestOrHost(g)
      <4>1. pc[g] \in {"start", "resume", "hostfn"}
        BY <3>2 DEF GuestOrHost, HostReturns, HostDefers, GuestSignals, GuestWaits,
           GuestExits, HostResolves, GuestTraps, GuestImports, GuestRuns
      <4>2. \/ pc' = pc \/ Signal
            \/ \E l \in {"hostfn", "drain", "start", "resume", "claim", "drive", "reap", "finish"} : Goto(g, l)
        <5>1. pc[g] = "hostfn" => ret[g] \in {"start", "resume"}
          BY <1>a DEF Base, Local, LocalOf, Types
        <5> QED
          BY <3>2, <5>1 DEF GuestOrHost, HostReturns, HostDefers, GuestSignals,
             GuestWaits, GuestExits, HostResolves, GuestTraps, GuestImports,
             Fails, AfterGuest, QueueExternalCompletion
      <4> QED
        BY <4>1, <4>2, <1>2, <1>a, Moves
    <3>3. CASE Runtime(g)
      <4>1. ret[g] # "asleep"
        BY <1>a DEF Types
      <4>2. \/ pc[g] # "asleep" /\ (pc' = pc \/ Signal)
            \/ \E l : l # "asleep" /\ (Goto(g, l) \/ Broadcast(g, l))
            \/ AwaitWaits(g) \/ (pc[g] = "asleep" /\ Watcher(g)) \/ (pc[g] # "asleep" /\ Watcher(g))
        <5>1. ResumeReady(g) \/ DriveEnds(g) \/ Activate(g) \/ Reap(g) \/ CloseReap(g) \/ ApplyOne(g) \/ ApplyFails(g)
                \/ DrainMailbox(g) \/ RunThunk(g) =>
              \/ pc[g] # "asleep" /\ (pc' = pc \/ Signal)
              \/ \E l : l # "asleep" /\ (Goto(g, l) \/ Broadcast(g, l))
          BY <4>1 DEF ResumeReady, DriveEnds, Activate, Reap, CloseReap, ApplyOne,
             ApplyFails, Fails, DrainMailbox, RunThunk,
             QueueExternalCompletion
        <5>2. ClaimUnshared(g) \/ ReleaseDriver(g) \/ ClaimDriver(g) \/ Cancel(g) \/ CancelReturns(g) \/ CloseTable(g) \/ Unlock(g)
                \/ Publish(g) \/ FinishAsync(g) \/ TryLock(g) \/ ReleasePendingLease(g) =>
              \E l : l # "asleep" /\ (Goto(g, l) \/ Broadcast(g, l))
          BY DEF ClaimUnshared, ReleaseDriver, ClaimDriver, Cancel, CancelReturns, CloseTable, Unlock, AfterCancel, TellDriver,
             Publish, TryLock, ReleasePendingLease, FinishAsync
        <5> QED
          BY <3>3, <5>1, <5>2 DEF Runtime
      <4>3. Watcher(g) => pc[g] = "asleep" \/ pc'[g] # "asleep"
        BY <1>a DEF Watcher, Types
      <4> QED
        BY <4>2, <4>3, <1>2, <1>a, Moves
    <3>4. CASE Locks(g)
      BY <3>4, <1>2, <1>a, Moves DEF Locks, LockClose, LockCall
    <3> QED
      BY <3>1, <3>2, <3>3, <3>4 DEF Step
  <2>2. CASE AwaitWaits(g)
    <3>1. NothingToDo(g)
      BY <2>2, <1>2, <1>a DEF AwaitWaits, Goto, Types
    <3>2. UNCHANGED <<mailbox, closed, cancelRequested, on, ctx>>
      BY <2>2 DEF AwaitWaits, goAim, instVars, pendVars
    <3> QED
      BY <3>1, <3>2, <1>2 DEF NothingToDo
  <2>3. CASE ContextEnds(g)
    BY <2>3, <1>2, <1>a DEF ContextEnds, Types
  <2>4. Watcher(g) => pc'[g] # "asleep" 
    BY <1>a DEF Watcher, Types
  <2> QED
    BY <2>1, <2>2, <2>3, <2>4, <1>2
<1> QED
  BY <1>1, <1>2

\* A host goroutine that resolves keeps the facts about completions.
LEMMA ResolverInv ==
  ASSUME Inv, NEW c \in Completers, Resolver(c)
  PROVE  Inv'
<1> USE DEF goRest, pendVars, pendRest, instCtl
<1>a. Base /\ Mail /\ Applying /\ Registered /\ AllRegistered /\ Asleep /\ Types
  BY DEF Inv, Base
<1>b. /\ Settlement
      /\ UNCHANGED <<goRest, locked, pending, asyncActive, instCtl, pendVars, schedTasks, signals, owner>>
      /\ Signal \/ pc' = pc
  BY <1>a, ResolverCompletion
<1>c. \A a \in AsyncCalls : Advances(a)
  BY <1>a, <1>b, SettlementAdvances
<1>d. \A h \in Procs : pc'[h] = pc[h] \/ (pc[h] = "asleep" /\ pc'[h] = "wait")
  BY <1>a, <1>b, Moves
<1>e. mailbox' = mailbox \/ (pending # NoTask /\ Signal /\ \E b \in AsyncCalls : mailbox' = Append(mailbox, b))
  <2>1. ASSUME NEW a \in AsyncCalls, Accepts(a)
        PROVE  mailbox' = mailbox \/ (pending # NoTask /\ Signal /\ mailbox' = Append(mailbox, a))
    BY <2>1, <1>a, AcceptCases DEF Accepts
  <2> QED
    BY <2>1, <1>b DEF Settlement, Leaves, Resolves
<1>1. Base'
  BY <1>a, ResolverStep
<1>2. Mail'
  BY <1>a, <1>b, <1>e, PostedSettles DEF Mail
<1>3. Applying'
  <2>1. \A a \in AsyncCalls : applied'[a] <= 1 /\ (state'[a] \in {"open", "queued"} => applied'[a] = 0)
    <3> SUFFICES ASSUME NEW a \in AsyncCalls
                 PROVE  applied'[a] <= 1 /\ (state'[a] \in {"open", "queued"} => applied'[a] = 0)
      OBVIOUS
    <3>1. applied[a] <= 1 /\ (state[a] \in {"open", "queued"} => applied[a] = 0) /\ applied[a] \in Nat
      BY <1>a DEF Applying, Types
    <3> QED
      BY <3>1, <1>c DEF Advances
  <2>2. \A t \in Tasks : \A a \in calls[t] : closed[t] => state'[a] \in {"applied", "closed"}
    <3> SUFFICES ASSUME NEW t \in Tasks, NEW a \in calls[t], closed[t]
                 PROVE  state'[a] \in {"applied", "closed"}
      OBVIOUS
    <3>1. a \in AsyncCalls /\ state[a] \in {"applied", "closed"}
      BY <1>a DEF Applying, Types
    <3>2. Advances(a)
      BY <3>1, <1>c
    <3> QED
      BY <3>1, <3>2 DEF Advances
  <2> QED
    BY <2>1, <2>2, <1>a, <1>b DEF Applying
<1>4. Registered'
  <2>0. UNCHANGED <<calls, batch, on>>
    BY <1>b
  <2> SUFFICES ASSUME NEW t \in Tasks, NEW a \in calls[t], state'[a] = "queued"
               PROVE  \/ a \in Elems(mailbox')
                      \/ \E h \in Procs : a \in Elems(batch[h])
                      \/ \E h \in Procs : pc'[h] = "finish" /\ a \in calls[on[h]]
    BY <2>0 DEF Registered, Reachable, Elems
  <2>1. a \in AsyncCalls
    BY <1>a DEF Types
  <2>2. a \in Elems(mailbox') \/ state[a] = "queued"
    BY <2>1, <1>c DEF Advances
  <2>3. Elems(mailbox) \subseteq Elems(mailbox')
    <3>1. \A b \in AsyncCalls : Elems(Append(mailbox, b)) = Elems(mailbox) \cup {b}
      BY <1>a, ElemsAppend DEF Types
    <3> QED
      BY <3>1, <1>e
  <2>4. state[a] = "queued" => Reachable(a)
    BY <1>a DEF Registered
  <2> QED
    BY <2>2, <2>3, <2>4, <1>d DEF Reachable
<1>5. AllRegistered'
  BY <1>a, <1>b DEF AllRegistered, Made
<1>6. Asleep'
  <2> SUFFICES ASSUME NEW h \in Procs, pc'[h] = "asleep" PROVE NothingToDo(h)' \/ ctx'[h] = "done"
    BY DEF Asleep, NothingToDo
  <2>1. pc[h] = "asleep" /\ ~Signal
    BY <1>a, <1>d, Moves
  <2>2. mailbox' = mailbox
    BY <2>1, <1>e
  <2> QED
    BY <2>1, <2>2, <1>a, <1>b DEF Asleep, NothingToDo
<1> QED
  BY <1>1, <1>2, <1>3, <1>4, <1>5, <1>6 DEF Inv

\* The invariant holds before anything was called.
LEMMA InvInit ==
  ASSUME Init PROVE Inv
<1>1. Base
  BY BaseInit
<1>2. mailbox = <<>> /\ \A g \in Procs : batch[g] = <<>> /\ pc[g] = "idle" /\ op[g] = "none"
  BY DEF Init
<1>3. /\ \A a \in AsyncCalls : state[a] = "open" /\ owner[a] = NoTask /\ applied[a] = 0
      /\ \A t \in Tasks : calls[t] = {}
  BY DEF Init
<1>4. Mail
  BY <1>2, EmptyElems DEF Mail, Posted
<1>5. Applying /\ Registered
  BY <1>3 DEF Applying, Registered
<1>6. AllRegistered /\ Asleep
  BY <1>2, <1>3 DEF AllRegistered, Asleep, Made
<1> QED
  BY <1>1, <1>4, <1>5, <1>6 DEF Inv

\* The invariant is about the variables of the specification only.
LEMMA InvStutters ==
  ASSUME Inv, UNCHANGED vars
  PROVE  Inv'
<1> USE DEF vars, goVars, instVars, pendVars, schedVars, acVars
<1>1. Base'
  BY BaseStutters DEF Inv
<1>2. Mail' /\ Applying'
  BY DEF Inv, Mail, Posted, Applying
<1>3. Registered' /\ AllRegistered' /\ Asleep'
  BY DEF Inv, Registered, Reachable, AllRegistered, Made, Asleep, NothingToDo
<1> QED
  BY <1>1, <1>2, <1>3 DEF Inv

\* The invariant is inductive as long as no Close overtakes a CallAsync.
LEMMA InvStep ==
  ASSUME Inv, ~overtaken', [Next]_vars
  PROVE  Inv'
<1>1. CASE UNCHANGED vars
  BY <1>1, InvStutters
<1>2. CASE \E c \in Completers : Resolver(c)
  BY <1>2, ResolverInv
<1>3. CASE \E g \in Procs : Step(g)
  <2>1. PICK g \in Procs : Step(g)
    BY <1>3
  <2>2. Base'
    BY BaseStep DEF Inv
  <2>3. Mail' /\ Applying' /\ Registered' /\ AllRegistered' /\ Asleep'
    BY <2>1, MailStep, ApplyingStep, RegisteredStep, AllRegisteredStep, AsleepStep DEF Inv
  <2> QED
    BY <2>2, <2>3 DEF Inv
<1> QED
  BY <1>1, <1>2, <1>3 DEF Next, Step

-----------------------------------------------------------------------------
(***************************************************************************)
(* The properties.                                                         *)
(***************************************************************************)
\* As many tasks are registered as are parked, since each is registered once.
LEMMA InvTypeOK ==
  ASSUME Inv PROVE TypeOK
<1>1. Types /\ Local /\ Guests
  BY DEF Inv, Base
<1>2. \A g \in Procs : run[g] # NoTask <=> InGuest(g)
  BY <1>1 DEF Local, LocalOf
<1>3. parked \in Seq(Tasks) /\ Once(parked)
  BY <1>1 DEF Types, Guests
<1>4. Elems(parked) = {t \in Tasks : task[t] = "parked"}
  <2>1. Elems(parked) \subseteq Tasks
    BY <1>3 DEF Elems
  <2> QED
    BY <2>1, <1>1 DEF Guests
<1>5. Len(parked) = Cardinality({t \in Tasks : task[t] = "parked"})
  <2>1. Cardinality({parked[i] : i \in DOMAIN parked}) = Len(parked)
    BY <1>3, RangeCardinality DEF Once
  <2> QED
    BY <2>1, <1>4 DEF Elems
<1>6. \A t \in Tasks : task[t] = "parked" => \E i \in DOMAIN parked : parked[i] = t
  BY <1>1 DEF Guests, Elems
<1> QED
  BY <1>1, <1>2, <1>5, <1>6 DEF TypeOK

\* Who executes guest or scheduler code works for the holder of the lease.
LEMMA InvDrives ==
  ASSUME Inv PROVE OneGoroutineDrives
<1>1. \A g \in Procs : pc[g] \in Driving => Owner(g) \/ Framed(g)
  <2> SUFFICES ASSUME NEW g \in Procs, pc[g] \in Driving PROVE Owner(g) \/ Framed(g)
    OBVIOUS
  <2>1. op[g] = "call" => Framed(g)
    BY DEF Framed
  <2>2. op[g] # "call" => Owner(g) \/ Framed(g)
    BY DEF Owner, Framed, Driving, Begun
  <2> QED
    BY <2>1, <2>2
<1> QED
  BY <1>1, Alone DEF Inv, OneGoroutineDrives

\* The holder is a frame or a call, and there is one or none.
LEMMA InvHolder ==
  ASSUME Inv PROVE LeaseHasOneHolder
<1>a. Base /\ OneHolder /\ Types
  BY DEF Inv, Base, Control
<1>1. HeldByFrame = {g \in Procs : Framed(g)}
  BY DEF HeldByFrame, Framed
<1>2. \A g, h \in HeldByFrame : g = h
  BY <1>1, <1>a DEF OneHolder
<1>3. \A t, u \in HeldByCall : t = u
  BY <1>a DEF HeldByCall, OneHolder
<1>4. HeldByFrame = {} \/ HeldByCall = {}
  BY <1>1, <1>a DEF HeldByCall, OneHolder
<1>5. locked <=> HeldByFrame # {} \/ HeldByCall # {}
  BY <1>1, <1>a DEF HeldByCall, OneHolder
<1>6. \A S : (\A x, y \in S : x = y) => Cardinality(S) = IF S = {} THEN 0 ELSE 1
  <2> SUFFICES ASSUME NEW S, \A x, y \in S : x = y
               PROVE  Cardinality(S) = IF S = {} THEN 0 ELSE 1
    OBVIOUS
  <2>1. CASE S = {}
    BY <2>1, FS_EmptySet
  <2>2. CASE S # {}
    <3>1. PICK x \in S : TRUE
      BY <2>2
    <3>2. S = {x}
      BY <3>1
    <3> QED
      BY <3>2, FS_Singleton
  <2> QED
    BY <2>1, <2>2
<1>7. Cardinality(HeldByFrame) = (IF HeldByFrame = {} THEN 0 ELSE 1) /\ Cardinality(HeldByCall) = (IF HeldByCall = {} THEN 0 ELSE 1)
  BY <1>2, <1>3, <1>6
<1>8. Cardinality(HeldByFrame) + Cardinality(HeldByCall) = (IF locked THEN 1 ELSE 0)
  BY <1>4, <1>5, <1>7
<1>9. \A t \in HeldByCall : closed[t] => \E g \in Procs : on[g] = t /\ pc[g] \in {"reap", "unlease"}
  BY <1>a DEF HeldByCall, Base, Control, Settling, Settles
<1> QED
  BY <1>8, <1>9 DEF LeaseHasOneHolder

\* Every AsyncCall then belongs to a call, so Registered speaks of all of them.
LEMMA InvAccepted ==
  ASSUME Inv, SyncTasks = {} PROVE AcceptedIsNotLost
<1> SUFFICES ASSUME NEW a \in AsyncCalls, state[a] = "queued"
             PROVE  \/ \E i \in DOMAIN mailbox : mailbox[i] = a
                    \/ \E g \in Procs :
                         \/ \E i \in DOMAIN batch[g] : batch[g][i] = a
                         \/ pc[g] = "finish" /\ a \in calls[on[g]]
  BY DEF AcceptedIsNotLost
<1>1. Made(a)
  BY DEF Inv, Base, Known
<1>2. PICK t \in Tasks : a \in calls[t]
  BY <1>1 DEF Inv, AllRegistered
<1>3. Reachable(a)
  BY <1>2 DEF Inv, Registered
<1> QED
  BY <1>3 DEF Reachable, Elems

\* A step that settles or follows a settled call applies nothing of it.
LEMMA InvSilent ==
  ASSUME Inv, Next, NEW a \in AsyncCalls, NEW t \in Tasks, a \in calls[t], closed[t]
  PROVE  applied'[a] = applied[a]
<1>1. state[a] \in {"applied", "closed"}
  BY DEF Inv, Applying
<1>2. Advances(a)
  <2>1. CASE \E c \in Completers : Resolver(c)
    BY <2>1, ResolverCompletion, SettlementAdvances DEF Inv
  <2>2. CASE \E g \in Procs : Step(g)
    BY <2>2, CompletionStep, CompletionAdvances DEF Inv
  <2> QED
    BY <2>1, <2>2 DEF Next, Step
<1> QED
  BY <1>1, <1>2 DEF Advances

\* Only Cancel, called by Close too, may overtake a CallAsync.
LEMMA OvertakenChanges ==
  ASSUME [Next]_vars
  PROVE  overtaken' = overtaken \/ \E g \in Procs : Cancel(g)
<1> USE DEF goRest, goVars, goAim, instVars, instRest, instCtl, pendVars, pendRest, schedVars, schedTasks,
            resVars, resRest, acVars
<1>1. CASE UNCHANGED vars
  BY <1>1 DEF vars
<1>2. CASE \E c \in Completers : Resolver(c)
  BY <1>2 DEF Resolver, ResolveBegins, ResolveQueues, ResolveApplies
<1>3. CASE \E g \in Procs : Step(g)
  <2>1. PICK g \in Procs : Step(g)
    BY <1>3
  <2>2. CASE Embedder(g)
    BY <2>2 DEF Embedder, Begin, BeginCallAsync, BeginAwait, BeginCancel, BeginClose, BeginCall,
       ContextEnds
  <2>3. CASE GuestOrHost(g)
    BY <2>3 DEF GuestOrHost, GuestImports, HostResolves, HostDefers, HostReturns, GuestWaits,
       GuestSignals, GuestExits, GuestTraps, Fails
  <2>4. CASE Cancel(g)
    BY <2>4
  <2>5. CASE Runtime(g) /\ ~Cancel(g)
    BY <2>5 DEF Runtime, RunThunk, ResumeReady, DriveEnds, DrainMailbox, ApplyOne, ApplyFails, Fails,
       TryLock, Publish, Activate, ClaimUnshared, FinishAsync, Reap, ReleasePendingLease,
       ReleaseDriver, ClaimDriver, AwaitWaits, Watcher, CancelReturns, CloseReap, CloseTable, Unlock
  <2>6. CASE Locks(g)
    BY <2>6 DEF Locks, LockClose, LockCall
  <2> QED
    BY <2>1, <2>2, <2>3, <2>4, <2>5, <2>6 DEF Step
<1> QED
  BY <1>1, <1>2, <1>3 DEF Next, Step

\* Once a Close has overtaken a CallAsync, it has.
LEMMA OvertakenStays ==
  ASSUME overtaken, [Next]_vars
  PROVE  overtaken'
<1>1. \A g \in Procs : Cancel(g) => overtaken'
  BY DEF Cancel
<1> QED
  BY <1>1, OvertakenChanges

\* Only a Close overtakes, for a call that a CallAsync is making.
LEMMA OvertakesInClose ==
  ASSUME Base, NEW g \in Procs, pc[g] = "cancel", Overtakes(g)
  PROVE  InClose(g) /\ \E h \in Procs : InCallAsync(h)
<1>1. PICK h \in Procs : Busy(h) /\ op[h] = "callasync" /\ on[h] = on[g]
  BY DEF Overtakes, Busy
<1>2. Creates(h) /\ InCallAsync(h) /\ Busy(g)
  BY <1>1 DEF Creates, InCallAsync, Busy
<1>3. op[g] # "callasync"
  BY Labelled DEF Base
<1>4. g = h \/ InClose(g)
  BY <1>1, <1>2 DEF Base, Control, Roles
<1> QED
  BY <1>1, <1>2, <1>3, <1>4

\* The inductive invariant holds, for any number of goroutines, calls,
\* AsyncCalls and host goroutines that resolve, until a Close overtakes the
\* CallAsync it closes.
THEOREM InvHolds == Spec => [](overtaken \/ Inv)
<1>1. Init => overtaken \/ Inv
  BY InvInit
<1>2. (overtaken \/ Inv) /\ [Next]_vars => (overtaken \/ Inv)'
  <2>1. overtaken /\ [Next]_vars => overtaken'
    BY OvertakenStays
  <2>2. Inv /\ [Next]_vars => overtaken' \/ Inv'
    BY InvStep
  <2> QED
    BY <2>1, <2>2
<1> QED
  BY <1>1, <1>2, PTL DEF Spec

\* An embedder that makes no CallAsync during a Close, and no Close during a
\* CallAsync, never sees one overtaken: for it the theorems below hold as they
\* read without the exception.
THEOREM OvertakingNeedsOverlap ==
  ASSUME ~CloseOverlaps PROVE Spec => []~overtaken
<1>1. Init => ~overtaken
  BY DEF Init
<1>2. Inv /\ ~overtaken /\ [Next]_vars => ~overtaken'
  <2> SUFFICES ASSUME Inv, ~overtaken, [Next]_vars PROVE ~overtaken'
    OBVIOUS
  <2>1. \A g \in Procs : ~(pc[g] = "cancel" /\ Overtakes(g))
    BY OvertakesInClose DEF Inv, Base, Control, Roles
  <2>2. \A g \in Procs : Cancel(g) => ~overtaken'
    BY <2>1 DEF Cancel
  <2>3. overtaken' = overtaken \/ \E g \in Procs : Cancel(g)
    BY OvertakenChanges
  <2> QED
    BY <2>2, <2>3
<1> QED
  BY <1>1, <1>2, InvHolds, PTL DEF Spec

\* The state is well typed, a goroutine has a task to run exactly while it is
\* in guest code (sched.go, callasync.go:177-200), and the scheduler's list
\* registers each parked task exactly once (sched.go register, unregister), as
\* long as no Close overtook a CallAsync.
THEOREM TypeCorrect == Spec => [](overtaken \/ TypeOK)
  BY InvHolds, InvTypeOK, PTL

\* At most one goroutine executes scheduler or guest code, with the execution
\* lease held (callasync.go:23, :120), whenever Close, Cancel, Await and
\* CallAsync are called; the property itself excepts a Close that overtook the
\* CallAsync it closes (callasync.go:177, :345-352).
THEOREM DrivenByOne == Spec => []OneGoroutineDrives
<1>1. overtaken => OneGoroutineDrives
  BY DEF OneGoroutineDrives
<1> QED
  BY <1>1, InvHolds, InvDrives, PTL

\* The lease has one holder, a CallAsync call, a Call or a Close, so
\* syncCallMu is never unlocked twice (callasync.go:268), with the same
\* exception in the property.
THEOREM LeaseIsHeldOnce == Spec => []LeaseHasOneHolder
<1>1. overtaken => LeaseHasOneHolder
  BY DEF LeaseHasOneHolder
<1> QED
  BY <1>1, InvHolds, InvHolder, PTL

\* A completion reaches its subtask at most once, however many goroutines
\* resolve it (callasync.go:49), as long as no Close overtook a CallAsync.
THEOREM AppliedOnce == Spec => [](overtaken \/ AppliedAtMostOnce)
<1>1. Inv => AppliedAtMostOnce
  BY DEF Inv, Applying, AppliedAtMostOnce
<1> QED
  BY <1>1, InvHolds, PTL

\* A goroutine asleep in Await has nothing to do, or its watcher is about to
\* wake it (callasync.go:53, :262, :297, :356), as long as no Close overtook a
\* CallAsync.
THEOREM NoWakeupIsLost == Spec => [](overtaken \/ NoLostWakeup)
<1>1. Inv => NoLostWakeup
  BY DEF Inv, Asleep, NoLostWakeup
<1> QED
  BY <1>1, InvHolds, PTL

\* Without synchronous calls that is every accepted completion.  With them it
\* is not: an AsyncCall made under Call may be resolved while a later CallAsync
\* is pending, and settling that call empties the mailbox (callasync.go:257-260).
THEOREM NoneAcceptedIsLost ==
  ASSUME SyncTasks = {} PROVE Spec => [](overtaken \/ AcceptedIsNotLost)
<1>1. Inv => AcceptedIsNotLost
  BY InvAccepted
<1> QED
  BY <1>1, InvHolds, PTL

\* A completion of a settled call is never applied, not even by the driver of
\* a later call (callasync.go:250-254), in a run in which no Close overtakes a
\* CallAsync.
THEOREM SettledStaySilent == Spec /\ []~overtaken => SettledCallsStaySilent
<1>1. Inv /\ [Next]_vars => [\A a \in AsyncCalls, t \in Tasks :
         a \in calls[t] /\ closed[t] => applied'[a] = applied[a]]_vars
  BY InvSilent
<1> QED
  BY <1>1, InvHolds, PTL DEF Spec, SettledCallsStaySilent

\* A completion accepted for a registered AsyncCall is in the mailbox, in the
\* driver's batch, or its call is about to settle (callasync.go:46-56), with
\* synchronous calls or without, as long as no Close overtook a CallAsync.
THEOREM RegisteredIsReachable == Spec => [](overtaken \/ Registered)
<1>1. Inv => Registered
  BY DEF Inv
<1> QED
  BY <1>1, InvHolds, PTL
=============================================================================
