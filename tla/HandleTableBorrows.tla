------------------------ MODULE HandleTableBorrows ------------------------
(***************************************************************************)
(* Theorems about the borrows, the removals and the lends of HandleTable,  *)
(* for every value of its constants: numBorrows is exact, a task that      *)
(* returned left no borrow behind, DropResource removes what it validated, *)
(* handle numbering is dense, and no lend is released early.               *)
(***************************************************************************)
EXTENDS HandleTableProofs

(* What a step can do to the table: leave it alone, allocate, remove, close. *)
LEMMA StepShape ==
  ASSUME [Next]_vars
  PROVE  \/ UNCHANGED tableVars
         \/ frames' = frames /\ \E o \in Objects, e \in Entry : AddEntry(o, e)
         \/ frames' = frames /\ \E h \in DOMAIN entries : RemoveEntry(h)
         \/ frames' = frames /\ Close
         \/ FinishDropResource /\ StillNames(Top.h, Top.o) /\ RemoveEntry(Top.h)
<1>1. CASE Mint
  BY <1>1, EntriesTyped
  DEF Mint, NewOwn, NewBorrow, NewBorrowScoped, NewOther, callVars
<1>2. CASE Lift
  BY <1>2 DEF Lift, LiftFails, RunCall, LiftBorrow, LiftAsyncBorrow, TakeOwn, callVars
<1>3. CASE Guest
  BY <1>3 DEF Guest, GuestTrap, LeaveGuest, BeginCall, BeginAsyncCall, DeliverResolve,
              TaskReturn, RemoveOther, Drop, callVars
<1>4. CASE Host
  BY <1>4 DEF Host, EnterGuest, ReturnCall, FinishDropResource, DtorFails, Close,
              BeginDropResource, callVars
<1>5. CASE UNCHANGED vars
  BY <1>5 DEF vars, tableVars
<1>6. QED BY <1>1, <1>2, <1>3, <1>4, <1>5 DEF Next

(* addEntry takes a new index only when the free stack is empty, and then   *)
(* every index below it is live (resource.go:274-285).                      *)
THEOREM NumberingIsDense == Spec => GrowsOnlyWhenFull
<1>1. ASSUME IInv, [Next]_vars, next' # next
      PROVE  DOMAIN entries = 1..(next - 1)
  <2>1. PICK o \in Objects, e \in Entry : AddEntry(o, e)
    BY <1>1, StepShape DEF tableVars, RemoveEntry, Close
  <2>2. ~closed /\ free = <<>>
    BY <1>1, <2>1 DEF AddEntry
  <2>3. FreeRange = {}
    BY <2>2 DEF FreeRange
  <2>4. QED BY <1>1, <2>2, <2>3 DEF IInv, HandlesPartitioned
<1>2. IInv /\ [Next]_vars => [next' # next => DOMAIN entries = 1..(next - 1)]_vars
  BY <1>1
<1>3. QED BY <1>2, Invariance, PTL DEF Spec, GrowsOnlyWhenFull

(* Whatever guest and host code does to the table while a destructor runs,  *)
(* DropResource removes the entry it validated or none (resource.go:561).   *)
THEOREM DropResourceIsExact == Spec => DropResourceRemovesWhatItValidated
<1> DEFINE Exact == \A h \in DOMAIN entries \ DOMAIN entries' :
                      Top.kind \in {"hdrop", "gdrop"} /\ Len(frames') < Len(frames)
                        => entries[h] = Top.o
<1>1. ASSUME IInv, [Next]_vars, NEW h \in DOMAIN entries \ DOMAIN entries',
             Len(frames') < Len(frames)
      PROVE  entries[h] = Top.o
  <2>1. Len(frames) \in Nat
    BY <1>1, TopOK
  <2>2. frames' # frames /\ ~UNCHANGED tableVars
    BY <1>1, <2>1 DEF tableVars
  <2>3. StillNames(Top.h, Top.o) /\ RemoveEntry(Top.h)
    BY <1>1, <2>2, StepShape
  <2>4. h = Top.h
    BY <1>1, <2>3 DEF RemoveEntry
  <2>5. QED BY <2>3, <2>4 DEF StillNames
<1>2. IInv /\ [Next]_vars => [Exact]_vars
  BY <1>1
<1>3. QED BY <1>2, Invariance, PTL DEF Spec, DropResourceRemovesWhatItValidated

-----------------------------------------------------------------------------
(* Only a borrowed resource has a scope. *)
ScopedIsBorrow ==
  \A o \in Objects : obj[o].scope # NoTask => obj[o].kind = "resource" /\ ~obj[o].own

(* The entry a destructor runs for was created as an owned one. *)
DropKinds == {"hdrop", "gdrop"}
DropsOwned ==
  \A i \in 1..Len(frames) : frames[i].kind \in DropKinds =>
    /\ frames[i].o \in Objects
    /\ obj[frames[i].o].kind # "none" /\ obj[frames[i].o].scope = NoTask

(* Close leaves nothing behind. *)
ClosedIsEmpty == closed => DOMAIN entries = {}

ScopeInv == /\ ScopedIsBorrow /\ DropsOwned /\ ClosedIsEmpty
            /\ BorrowsCounted /\ BorrowsEndWithTask

ScopedTo(t) == {h \in DOMAIN entries : obj[entries[h]].scope = t}

(* Steps that change lendCount only, and keep or remove frames of drops. *)
SameScopes ==
  \A o \in Objects : /\ obj'[o].scope = obj[o].scope
                     /\ obj'[o].kind = obj[o].kind
                     /\ obj'[o].own = obj[o].own
DropsKept ==
  \A i \in 1..Len(frames') : frames'[i].kind \in DropKinds =>
    \E j \in 1..Len(frames) : frames[j].kind \in DropKinds /\ frames'[i].o = frames[j].o

LEMMA DropsStayOwned ==
  ASSUME ScopeInv, SameScopes, DropsKept
  PROVE  DropsOwned'
BY DEF ScopeInv, SameScopes, DropsKept, DropsOwned

(* The scopes of a table that nobody touches. *)
LEMMA ScopesUntouched ==
  ASSUME IInv, ScopeInv, SameScopes, UNCHANGED <<tableVars, numBorrows, returned>>
  PROVE  ScopedIsBorrow' /\ ClosedIsEmpty' /\ BorrowsCounted' /\ BorrowsEndWithTask'
<1>1. /\ entries' = entries /\ closed' = closed /\ numBorrows' = numBorrows
      /\ returned' = returned /\ \A h \in DOMAIN entries : entries[h] \in Objects
  BY DEF tableVars, IInv, TypeOK
<1>2. \A t \in Tasks : ScopedTo(t)' = ScopedTo(t)
  BY <1>1 DEF ScopedTo, SameScopes
<1>3. BorrowsCounted'
  BY <1>1, <1>2 DEF ScopeInv, BorrowsCounted, ScopedTo
<1>4. ScopedIsBorrow' /\ ClosedIsEmpty' /\ BorrowsEndWithTask'
  BY <1>1 DEF ScopeInv, SameScopes, ScopedIsBorrow, ClosedIsEmpty, BorrowsEndWithTask
<1>5. QED BY <1>3, <1>4

LEMMA QuietStep ==
  ASSUME IInv, ScopeInv, SameScopes, DropsKept,
         UNCHANGED <<tableVars, numBorrows, returned>>
  PROVE  ScopeInv'
BY DropsStayOwned, ScopesUntouched DEF ScopeInv

(* The borrows of a task are finitely many. *)
LEMMA ScopedFinite ==
  ASSUME IInv, NEW t
  PROVE  IsFiniteSet(ScopedTo(t)) /\ Cardinality(ScopedTo(t)) \in Nat
<1>1. ScopedTo(t) \subseteq 1..MaxHandle /\ MaxHandle \in Nat
  BY HandleTableAssumption DEF IInv, TypeOK, Handles, ScopedTo
<1>2. QED BY <1>1, PositionsCount

(* A handle that is about to be given out is not in use. *)
LEMMA NextIsFresh ==
  ASSUME IInv, ~closed
  PROVE  NextHandle \notin DOMAIN entries
<1>1. /\ FreeRange \cap DOMAIN entries = {} /\ FreeRange \cup DOMAIN entries = 1..(next - 1)
      /\ next \in Nat /\ free \in Seq(Handles)
  BY HandleTableAssumption DEF IInv, TypeOK, HandlesPartitioned
<1>2. CASE free = <<>>
  BY <1>1, <1>2 DEF NextHandle
<1>3. CASE free # <<>>
  <2>1. Len(free) \in 1..Len(free)
    BY <1>1, <1>3
  <2>2. NextHandle \in FreeRange
    BY <1>3, <2>1 DEF NextHandle, FreeRange
  <2>3. QED BY <1>1, <2>2
<1>4. QED BY <1>2, <1>3

(* An allocation adds one borrow to its scope, if it has one. *)
LEMMA AddScoped ==
  ASSUME IInv, ScopeInv, NEW o \in Objects, NEW e \in Entry, AddEntry(o, e),
         e.scope # NoTask => e.kind = "resource" /\ ~e.own,
         e.scope \notin returned,
         \A t \in Tasks : numBorrows'[t] = IF e.scope = t THEN numBorrows[t] + 1
                                                         ELSE numBorrows[t],
         UNCHANGED <<frames, returned>>
  PROVE  ScopeInv'
<1> DEFINE n == NextHandle
<1>1. /\ n \notin DOMAIN entries /\ ~closed
  BY NextIsFresh DEF AddEntry
<1>2. /\ DOMAIN entries' = DOMAIN entries \cup {n} /\ entries'[n] = o
      /\ \A h \in DOMAIN entries : entries'[h] = entries[h]
  BY <1>1 DEF AddEntry
<1>3. obj'[o] = e /\ obj[o].kind = "none" /\ \A x \in Objects : x # o => obj'[x] = obj[x]
  BY DEF AddEntry, IInv, TypeOK
<1>4. \A h \in DOMAIN entries : entries[h] \in Objects /\ entries[h] # o
  BY <1>3 DEF IInv, TypeOK, EntriesCreated
<1>5. ScopedIsBorrow'
  BY <1>3 DEF ScopeInv, ScopedIsBorrow
<1>6. DropsOwned'
  BY <1>3 DEF ScopeInv, DropsOwned
<1>7. BorrowsEndWithTask'
  BY <1>2, <1>3, <1>4 DEF ScopeInv, BorrowsEndWithTask
<1>8. ASSUME NEW t \in Tasks
      PROVE  numBorrows'[t] = Cardinality(ScopedTo(t)')
  <2>1. numBorrows[t] = Cardinality(ScopedTo(t))
    BY <1>1 DEF ScopeInv, BorrowsCounted, ScopedTo
  <2>2. CASE e.scope = t
    <3>1. ScopedTo(t)' = ScopedTo(t) \cup {n} /\ n \notin ScopedTo(t)
      BY <1>1, <1>2, <1>3, <1>4, <2>2 DEF ScopedTo
    <3>2. IsFiniteSet(ScopedTo(t)) /\ Cardinality(ScopedTo(t)) \in Nat
      BY ScopedFinite
    <3>3. Cardinality(ScopedTo(t) \cup {n}) = Cardinality(ScopedTo(t)) + 1
      BY <3>1, <3>2, FS_AddElement
    <3>4. QED BY <2>1, <2>2, <3>1, <3>3
  <2>3. CASE e.scope # t
    <3>1. ScopedTo(t)' = ScopedTo(t)
      BY <1>1, <1>2, <1>3, <1>4, <2>3 DEF ScopedTo
    <3>2. QED BY <2>1, <2>3, <3>1
  <2>4. QED BY <2>2, <2>3
<1>9. BorrowsCounted'
  BY <1>8 DEF BorrowsCounted, ScopedTo
<1>10. ClosedIsEmpty'
  BY DEF AddEntry, ClosedIsEmpty
<1>11. QED BY <1>5, <1>6, <1>7, <1>9, <1>10 DEF ScopeInv

(* A removal takes one borrow off its scope, if it has one. *)
LEMMA RemoveScoped ==
  ASSUME IInv, ScopeInv, NEW h \in DOMAIN entries, RemoveEntry(h), DropsKept,
         \A t \in Tasks : numBorrows'[t] = IF obj[entries[h]].scope = t
                                           THEN numBorrows[t] - 1 ELSE numBorrows[t],
         UNCHANGED <<obj, returned>>
  PROVE  ScopeInv'
<1>1. /\ DOMAIN entries' = DOMAIN entries \ {h} /\ closed' = closed
      /\ \A x \in DOMAIN entries' : entries'[x] = entries[x]
  BY DEF RemoveEntry
<1>2. ScopedIsBorrow' /\ ClosedIsEmpty' /\ BorrowsEndWithTask'
  BY <1>1 DEF ScopeInv, ScopedIsBorrow, ClosedIsEmpty, BorrowsEndWithTask
<1>3. DropsOwned'
  BY DropsStayOwned DEF SameScopes
<1>4. ASSUME ~closed, NEW t \in Tasks
      PROVE  numBorrows'[t] = Cardinality(ScopedTo(t)')
  <2>1. numBorrows[t] = Cardinality(ScopedTo(t))
    BY <1>4 DEF ScopeInv, BorrowsCounted, ScopedTo
  <2>2. ScopedTo(t)' = ScopedTo(t) \ {h}
    BY <1>1 DEF ScopedTo
  <2>3. h \in ScopedTo(t) <=> obj[entries[h]].scope = t
    BY DEF ScopedTo
  <2>4. IsFiniteSet(ScopedTo(t)) /\ Cardinality(ScopedTo(t)) \in Nat
    BY ScopedFinite
  <2>5. Cardinality(ScopedTo(t) \ {h}) = IF h \in ScopedTo(t) THEN Cardinality(ScopedTo(t)) - 1
                                         ELSE Cardinality(ScopedTo(t))
    BY <2>4, FS_RemoveElement
  <2>6. QED BY <2>1, <2>2, <2>3, <2>5
<1>5. BorrowsCounted'
  BY <1>1, <1>4 DEF BorrowsCounted, ScopedTo
<1>6. QED BY <1>2, <1>3, <1>5 DEF ScopeInv

-----------------------------------------------------------------------------
(* The stack operations create no frame of a drop. *)
LEMMA SetTopKeeps ==
  ASSUME IInv, NEW f, frames' = SetTop(f),
         f.kind \in DropKinds => f.kind = Top.kind /\ f.o = Top.o
  PROVE  DropsKept
<1>1. frames \in Seq(Frame) /\ Len(frames) \in 1..Len(frames)
  BY TopOK DEF StackOK
<1>2. /\ Len(frames') = Len(frames)
      /\ \A i \in 1..Len(frames) : frames'[i] = IF i = Len(frames) THEN f ELSE frames[i]
  BY <1>1 DEF SetTop
<1>3. QED BY <1>1, <1>2 DEF DropsKept, Top

LEMMA CutKeeps ==
  ASSUME IInv, NEW n \in 1..Len(frames), frames' = SubSeq(frames, 1, n)
  PROVE  DropsKept
<1>1. frames \in Seq(Frame) /\ Len(frames) \in Nat
  BY TopOK DEF StackOK
<1>2. Len(frames') = n /\ \A i \in 1..n : frames'[i] = frames[i]
  BY <1>1
<1>3. QED BY <1>1, <1>2 DEF DropsKept

LEMMA PopKeeps ==
  ASSUME IInv, Top.kind # "root", frames' = Pop
  PROVE  DropsKept
BY TopOK, CutKeeps DEF Pop

LEMMA PushKeeps ==
  ASSUME IInv, NEW f, f.kind \notin DropKinds, frames' = Push(f)
  PROVE  DropsKept
<1>1. frames \in Seq(Frame) /\ Len(frames) \in Nat
  BY TopOK DEF StackOK
<1>2. /\ Len(frames') = Len(frames) + 1 /\ frames'[Len(frames) + 1] = f
      /\ \A i \in 1..Len(frames) : frames'[i] = frames[i]
  BY <1>1 DEF Push
<1>3. QED BY <1>1, <1>2 DEF DropsKept

LEMMA StillFrames == ASSUME frames' = frames PROVE DropsKept
BY DEF DropsKept

LEMMA StillScopes == ASSUME obj' = obj PROVE SameScopes
BY DEF SameScopes

(* What the edits of a frame keep. *)
LEMMA EditKeeps ==
  ASSUME NEW f \in Frame
  PROVE  /\ \A b \in BOOLEAN : /\ [f EXCEPT !.guest = b].kind = f.kind
                               /\ [f EXCEPT !.guest = b].o = f.o
         /\ [f EXCEPT !.kind = "call"].kind = "call"
         /\ \A l : [f EXCEPT !.lends = l].kind = f.kind /\ [f EXCEPT !.lends = l].o = f.o
BY DEF Frame

(* The fields of a new entry. *)
LEMMA EntryFields ==
  /\ \A tag \in Tags, own \in BOOLEAN, scope \in Tasks \cup {NoTask} :
       /\ Resource(tag, own, scope) \in Entry
       /\ Resource(tag, own, scope).kind = "resource"
       /\ Resource(tag, own, scope).own = own
       /\ Resource(tag, own, scope).scope = scope
  /\ Other \in Entry /\ Other.scope = NoTask
BY DEF Entry, Resource, Other, NewEntry

-----------------------------------------------------------------------------
(* Entering, leaving, trapping, starting and ending calls. *)
LEMMA ScopeStackStep ==
  ASSUME IInv, ScopeInv,
         \/ EnterGuest \/ LeaveGuest \/ GuestTrap \/ BeginCall \/ RunCall \/ LiftFails
         \/ DtorFails \/ \E s \in Subtasks : BeginAsyncCall(s)
  PROVE  ScopeInv'
<1>1. /\ UNCHANGED <<tableVars, numBorrows, returned>> /\ SameScopes
  BY StillScopes DEF EnterGuest, LeaveGuest, GuestTrap, BeginCall, RunCall, LiftFails,
                     DtorFails, BeginAsyncCall
<1>2. Top \in Frame /\ Len(frames) \in Nat
  BY TopOK
<1>3. CASE EnterGuest \/ LeaveGuest \/ GuestTrap
  <2>1. PICK b \in BOOLEAN : frames' = SetTop([Top EXCEPT !.guest = b])
    BY <1>3 DEF EnterGuest, LeaveGuest, GuestTrap
  <2>2. DropsKept
    BY <1>2, <2>1, EditKeeps, SetTopKeeps
  <2>3. QED BY <1>1, <2>2, QuietStep
<1>4. CASE RunCall
  <2>1. frames' = SetTop([Top EXCEPT !.kind = "call"])
    BY <1>4 DEF RunCall
  <2>2. DropsKept
    BY <1>2, <2>1, EditKeeps, SetTopKeeps DEF DropKinds
  <2>3. QED BY <1>1, <2>2, QuietStep
<1>5. CASE BeginCall \/ \E s \in Subtasks : BeginAsyncCall(s)
  <2>1. PICK k \in {"lift", "alift"}, x \in Subtasks \cup {NoSubtask} :
          frames' = Push(CallFrame(k, x))
    BY <1>5 DEF BeginCall, BeginAsyncCall
  <2>2. CallFrame(k, x).kind \notin DropKinds
    BY DEF CallFrame, NewFrame, DropKinds
  <2>3. QED BY <1>1, <2>1, <2>2, PushKeeps, QuietStep
<1>6. CASE DtorFails
  <2>1. frames' = Pop /\ Top.kind # "root"
    BY <1>6 DEF DtorFails, DtorReturned
  <2>2. QED BY <1>1, <2>1, PopKeeps, QuietStep
<1>7. CASE LiftFails
  <2> DEFINE n == Len(frames) - 1
             below == frames[n]
  <2>1. n \in 1..Len(frames) /\ below \in Frame /\ n \in Nat
    BY <1>7, TopOK, CallHasCaller DEF LiftFails
  <2>2. CASE below.kind = "gdrop"
    <3>1. Len(frames) - 2 \in 1..Len(frames)
      BY <2>1, <2>2, TopOK, CallHasCaller
    <3>2. frames' = SubSeq(frames, 1, Len(frames) - 2)
      BY <1>7, <2>2 DEF LiftFails
    <3>3. QED BY <1>1, <3>1, <3>2, CutKeeps, QuietStep
  <2>3. CASE below.kind # "gdrop"
    <3>1. frames' = [Pop EXCEPT ![n] = [below EXCEPT !.guest = FALSE]]
      BY <1>7, <2>3 DEF LiftFails
    <3>2. frames \in Seq(Frame)
      BY TopOK DEF StackOK
    <3>3. Pop \in Seq(Frame) /\ Len(Pop) = n /\ \A i \in 1..n : Pop[i] = frames[i]
      BY <1>2, <2>1, <3>2 DEF Pop
    <3>4. [below EXCEPT !.guest = FALSE].kind = below.kind
          /\ [below EXCEPT !.guest = FALSE].o = below.o
      BY <2>1, EditKeeps
    <3> DEFINE f == [below EXCEPT !.guest = FALSE]
    <3> HIDE DEF f
    <3>5. frames' = [Pop EXCEPT ![n] = f] /\ f.kind = below.kind /\ f.o = below.o
      BY <3>1, <3>4 DEF f
    <3>6. Len(frames') = n /\ \A i \in 1..n : frames'[i] = IF i = n THEN f ELSE frames[i]
      BY <2>1, <3>3, <3>5
    <3>7. DropsKept
      BY <1>2, <2>1, <3>5, <3>6 DEF DropsKept
    <3>8. QED BY <1>1, <3>7, QuietStep
  <2>4. QED BY <2>2, <2>3
<1>8. QED BY <1>3, <1>4, <1>5, <1>6, <1>7

(* Lending and releasing changes lendCount only. *)
LEMMA LendKeepsScopes ==
  ASSUME NEW e \in Entry, NEW c
  PROVE  LET f == [e EXCEPT !.lendCount = c]
         IN  f.scope = e.scope /\ f.kind = e.kind /\ f.own = e.own
BY DEF Entry

LEMMA UnlendKeepsScopes ==
  ASSUME NEW e \in Entry, NEW n
  PROVE  /\ Unlend(e, n).scope = e.scope /\ Unlend(e, n).kind = e.kind
         /\ Unlend(e, n).own = e.own
BY DEF Entry, Unlend

LEMMA ScopeLendStep ==
  ASSUME IInv, ScopeInv,
         \/ \E tag \in Tags, h \in DOMAIN entries : LiftBorrow(tag, h) \/ LiftAsyncBorrow(tag, h)
         \/ ReturnCall \/ \E s \in Subtasks : DeliverResolve(s)
  PROVE  ScopeInv'
<1>1. UNCHANGED <<tableVars, numBorrows, returned>>
  BY DEF LiftBorrow, LiftAsyncBorrow, ReturnCall, DeliverResolve
<1>2. obj \in [Objects -> Entry] /\ Top \in Frame /\ \A h \in DOMAIN entries : entries[h] \in Objects
  BY TopOK DEF IInv, TypeOK
<1>3. ASSUME NEW h \in DOMAIN entries, Lent(entries[h])
      PROVE  SameScopes
  <2> DEFINE c == obj[entries[h]].lendCount + 1
             e == [obj[entries[h]] EXCEPT !.lendCount = c]
  <2>1. obj' = [obj EXCEPT ![entries[h]] = e]
    BY <1>3 DEF Lent
  <2>2. obj[entries[h]] \in Entry
    BY <1>2
  <2>3. /\ e.scope = obj[entries[h]].scope /\ e.kind = obj[entries[h]].kind
        /\ e.own = obj[entries[h]].own
    BY <2>2, LendKeepsScopes
  <2> HIDE DEF e
  <2>4. QED BY <1>2, <2>1, <2>3 DEF SameScopes
<1>4. ASSUME NEW tag \in Tags, NEW h \in DOMAIN entries, LiftBorrow(tag, h)
      PROVE  ScopeInv'
  <2> DEFINE l == Append(Top.lends, [tag |-> tag, h |-> h, o |-> entries[h]])
  <2>1. frames' = SetTop([Top EXCEPT !.lends = l]) /\ SameScopes
    BY <1>3, <1>4 DEF LiftBorrow
  <2>2. DropsKept
    BY <1>2, <2>1, EditKeeps, SetTopKeeps
  <2>3. QED BY <1>1, <2>1, <2>2, QuietStep
<1>5. ASSUME NEW tag \in Tags, NEW h \in DOMAIN entries, LiftAsyncBorrow(tag, h)
      PROVE  ScopeInv'
  <2>1. frames' = frames /\ SameScopes
    BY <1>3, <1>5 DEF LiftAsyncBorrow
  <2>2. QED BY <1>1, <2>1, StillFrames, QuietStep
<1>6. CASE ReturnCall
  <2>1. obj' = [o \in Objects |-> Unlend(obj[o], LendsOn(Top.lends, o))]
        /\ frames' = Pop /\ Top.kind # "root"
    BY <1>6 DEF ReturnCall
  <2>2. SameScopes
    BY <1>2, <2>1, UnlendKeepsScopes DEF SameScopes
  <2>3. QED BY <1>1, <2>1, <2>2, PopKeeps, QuietStep
<1>7. ASSUME NEW s \in Subtasks, DeliverResolve(s)
      PROVE  ScopeInv'
  <2> DEFINE c(o) == obj[o].lendCount - Cardinality({i \in 1..Len(lenders[s]) : lenders[s][i] = o})
  <2>1. obj' = [o \in Objects |-> [obj[o] EXCEPT !.lendCount = c(o)]] /\ frames' = frames
    BY <1>7 DEF DeliverResolve
  <2> HIDE DEF c
  <2>2. SameScopes
    BY <1>2, <2>1, LendKeepsScopes DEF SameScopes
  <2>3. QED BY <1>1, <2>1, <2>2, StillFrames, QuietStep
<1>8. QED BY <1>4, <1>5, <1>6, <1>7

(* resource.new, lower_own, lower_borrow and the other kinds of entry. *)
LEMMA ScopeMintStep == ASSUME IInv, ScopeInv, Mint PROVE ScopeInv'
<1>1. NoTask \notin returned /\ NoTask \notin Tasks /\ numBorrows \in [Tasks -> Int]
  BY HandleTableAssumption DEF IInv, TypeOK
<1>2. ASSUME NEW o \in Objects, NEW e \in Entry, AddEntry(o, e), e.scope = NoTask, UNCHANGED callVars
      PROVE  ScopeInv'
  <2>1. UNCHANGED <<frames, returned, numBorrows>>
    BY <1>2 DEF callVars
  <2>2. QED BY <1>1, <1>2, <2>1, AddScoped
<1>3. ASSUME NEW o \in Objects, NEW tag \in Tags, NEW t \in Tasks, NewBorrowScoped(o, tag, t)
      PROVE  ScopeInv'
  <2> DEFINE e == Resource(tag, FALSE, t)
  <2>1. e \in Entry /\ e.kind = "resource" /\ ~e.own /\ e.scope = t
    BY EntryFields
  <2>2. /\ t \notin returned /\ AddEntry(o, e) /\ UNCHANGED <<frames, returned>>
        /\ numBorrows' = [numBorrows EXCEPT ![t] = @ + 1]
    BY <1>3 DEF NewBorrowScoped
  <2> HIDE DEF e
  <2>3. \A u \in Tasks : numBorrows'[u] = IF e.scope = u THEN numBorrows[u] + 1 ELSE numBorrows[u]
    BY <1>1, <2>1, <2>2
  <2>4. QED BY <2>1, <2>2, <2>3, AddScoped
<1>4. ASSUME NEW o \in Objects, NEW tag \in Tags, NEW own \in BOOLEAN,
             AddEntry(o, Resource(tag, own, NoTask)), UNCHANGED callVars
      PROVE  ScopeInv'
  <2>1. Resource(tag, own, NoTask) \in Entry /\ Resource(tag, own, NoTask).scope = NoTask
    BY EntryFields
  <2>2. QED BY <1>2, <1>4, <2>1
<1>5. ASSUME NEW o \in Objects, NewOther(o)
      PROVE  ScopeInv'
  BY <1>2, <1>5, EntryFields DEF NewOther
<1>6. QED BY <1>3, <1>4, <1>5 DEF Mint, NewOwn, NewBorrow

(* Removals by guest code and by argument lifting. *)
LEMMA ScopeRemovalStep ==
  ASSUME IInv, ScopeInv, NEW h \in DOMAIN entries,
         RemoveOther(h) \/ \E tag \in Tags : TakeOwn(tag, h) \/ Drop(tag, h)
  PROVE  ScopeInv'
<1> DEFINE e == obj[entries[h]]
<1>1. RemoveEntry(h) /\ UNCHANGED <<obj, frames, returned>>
  BY DEF RemoveOther, TakeOwn, Drop, callVars
<1>2. e.scope # NoTask => e.kind = "resource" /\ ~e.own
  BY DEF ScopeInv, ScopedIsBorrow, IInv, TypeOK
<1>3. numBorrows \in [Tasks -> Int] /\ NoTask \notin Tasks
  BY HandleTableAssumption DEF IInv, TypeOK
<1>4. \A t \in Tasks : numBorrows'[t] = IF e.scope = t THEN numBorrows[t] - 1 ELSE numBorrows[t]
  <2>1. CASE numBorrows' = numBorrows /\ (e.own \/ e.kind = "other")
    BY <1>2, <1>3, <2>1
  <2>2. CASE numBorrows' = [numBorrows EXCEPT ![e.scope] = @ - 1]
    BY <1>3, <2>2
  <2>3. QED BY <2>1, <2>2 DEF RemoveOther, TakeOwn, Drop, ReleaseScope, callVars
<1>5. QED BY <1>1, <1>4, StillFrames, RemoveScoped

(* A task returns only when none of the live handles is scoped to it. *)
LEMMA ScopeReturnStep ==
  ASSUME IInv, ScopeInv, NEW t \in Tasks, TaskReturn(t)
  PROVE  ScopeInv'
<1>1. /\ UNCHANGED <<entries, next, free, closed, obj, frames, numBorrows>>
      /\ returned' = returned \cup {t} /\ numBorrows[t] = 0
  BY DEF TaskReturn, tableVars
<1>2. ScopedTo(t) = {}
  <2>1. CASE closed
    BY <2>1 DEF ScopeInv, ClosedIsEmpty, ScopedTo
  <2>2. CASE ~closed
    <3>1. Cardinality(ScopedTo(t)) = 0
      BY <1>1, <2>2 DEF ScopeInv, BorrowsCounted, ScopedTo
    <3>2. QED BY <3>1, ScopedFinite, FS_EmptySet
  <2>3. QED BY <2>1, <2>2
<1>3. BorrowsEndWithTask'
  BY <1>1, <1>2 DEF ScopeInv, BorrowsEndWithTask, ScopedTo
<1>4. ScopedIsBorrow' /\ DropsOwned' /\ ClosedIsEmpty' /\ BorrowsCounted'
  BY <1>1 DEF ScopeInv, ScopedIsBorrow, DropsOwned, ClosedIsEmpty, BorrowsCounted
<1>5. QED BY <1>3, <1>4 DEF ScopeInv

(* DropResource removes an owned entry, so no borrow goes with it. *)
LEMMA ScopeDropStep ==
  ASSUME IInv, ScopeInv,
         FinishDropResource \/ \E h \in DOMAIN entries : BeginDropResource(h)
  PROVE  ScopeInv'
<1>1. ASSUME NEW h \in DOMAIN entries, BeginDropResource(h)
      PROVE  ScopeInv'
  <2> DEFINE o == entries[h]
             k == IF obj[o].tag \in GuestDtorTags THEN "gdrop" ELSE "hdrop"
             f == DropFrame(k, h, o)
  <2>1. /\ obj[o].kind = "resource" /\ obj[o].own /\ frames' = Push(f)
        /\ UNCHANGED <<tableVars, obj, numBorrows, returned>>
    BY <1>1 DEF BeginDropResource
  <2>2. o \in Objects /\ obj[o].scope = NoTask /\ f.o = o
    BY <2>1 DEF IInv, TypeOK, ScopeInv, ScopedIsBorrow, DropFrame, NewFrame
  <2> HIDE DEF f, o
  <2>3. frames \in Seq(Frame) /\ Len(frames) \in Nat
    BY TopOK DEF StackOK
  <2>4. /\ Len(frames') = Len(frames) + 1 /\ frames'[Len(frames) + 1] = f
        /\ \A i \in 1..Len(frames) : frames'[i] = frames[i]
    BY <2>1, <2>3 DEF Push
  <2>5. DropsOwned'
    BY <2>1, <2>2, <2>3, <2>4 DEF ScopeInv, DropsOwned
  <2>6. SameScopes
    BY <2>1, StillScopes
  <2>7. QED BY <2>1, <2>5, <2>6, ScopesUntouched DEF ScopeInv
<1>2. CASE FinishDropResource
  <2>1. frames' = Pop /\ Top.kind \in DropKinds /\ UNCHANGED <<obj, numBorrows, returned>>
    BY <1>2 DEF FinishDropResource, DtorReturned, DropKinds
  <2>2. DropsKept
    BY <2>1, PopKeeps DEF DropKinds
  <2>3. CASE StillNames(Top.h, Top.o)
    <3>1. Top.h \in DOMAIN entries /\ entries[Top.h] = Top.o /\ RemoveEntry(Top.h)
      BY <1>2, <2>3 DEF FinishDropResource, StillNames
    <3>2. obj[Top.o].scope = NoTask /\ NoTask \notin Tasks
      BY <2>1, TopOK, HandleTableAssumption DEF ScopeInv, DropsOwned, Top
    <3>3. QED BY <2>1, <2>2, <3>1, <3>2, RemoveScoped
  <2>4. CASE ~StillNames(Top.h, Top.o)
    <3>1. UNCHANGED tableVars
      BY <1>2, <2>4 DEF FinishDropResource
    <3>2. QED BY <2>1, <2>2, <3>1, StillScopes, QuietStep
  <2>5. QED BY <2>3, <2>4
<1>3. QED BY <1>1, <1>2

LEMMA ScopeCloseStep == ASSUME IInv, ScopeInv, Close PROVE ScopeInv'
<1>1. /\ DOMAIN entries' = {} /\ closed' = TRUE
      /\ UNCHANGED <<obj, frames, numBorrows, returned>>
  BY DEF Close, callVars
<1>2. QED BY <1>1 DEF ScopeInv, ScopedIsBorrow, DropsOwned, ClosedIsEmpty, BorrowsCounted,
                      BorrowsEndWithTask

-----------------------------------------------------------------------------
LEMMA ScopeInit == Init => ScopeInv
<1> SUFFICES ASSUME Init PROVE ScopeInv
  OBVIOUS
<1>1. /\ DOMAIN entries = {} /\ closed = FALSE /\ numBorrows = [t \in Tasks |-> 0]
      /\ \A o \in Objects : obj[o] = NoEntry
  BY DEF Init
<1>2. ScopedIsBorrow
  BY <1>1 DEF ScopedIsBorrow, NoEntry, NewEntry
<1>3. DropsOwned
  BY DEF Init, DropsOwned, DropKinds, CallFrame, NewFrame
<1>4. ClosedIsEmpty /\ BorrowsEndWithTask
  BY <1>1 DEF ClosedIsEmpty, BorrowsEndWithTask
<1>5. \A t \in Tasks : {h \in DOMAIN entries : obj[entries[h]].scope = t} = {}
  BY <1>1
<1>6. BorrowsCounted
  BY <1>1, <1>5, FS_EmptySet DEF BorrowsCounted
<1>7. QED BY <1>2, <1>3, <1>4, <1>6 DEF ScopeInv

LEMMA ScopeStep == IInv /\ ScopeInv /\ [Next]_vars => ScopeInv'
<1> SUFFICES ASSUME IInv, ScopeInv, [Next]_vars PROVE ScopeInv'
  OBVIOUS
<1>1. CASE Mint
  BY <1>1, ScopeMintStep
<1>2. CASE Lift
  BY <1>2, ScopeStackStep, ScopeLendStep, ScopeRemovalStep DEF Lift
<1>3. CASE Guest
  BY <1>3, ScopeStackStep, ScopeLendStep, ScopeReturnStep, ScopeRemovalStep DEF Guest
<1>4. CASE Host
  BY <1>4, ScopeStackStep, ScopeLendStep, ScopeDropStep, ScopeCloseStep DEF Host
<1>5. CASE UNCHANGED vars
  <2>1. UNCHANGED <<tableVars, obj, frames, numBorrows, returned>>
    BY <1>5 DEF vars, tableVars
  <2>2. QED BY <2>1, StillFrames, StillScopes, QuietStep
<1>6. QED BY <1>1, <1>2, <1>3, <1>4, <1>5 DEF Next

LEMMA ScopeInvariance == Spec => []ScopeInv
<1>1. Init => ScopeInv
  BY ScopeInit
<1>2. IInv /\ ScopeInv /\ [Next]_vars => ScopeInv'
  BY ScopeStep
<1>3. QED BY <1>1, <1>2, Invariance, PTL DEF Spec

(* numBorrows, kept by the lowering of arguments and by Drop, is the number *)
(* of live borrows of the task at every moment (resource.go:366-378, 471).  *)
THEOREM BorrowCountExact == Spec => []BorrowsCounted
<1>1. ScopeInv => BorrowsCounted
  BY DEF ScopeInv
<1>2. QED BY <1>1, ScopeInvariance, PTL

(* A task that returned holds no borrow of its caller's resources, then or  *)
(* ever after (task.go:151, 186).                                           *)
THEOREM NoBorrowOutlivesItsTask == Spec => []BorrowsEndWithTask
<1>1. ScopeInv => BorrowsEndWithTask
  BY DEF ScopeInv
<1>2. QED BY <1>1, ScopeInvariance, PTL

-----------------------------------------------------------------------------
(* Lends.  A lend on a frame names a live resource, by handle and by entry; *)
(* a subtask has lent only entries that were created.                      *)
LendOK(l) == /\ obj[l.o].kind = "resource"
             /\ l.h \in DOMAIN entries /\ entries[l.h] = l.o
FrameOK(f) == Len(f.lends) <= MaxArgs /\ \A j \in 1..Len(f.lends) : LendOK(f.lends[j])
SubtaskOK(s) == /\ Len(lenders[s]) <= MaxArgs
                /\ \A j \in 1..Len(lenders[s]) : obj[lenders[s][j]].kind # "none"

(* What DropResource runs a destructor for is lent by no call on the way there. *)
DropsUnlent ==
  \A i, k \in 1..Len(frames) : k <= i /\ frames[i].kind \in DropKinds =>
    \A j \in 1..Len(frames[k].lends) : frames[k].lends[j].o # frames[i].o

LendsCounted == \A o \in Objects : obj[o].lendCount >= LendsHeld(o)

Lending == /\ IsFiniteSet(open)
           /\ \A i \in 1..Len(frames) : FrameOK(frames[i])
           /\ \A s \in Subtasks : SubtaskOK(s)
           /\ DropsUnlent /\ LendsCounted

LendInv == ~closed => Lending

(* The lends of an entry are finitely many. *)
LEMMA HeldFinite ==
  ASSUME IInv, IsFiniteSet(open), NEW o
  PROVE  /\ IsFiniteSet(HeldByFrames(o)) /\ Cardinality(HeldByFrames(o)) \in Nat
         /\ IsFiniteSet(HeldBySubtasks(o)) /\ Cardinality(HeldBySubtasks(o)) \in Nat
<1>1. IsFiniteSet(1..MaxArgs) /\ IsFiniteSet(1..Len(frames))
  BY FS_Interval, TopOK, HandleTableAssumption
<1>2. IsFiniteSet((1..Len(frames)) \X (1..MaxArgs)) /\ IsFiniteSet(open \X (1..MaxArgs))
  BY <1>1, FS_Product
<1>3. /\ HeldByFrames(o) \in SUBSET ((1..Len(frames)) \X (1..MaxArgs))
      /\ HeldBySubtasks(o) \in SUBSET (open \X (1..MaxArgs))
  BY DEF HeldByFrames, HeldBySubtasks
<1>4. IsFiniteSet(HeldByFrames(o)) /\ IsFiniteSet(HeldBySubtasks(o))
  BY <1>2, <1>3, FS_Subset
<1>5. QED BY <1>4, FS_CardinalityType

(* Positions of a sequence are no more than the pairs they are part of. *)
LEMMA Paired ==
  ASSUME NEW n, NEW J, NEW P, IsFiniteSet(P), \A j \in J : <<n, j>> \in P
  PROVE  Cardinality(J) <= Cardinality(P)
<1> DEFINE f == [j \in J |-> <<n, j>>]
<1>1. f \in [J -> P] /\ \A j, k \in J : f[j] = f[k] => j = k
  OBVIOUS
<1> HIDE DEF f
<1>2. f \in Injection(J, P)
  BY <1>1 DEF Injection, IsInjective
<1>3. QED BY <1>2, FS_Injection

(* Frames keep their lends, go, or come without any; those of destructors   *)
(* come for an entry that is not lent.                                     *)
FrameStays(i) ==
  /\ i <= Len(frames) /\ frames'[i].lends = frames[i].lends
  /\ frames'[i].kind \in DropKinds => frames[i].kind \in DropKinds /\ frames'[i].o = frames[i].o
FrameIsNew(i) ==
  /\ frames'[i].lends = <<>>
  /\ frames'[i].kind \in DropKinds =>
       frames'[i].o \in Objects /\ obj[frames'[i].o].lendCount = 0
FramesGo == \A i \in 1..Len(frames') : FrameStays(i) \/ FrameIsNew(i)

(* Entries keep their kind, and the handles lent by frames their entry. *)
KindsStay == \A o \in Objects : obj[o].kind # "none" => obj'[o].kind = obj[o].kind
LentStays ==
  \A i \in 1..Len(frames) : \A j \in 1..Len(frames[i].lends) :
    LET h == frames[i].lends[j].h IN h \in DOMAIN entries' /\ entries'[h] = entries[h]

(* An entry that is not lent is named by no frame. *)
LEMMA NotLent ==
  ASSUME IInv, Lending, NEW o \in Objects, obj[o].lendCount = 0
  PROVE  /\ \A i \in 1..Len(frames) : \A j \in 1..Len(frames[i].lends) : frames[i].lends[j].o # o
         /\ HeldByFrames(o) = {} /\ HeldBySubtasks(o) = {}
<1>1. /\ IsFiniteSet(HeldByFrames(o)) /\ IsFiniteSet(HeldBySubtasks(o))
      /\ Cardinality(HeldByFrames(o)) \in Nat /\ Cardinality(HeldBySubtasks(o)) \in Nat
  BY HeldFinite DEF Lending
<1>2. 0 >= Cardinality(HeldByFrames(o)) + Cardinality(HeldBySubtasks(o))
  BY DEF Lending, LendsCounted, LendsHeld
<1>3. HeldByFrames(o) = {} /\ HeldBySubtasks(o) = {}
  BY <1>1, <1>2, FS_EmptySet
<1>4. ASSUME NEW i \in 1..Len(frames), NEW j \in 1..Len(frames[i].lends),
             frames[i].lends[j].o = o
      PROVE  FALSE
  <2>1. frames[i] \in Frame
    BY TopOK, CallHasCaller
  <2>2. Len(frames[i].lends) \in Nat
    BY <2>1 DEF Frame
  <2>3. j \in 1..MaxArgs
    BY <2>2, HandleTableAssumption DEF Lending, FrameOK
  <2>4. <<i, j>> \in HeldByFrames(o)
    BY <1>4, <2>2, <2>3 DEF HeldByFrames
  <2>5. QED BY <1>3, <2>4
<1>5. QED BY <1>3, <1>4

(* The frames after a step that lends nothing. *)
LEMMA FramesLater ==
  ASSUME IInv, IInv', Lending, FramesGo, KindsStay, LentStays
  PROVE  /\ \A i \in 1..Len(frames') : FrameOK(frames[i])'
         /\ DropsUnlent'
         /\ \A o \in Objects : HeldByFrames(o)' \subseteq HeldByFrames(o)
<1>1. /\ Len(frames') \in Nat /\ \A i \in 1..Len(frames') : frames'[i] \in Frame
      /\ Len(frames) \in Nat /\ \A i \in 1..Len(frames) : frames[i] \in Frame
  BY CallHasCaller DEF IInv
<1>2. ASSUME NEW i \in 1..Len(frames'), frames'[i].lends # <<>>
      PROVE  i \in 1..Len(frames) /\ frames'[i].lends = frames[i].lends
  BY <1>1, <1>2 DEF FramesGo, FrameStays, FrameIsNew
<1>3. ASSUME NEW i \in 1..Len(frames') PROVE FrameOK(frames[i])'
  <2>1. CASE frames'[i].lends = <<>>
    BY <2>1, HandleTableAssumption DEF FrameOK
  <2>2. CASE frames'[i].lends # <<>>
    <3>1. i \in 1..Len(frames) /\ frames'[i].lends = frames[i].lends
      BY <1>2, <2>2
    <3>2. FrameOK(frames[i])
      BY <3>1 DEF Lending
    <3>3. ASSUME NEW j \in 1..Len(frames[i].lends) PROVE LendOK(frames[i].lends[j])'
      <4> DEFINE l == frames[i].lends[j]
      <4>1. LendOK(l) /\ l.h \in DOMAIN entries' /\ entries'[l.h] = entries[l.h]
        BY <3>1, <3>2 DEF FrameOK, LentStays
      <4>2. l.o \in Objects
        BY <4>1 DEF LendOK, IInv, TypeOK
      <4>3. obj'[l.o].kind = "resource" /\ l = frames'[i].lends[j]
        BY <3>1, <4>1, <4>2 DEF KindsStay, LendOK
      <4>4. QED BY <4>1, <4>3 DEF LendOK
    <3>4. QED BY <3>1, <3>2, <3>3 DEF FrameOK
  <2>3. QED BY <2>1, <2>2
<1>4. ASSUME NEW i \in 1..Len(frames'), NEW k \in 1..Len(frames'), k <= i,
             frames'[i].kind \in DropKinds, NEW j \in 1..Len(frames'[k].lends)
      PROVE  frames'[k].lends[j].o # frames'[i].o
  <2>1. frames'[k].lends # <<>>
    BY <1>4
  <2>2. k \in 1..Len(frames) /\ frames'[k].lends = frames[k].lends
    BY <1>2, <2>1
  <2>3. CASE FrameStays(i)
    <3>1. i \in 1..Len(frames) /\ frames[i].kind \in DropKinds /\ frames'[i].o = frames[i].o
      BY <1>1, <1>4, <2>3 DEF FrameStays
    <3>2. frames[k].lends[j].o # frames[i].o
      BY <1>4, <2>2, <3>1 DEF Lending, DropsUnlent
    <3>3. QED BY <2>2, <3>1, <3>2
  <2>4. CASE FrameIsNew(i)
    BY <1>4, <2>2, <2>4, NotLent DEF FrameIsNew
  <2>5. QED BY <2>3, <2>4 DEF FramesGo
<1>5. DropsUnlent'
  BY <1>4 DEF DropsUnlent
<1>6. ASSUME NEW o \in Objects, NEW p \in HeldByFrames(o)' PROVE p \in HeldByFrames(o)
  <2>1. /\ p[1] \in 1..Len(frames') /\ p[2] \in 1..MaxArgs /\ p = <<p[1], p[2]>>
        /\ p[2] <= Len(frames'[p[1]].lends) /\ frames'[p[1]].lends[p[2]].o = o
    BY <1>6 DEF HeldByFrames
  <2>2. frames'[p[1]].lends # <<>>
    BY <2>1, HandleTableAssumption
  <2>3. p[1] \in 1..Len(frames) /\ frames'[p[1]].lends = frames[p[1]].lends
    BY <1>2, <2>1, <2>2
  <2>4. QED BY <2>1, <2>3 DEF HeldByFrames
<1>7. QED BY <1>3, <1>5, <1>6

(* Then the lends are covered if their counts follow. *)
LEMMA LendsLater ==
  ASSUME IInv, IInv', Lending, FramesGo, KindsStay, LentStays, IsFiniteSet(open'),
         \A s \in Subtasks : SubtaskOK(s)',
         \A o \in Objects : HeldByFrames(o)' \subseteq HeldByFrames(o) => 
           obj'[o].lendCount >= Cardinality(HeldByFrames(o)') + Cardinality(HeldBySubtasks(o)')
  PROVE  Lending'
<1>1. LendsCounted'
  BY FramesLater DEF LendsCounted, LendsHeld
<1>2. QED BY <1>1, FramesLater DEF Lending

(* A step that lends nothing and releases nothing. *)
LEMMA LendsUnchanged ==
  ASSUME IInv, IInv', Lending, FramesGo, LentStays, KindsStay,
         \A o \in Objects : obj'[o].lendCount = obj[o].lendCount \/ obj[o].kind = "none",
         \A o \in Objects : obj[o].kind = "none" => obj'[o].lendCount >= 0,
         lenders' = lenders, 
         open' = open \/ \E s \in Subtasks : open' = open \cup {s} /\ lenders[s] = <<>>
  PROVE  Lending'
<1>1. IsFiniteSet(open')
  BY FS_AddElement DEF Lending
<1>2. \A s \in Subtasks : \A j \in 1..Len(lenders[s]) : lenders[s][j] \in Objects
  BY DEF IInv, TypeOK
<1>3. \A s \in Subtasks : SubtaskOK(s)'
  BY <1>2 DEF Lending, SubtaskOK, KindsStay
<1>4. \A o \in Objects : HeldBySubtasks(o)' \subseteq HeldBySubtasks(o)
  BY DEF HeldBySubtasks
<1>5. ASSUME NEW o \in Objects, HeldByFrames(o)' \subseteq HeldByFrames(o)
      PROVE  obj'[o].lendCount >= Cardinality(HeldByFrames(o)') + Cardinality(HeldBySubtasks(o)')
  <2>1. /\ IsFiniteSet(HeldByFrames(o)) /\ IsFiniteSet(HeldBySubtasks(o))
        /\ Cardinality(HeldByFrames(o)) \in Nat /\ Cardinality(HeldBySubtasks(o)) \in Nat
    BY HeldFinite DEF Lending
  <2>2. /\ Cardinality(HeldByFrames(o)') <= Cardinality(HeldByFrames(o))
        /\ Cardinality(HeldBySubtasks(o)') <= Cardinality(HeldBySubtasks(o))
        /\ IsFiniteSet(HeldByFrames(o)') /\ IsFiniteSet(HeldBySubtasks(o)')
    BY <1>4, <1>5, <2>1, FS_Subset
  <2>3. Cardinality(HeldByFrames(o)') \in Nat /\ Cardinality(HeldBySubtasks(o)') \in Nat
    BY <2>2, FS_CardinalityType
  <2>4. CASE obj[o].kind = "none"
    <3>1. HeldByFrames(o) = {}
      <4>1. ASSUME NEW p \in HeldByFrames(o) PROVE FALSE
        <5>1. /\ p[1] \in 1..Len(frames) /\ p[2] \in 1..Len(frames[p[1]].lends)
              /\ frames[p[1]].lends[p[2]].o = o
          BY <4>1, HandleTableAssumption, TopOK DEF HeldByFrames, StackOK, Frame
        <5>2. QED BY <2>4, <5>1 DEF Lending, FrameOK, LendOK
      <4>2. QED BY <4>1
    <3>2. HeldBySubtasks(o) = {}
      <4>1. ASSUME NEW p \in HeldBySubtasks(o) PROVE FALSE
        <5>1. /\ p[1] \in Subtasks /\ p[2] \in 1..Len(lenders[p[1]])
              /\ lenders[p[1]][p[2]] = o
          BY <4>1, HandleTableAssumption DEF HeldBySubtasks, IInv, TypeOK
        <5>2. QED BY <2>4, <5>1 DEF Lending, SubtaskOK
      <4>2. QED BY <4>1
    <3>3. HeldByFrames(o)' = {} /\ HeldBySubtasks(o)' = {}
      BY <1>4, <1>5, <3>1, <3>2
    <3>4. QED BY <2>4, <3>3, FS_EmptySet
  <2>5. CASE obj[o].kind # "none"
    <3>1. obj'[o].lendCount = obj[o].lendCount /\ obj[o].lendCount \in Int
      BY <2>5 DEF IInv, TypeOK, Entry
    <3>2. obj[o].lendCount >= Cardinality(HeldByFrames(o)) + Cardinality(HeldBySubtasks(o))
      BY DEF Lending, LendsCounted, LendsHeld
    <3>3. QED BY <2>1, <2>2, <2>3, <3>1, <3>2
  <2>6. QED BY <2>4, <2>5
<1>6. QED BY <1>1, <1>3, <1>5, LendsLater

(* The frame on top changes, and keeps its lends. *)
LEMMA TopEdited ==
  ASSUME IInv, NEW f, frames' = SetTop(f), f.lends = Top.lends,
         f.kind \in DropKinds => f.kind = Top.kind /\ f.o = Top.o
  PROVE  FramesGo
<1>1. frames \in Seq(Frame) /\ Len(frames) \in 1..Len(frames)
  BY TopOK DEF StackOK
<1>2. /\ Len(frames') = Len(frames)
      /\ \A i \in 1..Len(frames) : frames'[i] = IF i = Len(frames) THEN f ELSE frames[i]
  BY <1>1 DEF SetTop
<1>3. QED BY <1>1, <1>2 DEF FramesGo, FrameStays, Top

(* Frames above the n-th go. *)
LEMMA FramesCut ==
  ASSUME IInv, NEW n \in 1..Len(frames), frames' = SubSeq(frames, 1, n)
  PROVE  FramesGo
<1>1. frames \in Seq(Frame) /\ Len(frames) \in Nat
  BY TopOK DEF StackOK
<1>2. Len(frames') = n /\ \A i \in 1..n : frames'[i] = frames[i]
  BY <1>1
<1>3. QED BY <1>1, <1>2 DEF FramesGo, FrameStays

(* A call ends. *)
LEMMA FramesPopped ==
  ASSUME IInv, Top.kind # "root", frames' = Pop
  PROVE  FramesGo
BY TopOK, FramesCut DEF Pop

(* A call begins, or a destructor. *)
LEMMA FramesPushed ==
  ASSUME IInv, NEW f, frames' = Push(f), f.lends = <<>>,
         f.kind \in DropKinds => f.o \in Objects /\ obj[f.o].lendCount = 0
  PROVE  FramesGo
<1>1. frames \in Seq(Frame) /\ Len(frames) \in Nat
  BY TopOK DEF StackOK
<1>2. /\ Len(frames') = Len(frames) + 1 /\ frames'[Len(frames) + 1] = f
      /\ \A i \in 1..Len(frames) : frames'[i] = frames[i]
  BY <1>1 DEF Push
<1>3. QED BY <1>1, <1>2 DEF FramesGo, FrameStays, FrameIsNew

(* No call begins or ends. *)
LEMMA FramesSame ==
  ASSUME IInv, frames' = frames
  PROVE  FramesGo
<1>1. Len(frames) \in Nat
  BY TopOK
<1>2. QED BY <1>1 DEF FramesGo, FrameStays

(* A step that keeps the entries. *)
LEMMA EntriesSame ==
  ASSUME Lending, entries' = entries
  PROVE  LentStays
BY DEF Lending, FrameOK, LendOK, LentStays

(* A step that removes an entry that no frame has lent. *)
LEMMA EntryRemoved ==
  ASSUME Lending, NEW h \in DOMAIN entries, RemoveEntry(h),
         \A i \in 1..Len(frames) : \A j \in 1..Len(frames[i].lends) :
           frames[i].lends[j].o # entries[h]
  PROVE  LentStays
<1>1. DOMAIN entries' = DOMAIN entries \ {h} /\ \A x \in DOMAIN entries' : entries'[x] = entries[x]
  BY DEF RemoveEntry
<1>2. QED BY <1>1 DEF Lending, FrameOK, LendOK, LentStays

(* Lends are counted from zero. *)
LEMMA LendCountIsNat ==
  ASSUME IInv, Lending, NEW o \in Objects
  PROVE  obj[o].lendCount \in Int /\ obj[o].lendCount >= 0
<1>1. /\ Cardinality(HeldByFrames(o)) \in Nat /\ Cardinality(HeldBySubtasks(o)) \in Nat
      /\ obj[o].lendCount \in Int
  BY HeldFinite DEF Lending, IInv, TypeOK, Entry
<1>2. QED BY <1>1 DEF Lending, LendsCounted, LendsHeld

(* The edits of a frame that keep its lends. *)
LEMMA EditLends ==
  ASSUME NEW f \in Frame
  PROVE  /\ \A b \in BOOLEAN : /\ [f EXCEPT !.guest = b].lends = f.lends
                               /\ [f EXCEPT !.guest = b].kind = f.kind
                               /\ [f EXCEPT !.guest = b].o = f.o
         /\ [f EXCEPT !.kind = "call"].lends = f.lends
BY DEF Frame

-----------------------------------------------------------------------------
(* Entering, leaving, trapping, starting and ending calls, task.return. *)
LEMMA LendStackStep ==
  ASSUME IInv, IInv', Lending,
         \/ EnterGuest \/ LeaveGuest \/ GuestTrap \/ BeginCall \/ RunCall \/ LiftFails
         \/ DtorFails \/ (\E s \in Subtasks : BeginAsyncCall(s)) \/ \E t \in Tasks : TaskReturn(t)
  PROVE  Lending'
<1>1. /\ UNCHANGED <<entries, obj, lenders>>
      /\ open' = open \/ \E s \in Subtasks : open' = open \cup {s} /\ lenders[s] = <<>>
  BY DEF EnterGuest, LeaveGuest, GuestTrap, BeginCall, RunCall, LiftFails, DtorFails,
         BeginAsyncCall, TaskReturn, tableVars
<1>2. LentStays
  BY <1>1, EntriesSame
<1>3. KindsStay /\ \A o \in Objects : obj'[o].lendCount = obj[o].lendCount
  BY <1>1 DEF KindsStay
<1>4. Top \in Frame /\ Len(frames) \in Nat
  BY TopOK
<1>5. \A o \in Objects : obj[o].kind = "none" => obj'[o].lendCount >= 0
  BY <1>1, LendCountIsNat
<1>6. FramesGo
  <2>1. CASE EnterGuest \/ LeaveGuest \/ GuestTrap
    <3>1. PICK b \in BOOLEAN : frames' = SetTop([Top EXCEPT !.guest = b])
      BY <2>1 DEF EnterGuest, LeaveGuest, GuestTrap
    <3> DEFINE f == [Top EXCEPT !.guest = b]
    <3>2. f.lends = Top.lends /\ f.kind = Top.kind /\ f.o = Top.o
      BY <1>4, EditLends
    <3> HIDE DEF f
    <3>3. frames' = SetTop(f)
      BY <3>1 DEF f
    <3>4. QED BY <3>2, <3>3, TopEdited
  <2>2. CASE RunCall
    <3> DEFINE f == [Top EXCEPT !.kind = "call"]
    <3>1. frames' = SetTop(f) /\ f.lends = Top.lends /\ f.kind \notin DropKinds
      BY <1>4, <2>2, EditLends, EditKeeps DEF RunCall, DropKinds
    <3> HIDE DEF f
    <3>2. QED BY <3>1, TopEdited
  <2>3. CASE BeginCall \/ \E s \in Subtasks : BeginAsyncCall(s)
    <3>1. PICK k \in {"lift", "alift"}, x \in Subtasks \cup {NoSubtask} :
            frames' = Push(CallFrame(k, x))
      BY <2>3 DEF BeginCall, BeginAsyncCall
    <3>2. CallFrame(k, x).kind \notin DropKinds /\ CallFrame(k, x).lends = <<>>
      BY DEF CallFrame, NewFrame, DropKinds
    <3>3. QED BY <3>1, <3>2, FramesPushed
  <2>4. CASE DtorFails
    BY <2>4, FramesPopped DEF DtorFails, DtorReturned
  <2>5. CASE LiftFails
    <3> DEFINE n == Len(frames) - 1
               below == frames[n]
    <3>1. n \in 1..Len(frames) /\ below \in Frame /\ n \in Nat
      BY <2>5, TopOK, CallHasCaller DEF LiftFails
    <3>2. CASE below.kind = "gdrop"
      <4>1. Len(frames) - 2 \in 1..Len(frames)
        BY <3>1, <3>2, TopOK, CallHasCaller
      <4>2. frames' = SubSeq(frames, 1, Len(frames) - 2)
        BY <2>5, <3>2 DEF LiftFails
      <4>3. QED BY <4>1, <4>2, FramesCut
    <3>3. CASE below.kind # "gdrop"
      <4> DEFINE f == [below EXCEPT !.guest = FALSE]
      <4>1. frames' = [Pop EXCEPT ![n] = f]
        BY <2>5, <3>3 DEF LiftFails
      <4>2. frames \in Seq(Frame)
        BY TopOK DEF StackOK
      <4>3. Pop \in Seq(Frame) /\ Len(Pop) = n /\ \A i \in 1..n : Pop[i] = frames[i]
        BY <1>4, <3>1, <4>2 DEF Pop
      <4>4. f.kind = below.kind /\ f.o = below.o /\ f.lends = below.lends
        BY <3>1, EditLends
      <4> HIDE DEF f
      <4>5. Len(frames') = n /\ \A i \in 1..n : frames'[i] = IF i = n THEN f ELSE frames[i]
        BY <3>1, <4>1, <4>3
      <4>6. QED BY <1>4, <3>1, <4>4, <4>5 DEF FramesGo, FrameStays
    <3>4. QED BY <3>2, <3>3
  <2>6. ASSUME NEW t \in Tasks, TaskReturn(t) PROVE FramesGo
    BY <2>6, FramesSame DEF TaskReturn
  <2>7. QED BY <2>1, <2>2, <2>3, <2>4, <2>5, <2>6
<1>7. QED BY <1>1, <1>2, <1>3, <1>5, <1>6, LendsUnchanged

(* Removals: what is consumed is not lent, other kinds are never lent, and  *)
(* DropResource removes what no call below it has lent.                    *)
LEMMA LendRemovalStep ==
  ASSUME IInv, IInv', Lending,
         \/ FinishDropResource
         \/ \E h \in DOMAIN entries : \/ RemoveOther(h) \/ BeginDropResource(h)
                                      \/ \E tag \in Tags : TakeOwn(tag, h) \/ Drop(tag, h)
  PROVE  Lending'
<1>1. UNCHANGED <<obj, lenders, open>>
  BY DEF FinishDropResource, RemoveOther, BeginDropResource, TakeOwn, Drop, callVars
<1>2. KindsStay /\ \A o \in Objects : obj'[o].lendCount = obj[o].lendCount
  BY <1>1 DEF KindsStay
<1>3. \A o \in Objects : obj[o].kind = "none" => obj'[o].lendCount >= 0
  BY <1>1, LendCountIsNat
<1>4. \A h \in DOMAIN entries : entries[h] \in Objects
  BY DEF IInv, TypeOK
<1>5. ASSUME NEW h \in DOMAIN entries,
             RemoveOther(h) \/ \E tag \in Tags : TakeOwn(tag, h) \/ Drop(tag, h)
      PROVE  Lending'
  <2>1. RemoveEntry(h) /\ frames' = frames
    BY <1>5 DEF RemoveOther, TakeOwn, Drop, callVars
  <2>2. ASSUME NEW i \in 1..Len(frames), NEW j \in 1..Len(frames[i].lends)
        PROVE  frames[i].lends[j].o # entries[h]
    <3>1. LendOK(frames[i].lends[j])
      BY DEF Lending, FrameOK
    <3>2. obj[entries[h]].kind = "other" \/ obj[entries[h]].lendCount = 0
      BY <1>5 DEF RemoveOther, TakeOwn, Drop
    <3>3. QED BY <1>4, <3>1, <3>2, NotLent DEF LendOK
  <2>3. LentStays
    BY <2>1, <2>2, EntryRemoved
  <2>4. QED BY <1>1, <1>2, <1>3, <2>1, <2>3, FramesSame, LendsUnchanged
<1>6. ASSUME NEW h \in DOMAIN entries, BeginDropResource(h)
      PROVE  Lending'
  <2> DEFINE o == entries[h]
             k == IF obj[o].tag \in GuestDtorTags THEN "gdrop" ELSE "hdrop"
             f == DropFrame(k, h, o)
  <2>1. obj[o].lendCount = 0 /\ frames' = Push(f) /\ entries' = entries
    BY <1>6 DEF BeginDropResource, tableVars
  <2>2. o \in Objects /\ f.o = o /\ f.lends = <<>>
    BY <1>4 DEF DropFrame, NewFrame
  <2> HIDE DEF f
  <2>3. FramesGo
    BY <2>1, <2>2, FramesPushed
  <2>4. QED BY <1>1, <1>2, <1>3, <2>1, <2>3, EntriesSame, LendsUnchanged
<1>7. CASE FinishDropResource
  <2>1. frames' = Pop /\ Top.kind \in DropKinds
    BY <1>7 DEF FinishDropResource, DtorReturned, DropKinds
  <2>2. FramesGo
    BY <2>1, FramesPopped DEF DropKinds
  <2>3. CASE StillNames(Top.h, Top.o)
    <3>1. Top.h \in DOMAIN entries /\ entries[Top.h] = Top.o /\ RemoveEntry(Top.h)
      BY <1>7, <2>3 DEF FinishDropResource, StillNames
    <3>2. \A i \in 1..Len(frames) : \A j \in 1..Len(frames[i].lends) : frames[i].lends[j].o # Top.o
      BY <2>1, TopOK DEF Lending, DropsUnlent, Top
    <3>3. LentStays
      BY <3>1, <3>2, EntryRemoved
    <3>4. QED BY <1>1, <1>2, <1>3, <2>2, <3>3, LendsUnchanged
  <2>4. CASE ~StillNames(Top.h, Top.o)
    <3>1. entries' = entries
      BY <1>7, <2>4 DEF FinishDropResource, tableVars
    <3>2. QED BY <1>1, <1>2, <1>3, <2>2, <3>1, EntriesSame, LendsUnchanged
  <2>5. QED BY <2>3, <2>4
<1>8. QED BY <1>5, <1>6, <1>7

-----------------------------------------------------------------------------
(* A new entry is not lent. *)
LEMMA NewIsUnlent ==
  /\ \A tag \in Tags, own \in BOOLEAN, scope \in Tasks \cup {NoTask} :
       Resource(tag, own, scope) \in Entry /\ Resource(tag, own, scope).lendCount = 0
  /\ Other \in Entry /\ Other.lendCount = 0
BY DEF Resource, Other, NewEntry, Entry

(* Minting a handle. *)
LEMMA LendMintStep == ASSUME IInv, IInv', Lending, ~closed, Mint PROVE Lending'
<1>1. PICK o \in Objects, e \in Entry : AddEntry(o, e) /\ e.lendCount = 0
  <2>1. ASSUME NEW o \in Objects, NEW e \in Entry, AddEntry(o, e), e.lendCount = 0
        PROVE  \E x \in Objects, y \in Entry : AddEntry(x, y) /\ y.lendCount = 0
    BY <2>1
  <2>2. ASSUME NEW o \in Objects, NEW tag \in Tags, NEW own \in BOOLEAN,
               NEW scope \in Tasks \cup {NoTask}, AddEntry(o, Resource(tag, own, scope))
        PROVE  \E x \in Objects, y \in Entry : AddEntry(x, y) /\ y.lendCount = 0
    BY <2>1, <2>2, NewIsUnlent
  <2>3. ASSUME NEW o \in Objects, AddEntry(o, Other)
        PROVE  \E x \in Objects, y \in Entry : AddEntry(x, y) /\ y.lendCount = 0
    BY <2>1, <2>3, NewIsUnlent
  <2>4. QED BY <2>2, <2>3 DEF Mint, NewOwn, NewBorrow, NewBorrowScoped, NewOther
<1>2. UNCHANGED <<frames, lenders, open>>
  BY DEF Mint, NewOwn, NewBorrow, NewBorrowScoped, NewOther, callVars
<1>3. NextHandle \notin DOMAIN entries
  BY NextIsFresh
<1>4. \A h \in DOMAIN entries : h \in DOMAIN entries' /\ entries'[h] = entries[h]
  BY <1>1, <1>3 DEF AddEntry
<1>5. LentStays
  BY <1>4 DEF LentStays, Lending, FrameOK, LendOK
<1>6. obj'[o] = e /\ obj[o].kind = "none" /\ \A x \in Objects : x # o => obj'[x] = obj[x]
  BY <1>1 DEF AddEntry, IInv, TypeOK
<1>7. KindsStay /\ \A x \in Objects : obj'[x].lendCount = obj[x].lendCount \/ obj[x].kind = "none"
  BY <1>6 DEF KindsStay
<1>8. ASSUME NEW x \in Objects, obj[x].kind = "none" PROVE obj'[x].lendCount >= 0
  <2>1. CASE x = o
    BY <1>1, <1>6, <2>1
  <2>2. CASE x # o
    BY <1>6, <2>2, LendCountIsNat
  <2>3. QED BY <2>1, <2>2
<1>9. QED BY <1>2, <1>5, <1>7, <1>8, FramesSame, LendsUnchanged

(* A lend counts one more on its entry. *)
LEMMA LentCounts ==
  ASSUME IInv, NEW o \in Objects, Lent(o)
  PROVE  /\ obj'[o].lendCount = obj[o].lendCount + 1
         /\ \A x \in Objects : /\ obj'[x].kind = obj[x].kind
                               /\ x # o => obj'[x].lendCount = obj[x].lendCount
<1> DEFINE e == [obj[o] EXCEPT !.lendCount = @ + 1]
<1>1. obj \in [Objects -> Entry] /\ obj' = [obj EXCEPT ![o] = e]
  BY DEF IInv, TypeOK, Lent
<1>2. e.lendCount = obj[o].lendCount + 1 /\ e.kind = obj[o].kind
  BY <1>1 DEF Entry
<1> HIDE DEF e
<1>3. QED BY <1>1, <1>2

(* What LendOK says after the step. *)
LendLater(l) == /\ obj'[l.o].kind = "resource"
                /\ l.h \in DOMAIN entries' /\ entries'[l.h] = l.o

(* A frame with such lends. *)
LEMMA FrameLater ==
  ASSUME NEW i, Len(frames'[i].lends) <= MaxArgs,
         \A j \in 1..Len(frames'[i].lends) : LendLater(frames'[i].lends[j])
  PROVE  FrameOK(frames[i])'
BY DEF FrameOK, LendOK, LendLater

(* A borrow argument of a synchronous import. *)
LEMMA LendLiftStep ==
  ASSUME IInv, IInv', Lending, NEW tag \in Tags, NEW h \in DOMAIN entries, LiftBorrow(tag, h)
  PROVE  Lending'
<1> DEFINE o == entries[h]
           l == [tag |-> tag, h |-> h, o |-> o]
           L == Append(Top.lends, l)
           f == [Top EXCEPT !.lends = L]
           n == Len(frames)
           m == Len(Top.lends)
<1>1. /\ Top.kind = "lift" /\ m < MaxArgs /\ Resolves(tag, h) /\ Lent(o) /\ frames' = SetTop(f)
      /\ UNCHANGED <<entries, lenders, open>>
  BY DEF LiftBorrow, tableVars
<1>2. /\ o \in Objects /\ Top \in Frame /\ frames \in Seq(Frame) /\ n \in Nat /\ n \in 1..n
      /\ Top = frames[n] /\ h \in Handles
  BY TopOK DEF IInv, TypeOK, StackOK, Top
<1>3. l \in Lend /\ Top.lends \in Seq(Lend) /\ l.o = o /\ l.h = h
  BY <1>2 DEF Lend, Frame
<1>4. f.lends = L /\ f.kind = "lift"
  BY <1>1, <1>2 DEF Frame
<1> HIDE DEF f, l
<1>5. /\ Len(frames') = n /\ frames'[n] = f
      /\ \A i \in 1..n : i # n => frames'[i] = frames[i]
  BY <1>1, <1>2 DEF SetTop
<1>6. Len(L) = m + 1 /\ L[m + 1] = l /\ m \in Nat /\ \A j \in 1..m : L[j] = Top.lends[j]
  BY <1>3
<1> HIDE DEF L
<1>7. /\ obj'[o].lendCount = obj[o].lendCount + 1
      /\ \A x \in Objects : obj'[x].kind = obj[x].kind
      /\ \A x \in Objects : x # o => obj'[x].lendCount = obj[x].lendCount
  BY <1>1, <1>2, LentCounts
<1>8. \A x : LendOK(x) => LendLater(x)
  BY <1>1, <1>2, <1>7 DEF LendOK, LendLater, IInv, TypeOK
<1>9. ASSUME NEW i \in 1..Len(frames') PROVE FrameOK(frames[i])'
  <2>1. CASE i # n
    <3>1. frames'[i] = frames[i] /\ FrameOK(frames[i])
      BY <1>5, <2>1 DEF Lending
    <3>2. QED BY <1>8, <3>1, FrameLater DEF FrameOK
  <2>2. CASE i = n
    <3>1. FrameOK(Top)
      BY <1>2 DEF Lending
    <3>2. LendLater(l)
      BY <1>1, <1>2, <1>3, <1>7 DEF LendLater, Resolves
    <3>3. Len(L) <= MaxArgs
      BY <1>1, <1>6, HandleTableAssumption
    <3>4. ASSUME NEW j \in 1..Len(L) PROVE LendLater(L[j])
      <4>1. CASE j = m + 1
        BY <1>6, <3>2, <4>1
      <4>2. CASE j # m + 1
        <5>1. j \in 1..m /\ L[j] = Top.lends[j]
          BY <1>6, <4>2
        <5>2. LendOK(Top.lends[j])
          BY <3>1, <5>1 DEF FrameOK
        <5>3. QED BY <1>8, <5>1, <5>2
      <4>3. QED BY <4>1, <4>2
    <3>5. QED BY <1>4, <1>5, <2>2, <3>3, <3>4, FrameLater
  <2>3. QED BY <2>1, <2>2
<1>10. DropsUnlent'
  <2>1. ASSUME NEW i \in 1..n, NEW k \in 1..n, k <= i, frames'[i].kind \in DropKinds
        PROVE  \A j \in 1..Len(frames'[k].lends) : frames'[k].lends[j].o # frames'[i].o
    <3>1. i # n
      BY <1>4, <1>5, <2>1 DEF DropKinds
    <3>2. k # n
      BY <1>2, <2>1, <3>1
    <3>3. QED BY <1>5, <2>1, <3>1, <3>2 DEF Lending, DropsUnlent
  <2>2. QED BY <1>5, <2>1 DEF DropsUnlent
<1>11. \A s \in Subtasks : SubtaskOK(s)'
  <2>1. \A s \in Subtasks : \A j \in 1..Len(lenders[s]) : lenders[s][j] \in Objects
    BY DEF IInv, TypeOK
  <2>2. QED BY <1>1, <1>7, <2>1 DEF Lending, SubtaskOK
<1>12. ASSUME NEW x \in Objects PROVE obj'[x].lendCount >= LendsHeld(x)'
  <2>1. HeldBySubtasks(x)' = HeldBySubtasks(x)
    BY <1>1 DEF HeldBySubtasks
  <2>2. ASSUME NEW p \in HeldByFrames(x)', p \notin HeldByFrames(x)
        PROVE  x = o /\ p = <<n, m + 1>>
    <3>1. /\ p[1] \in 1..n /\ p[2] \in 1..MaxArgs /\ p = <<p[1], p[2]>>
          /\ p[2] <= Len(frames'[p[1]].lends) /\ frames'[p[1]].lends[p[2]].o = x
      BY <1>5, <2>2 DEF HeldByFrames
    <3>2. p[1] = n
      BY <1>5, <2>2, <3>1 DEF HeldByFrames
    <3>3. p[2] \in 1..Len(L) /\ L[p[2]].o = x
      BY <1>4, <1>5, <1>6, <3>1, <3>2, HandleTableAssumption
    <3>4. p[2] = m + 1
      BY <1>2, <1>6, <2>2, <3>1, <3>2, <3>3 DEF HeldByFrames
    <3>5. QED BY <1>3, <1>6, <3>1, <3>2, <3>3, <3>4
  <2>3. /\ IsFiniteSet(HeldByFrames(x)) /\ Cardinality(HeldByFrames(x)) \in Nat
        /\ Cardinality(HeldBySubtasks(x)) \in Nat /\ obj[x].lendCount \in Int
    BY HeldFinite DEF Lending, IInv, TypeOK, Entry
  <2>4. obj[x].lendCount >= Cardinality(HeldByFrames(x)) + Cardinality(HeldBySubtasks(x))
    BY DEF Lending, LendsCounted, LendsHeld
  <2>5. CASE x = o
    <3>1. HeldByFrames(x)' \subseteq HeldByFrames(x) \cup {<<n, m + 1>>}
      BY <2>2
    <3>2. /\ IsFiniteSet(HeldByFrames(x) \cup {<<n, m + 1>>})
          /\ Cardinality(HeldByFrames(x) \cup {<<n, m + 1>>}) =
               IF <<n, m + 1>> \in HeldByFrames(x) THEN Cardinality(HeldByFrames(x))
               ELSE Cardinality(HeldByFrames(x)) + 1
      BY <2>3, FS_AddElement
    <3>3. Cardinality(HeldByFrames(x)') <= Cardinality(HeldByFrames(x) \cup {<<n, m + 1>>})
          /\ IsFiniteSet(HeldByFrames(x)')
      BY <3>1, <3>2, FS_Subset
    <3>4. Cardinality(HeldByFrames(x)') \in Nat
          /\ Cardinality(HeldByFrames(x) \cup {<<n, m + 1>>}) \in Nat
      BY <3>2, <3>3, FS_CardinalityType
    <3>5. QED BY <1>7, <2>1, <2>3, <2>4, <2>5, <3>2, <3>3, <3>4 DEF LendsHeld
  <2>6. CASE x # o
    <3>1. HeldByFrames(x)' \subseteq HeldByFrames(x)
      BY <2>2, <2>6
    <3>2. Cardinality(HeldByFrames(x)') <= Cardinality(HeldByFrames(x))
          /\ IsFiniteSet(HeldByFrames(x)')
      BY <2>3, <3>1, FS_Subset
    <3>3. Cardinality(HeldByFrames(x)') \in Nat
      BY <3>2, FS_CardinalityType
    <3>4. QED BY <1>7, <2>1, <2>3, <2>4, <2>6, <3>2, <3>3 DEF LendsHeld
  <2>7. QED BY <2>5, <2>6
<1>13. QED BY <1>1, <1>9, <1>10, <1>11, <1>12 DEF Lending, LendsCounted

(* A borrow argument of an asynchronous import. *)
LEMMA LendAsyncStep ==
  ASSUME IInv, IInv', Lending, NEW tag \in Tags, NEW h \in DOMAIN entries, LiftAsyncBorrow(tag, h)
  PROVE  Lending'
<1> DEFINE o == entries[h]
           s == Top.sub
           m == Len(lenders[s])
<1>1. /\ m < MaxArgs /\ Resolves(tag, h) /\ Lent(o)
      /\ lenders' = [lenders EXCEPT ![s] = Append(@, o)]
      /\ UNCHANGED <<entries, frames, open>>
  BY DEF LiftAsyncBorrow, tableVars
<1>2. o \in Objects /\ lenders \in [Subtasks -> Seq(Objects)] /\ open \subseteq Subtasks
  BY DEF IInv, TypeOK
<1>3. /\ obj'[o].lendCount = obj[o].lendCount + 1
      /\ \A x \in Objects : obj'[x].kind = obj[x].kind
      /\ \A x \in Objects : x # o => obj'[x].lendCount = obj[x].lendCount
  BY <1>1, <1>2, LentCounts
<1>4. /\ \A r \in Subtasks : r # s => lenders'[r] = lenders[r]
      /\ s \in Subtasks => /\ Len(lenders'[s]) = m + 1 /\ lenders'[s][m + 1] = o /\ m \in Nat
                           /\ \A j \in 1..m : lenders'[s][j] = lenders[s][j]
  BY <1>1, <1>2
<1>5. FramesGo /\ LentStays /\ KindsStay
  BY <1>1, <1>3, FramesSame, EntriesSame DEF KindsStay
<1>6. ASSUME NEW r \in Subtasks PROVE SubtaskOK(r)'
  <2>0. SubtaskOK(r) /\ \A j \in 1..Len(lenders[r]) : lenders[r][j] \in Objects
    BY <1>2 DEF Lending
  <2>1. CASE r # s
    BY <1>3, <1>4, <2>0, <2>1 DEF SubtaskOK
  <2>2. CASE r = s
    <3>1. m + 1 <= MaxArgs
      BY <1>1, <1>4, <2>2, HandleTableAssumption
    <3>2. ASSUME NEW j \in 1..(m + 1) PROVE obj'[lenders'[s][j]].kind # "none"
      <4>1. CASE j = m + 1
        BY <1>1, <1>2, <1>3, <1>4, <2>2, <4>1 DEF Resolves
      <4>2. CASE j # m + 1
        <5>1. j \in 1..m /\ lenders'[s][j] = lenders[s][j]
          BY <1>4, <2>2, <4>2
        <5>2. lenders[s][j] \in Objects /\ obj[lenders[s][j]].kind # "none"
          BY <2>0, <2>2, <5>1 DEF SubtaskOK
        <5>3. QED BY <1>3, <5>1, <5>2
      <4>3. QED BY <4>1, <4>2
    <3>3. QED BY <1>4, <2>2, <3>1, <3>2 DEF SubtaskOK
  <2>3. QED BY <2>1, <2>2
<1>7. ASSUME NEW x \in Objects
      PROVE  obj'[x].lendCount >= Cardinality(HeldByFrames(x)') + Cardinality(HeldBySubtasks(x)')
  <2>1. HeldByFrames(x)' = HeldByFrames(x)
    BY <1>1 DEF HeldByFrames
  <2>2. ASSUME NEW p \in HeldBySubtasks(x)', p \notin HeldBySubtasks(x)
        PROVE  x = o /\ p = <<s, m + 1>>
    <3>1. /\ p[1] \in open /\ p[1] \in Subtasks /\ p[2] \in 1..MaxArgs /\ p = <<p[1], p[2]>>
          /\ p[2] <= Len(lenders'[p[1]]) /\ lenders'[p[1]][p[2]] = x
      BY <1>1, <1>2, <2>2 DEF HeldBySubtasks
    <3>2. p[1] = s
      BY <1>4, <2>2, <3>1 DEF HeldBySubtasks
    <3>3. p[2] \in 1..(m + 1)
      BY <1>4, <3>1, <3>2, HandleTableAssumption
    <3>4. p[2] = m + 1
      BY <1>4, <2>2, <3>1, <3>2, <3>3 DEF HeldBySubtasks
    <3>5. QED BY <1>4, <3>1, <3>2, <3>4
  <2>3. /\ IsFiniteSet(HeldBySubtasks(x)) /\ Cardinality(HeldByFrames(x)) \in Nat
        /\ Cardinality(HeldBySubtasks(x)) \in Nat /\ obj[x].lendCount \in Int
    BY HeldFinite DEF Lending, IInv, TypeOK, Entry
  <2>4. obj[x].lendCount >= Cardinality(HeldByFrames(x)) + Cardinality(HeldBySubtasks(x))
    BY DEF Lending, LendsCounted, LendsHeld
  <2>5. CASE x = o
    <3>1. HeldBySubtasks(x)' \subseteq HeldBySubtasks(x) \cup {<<s, m + 1>>}
      BY <2>2
    <3>2. /\ IsFiniteSet(HeldBySubtasks(x) \cup {<<s, m + 1>>})
          /\ Cardinality(HeldBySubtasks(x) \cup {<<s, m + 1>>}) =
               IF <<s, m + 1>> \in HeldBySubtasks(x) THEN Cardinality(HeldBySubtasks(x))
               ELSE Cardinality(HeldBySubtasks(x)) + 1
      BY <2>3, FS_AddElement
    <3>3. Cardinality(HeldBySubtasks(x)') <= Cardinality(HeldBySubtasks(x) \cup {<<s, m + 1>>})
          /\ IsFiniteSet(HeldBySubtasks(x)')
      BY <3>1, <3>2, FS_Subset
    <3>4. Cardinality(HeldBySubtasks(x)') \in Nat
          /\ Cardinality(HeldBySubtasks(x) \cup {<<s, m + 1>>}) \in Nat
      BY <3>2, <3>3, FS_CardinalityType
    <3>5. QED BY <1>3, <2>1, <2>3, <2>4, <2>5, <3>2, <3>3, <3>4
  <2>6. CASE x # o
    <3>1. HeldBySubtasks(x)' \subseteq HeldBySubtasks(x)
      BY <2>2, <2>6
    <3>2. Cardinality(HeldBySubtasks(x)') <= Cardinality(HeldBySubtasks(x))
          /\ IsFiniteSet(HeldBySubtasks(x)')
      BY <2>3, <3>1, FS_Subset
    <3>3. Cardinality(HeldBySubtasks(x)') \in Nat
      BY <3>2, FS_CardinalityType
    <3>4. QED BY <1>3, <2>1, <2>3, <2>4, <2>6, <3>2, <3>3
  <2>7. QED BY <2>5, <2>6
<1>8. IsFiniteSet(open')
  BY <1>1 DEF Lending
<1>9. QED BY <1>5, <1>6, <1>7, <1>8, LendsLater

(* What is released is no more than what was lent. *)
LEMMA Released ==
  ASSUME NEW S, IsFiniteSet(S), NEW P \in SUBSET S, NEW k \in Nat, k <= Cardinality(P),
         NEW c \in Int, NEW r \in Nat, c >= Cardinality(S) + r
  PROVE  c - k >= Cardinality(S \ P) + r /\ c >= k /\ Cardinality(S \ P) \in Nat
<1>1. IsFiniteSet(P) /\ IsFiniteSet(S \ P) /\ S \cap P = P
  BY FS_Subset, FS_Difference
<1>2. /\ Cardinality(S \ P) = Cardinality(S) - Cardinality(P)
  BY <1>1, FS_Difference
<1>3. Cardinality(S) \in Nat /\ Cardinality(P) \in Nat /\ Cardinality(S \ P) \in Nat
  BY <1>1, FS_CardinalityType
<1>4. QED BY <1>2, <1>3

(* The lends of a synchronous import end with it. *)
LEMMA LendReturnStep ==
  ASSUME IInv, IInv', Lending, ReturnCall
  PROVE  Lending'
<1> DEFINE n == Len(frames)
           On(o) == {p \in HeldByFrames(o) : p[1] = n}
           Ends(o) == LendsOn(Top.lends, o)
<1>1. /\ Top.kind = "call" /\ frames' = Pop
      /\ obj' = [o \in Objects |-> Unlend(obj[o], Ends(o))]
      /\ UNCHANGED <<entries, lenders, open>>
  BY DEF ReturnCall, tableVars
<1>2. /\ Top \in Frame /\ frames \in Seq(Frame) /\ n \in Nat /\ n \in 1..n /\ Top = frames[n]
      /\ n >= 2 /\ Len(Top.lends) \in Nat
  BY <1>1, TopOK DEF StackOK, Top, Frame
<1>3. FramesGo
  BY <1>1, FramesPopped
<1>4. LentStays
  BY <1>1, EntriesSame
<1>5. \A o \in Objects : Ends(o) \in Nat
  BY <1>2, PositionsCount DEF LendsOn
<1> HIDE DEF Ends
<1>6. ASSUME NEW o \in Objects
      PROVE  /\ obj'[o].kind = obj[o].kind
             /\ obj[o].lendCount >= Ends(o) => obj'[o].lendCount = obj[o].lendCount - Ends(o)
  <2>1. obj[o] \in Entry /\ obj'[o] = Unlend(obj[o], Ends(o)) /\ obj[o].lendCount \in Int
    BY <1>1 DEF IInv, TypeOK, Entry
  <2>2. QED BY <1>5, <2>1 DEF Unlend, Entry
<1>7. KindsStay
  BY <1>6 DEF KindsStay
<1>8. ASSUME NEW o \in Objects PROVE Ends(o) <= Cardinality(On(o))
  <2>1. IsFiniteSet(HeldByFrames(o)) /\ On(o) \in SUBSET HeldByFrames(o)
    BY HeldFinite DEF Lending
  <2>2. IsFiniteSet(On(o))
    BY <2>1, FS_Subset
  <2>3. ASSUME NEW i \in 1..Len(Top.lends), Resolves(Top.lends[i].tag, Top.lends[i].h),
               entries[Top.lends[i].h] = o
        PROVE  <<n, i>> \in On(o)
    <3>1. FrameOK(Top)
      BY <1>2 DEF Lending
    <3>2. Top.lends[i].o = o /\ i \in 1..MaxArgs
      BY <1>2, <2>3, <3>1, HandleTableAssumption DEF FrameOK, LendOK
    <3>3. QED BY <1>2, <3>2 DEF HeldByFrames
  <2>4. QED BY <2>2, <2>3, Paired DEF Ends, LendsOn
<1>9. ASSUME NEW o \in Objects, HeldByFrames(o)' \subseteq HeldByFrames(o)
      PROVE  obj'[o].lendCount >= Cardinality(HeldByFrames(o)') + Cardinality(HeldBySubtasks(o)')
  <2>1. HeldByFrames(o)' = HeldByFrames(o) \ On(o)
    <3>1. frames' = SubSeq(frames, 1, n - 1) /\ Len(frames') = n - 1
          /\ \A i \in 1..(n - 1) : frames'[i] = frames[i]
      BY <1>1, <1>2 DEF Pop
    <3>2. ASSUME NEW p \in HeldByFrames(o)' PROVE p \notin On(o)
      BY <1>2, <3>1, <3>2 DEF HeldByFrames
    <3>3. ASSUME NEW p \in HeldByFrames(o), p \notin On(o) PROVE p \in HeldByFrames(o)'
      <4>1. p[1] \in 1..n /\ p[1] # n
        BY <3>3 DEF HeldByFrames
      <4>2. p[1] \in 1..(n - 1)
        BY <1>2, <4>1
      <4>3. QED BY <3>1, <3>3, <4>2 DEF HeldByFrames
    <3>4. QED BY <1>9, <3>2, <3>3
  <2>2. HeldBySubtasks(o)' = HeldBySubtasks(o)
    BY <1>1 DEF HeldBySubtasks
  <2>3. /\ IsFiniteSet(HeldByFrames(o)) /\ Cardinality(HeldBySubtasks(o)) \in Nat
        /\ obj[o].lendCount \in Int
    BY HeldFinite DEF Lending, IInv, TypeOK, Entry
  <2>4. obj[o].lendCount >= Cardinality(HeldByFrames(o)) + Cardinality(HeldBySubtasks(o))
    BY DEF Lending, LendsCounted, LendsHeld
  <2>5. /\ obj[o].lendCount - Ends(o) >=
             Cardinality(HeldByFrames(o) \ On(o)) + Cardinality(HeldBySubtasks(o))
        /\ obj[o].lendCount >= Ends(o)
    BY <1>5, <1>8, <2>3, <2>4, Released
  <2>6. QED BY <1>6, <2>1, <2>2, <2>5
<1>10. /\ IsFiniteSet(open')
       /\ \A s \in Subtasks : SubtaskOK(s)'
  <2>1. \A s \in Subtasks : \A j \in 1..Len(lenders[s]) : lenders[s][j] \in Objects
    BY DEF IInv, TypeOK
  <2>2. QED BY <1>1, <1>6, <2>1 DEF Lending, SubtaskOK
<1>11. QED BY <1>3, <1>4, <1>7, <1>9, <1>10, LendsLater

(* The lends of an asynchronous import end with the delivery of its event. *)
LEMMA LendDeliverStep ==
  ASSUME IInv, IInv', Lending, NEW s \in Subtasks, DeliverResolve(s)
  PROVE  Lending'
<1> DEFINE Ends(o) == Cardinality({i \in 1..Len(lenders[s]) : lenders[s][i] = o})
           On(o) == {p \in HeldBySubtasks(o) : p[1] = s}
<1>1. /\ s \in open /\ open' = open \ {s} /\ lenders' = [lenders EXCEPT ![s] = <<>>]
      /\ obj' = [o \in Objects |-> [obj[o] EXCEPT !.lendCount = @ - Ends(o)]]
      /\ UNCHANGED <<entries, frames>>
  BY DEF DeliverResolve, tableVars
<1>2. lenders \in [Subtasks -> Seq(Objects)] /\ Len(lenders[s]) \in Nat
  BY DEF IInv, TypeOK
<1>3. \A o \in Objects : Ends(o) \in Nat
  BY <1>2, PositionsCount
<1> DEFINE E(o) == Ends(o)
<1>4. ASSUME NEW o \in Objects PROVE E(o) <= Cardinality(On(o))
  <2>1. IsFiniteSet(HeldBySubtasks(o)) /\ On(o) \in SUBSET HeldBySubtasks(o)
    BY HeldFinite DEF Lending
  <2>2. IsFiniteSet(On(o))
    BY <2>1, FS_Subset
  <2>3. ASSUME NEW i \in 1..Len(lenders[s]), lenders[s][i] = o
        PROVE  <<s, i>> \in On(o)
    <3>1. i \in 1..MaxArgs
      BY <1>2, HandleTableAssumption DEF Lending, SubtaskOK
    <3>2. QED BY <1>1, <1>2, <2>3, <3>1 DEF HeldBySubtasks
  <2>4. QED BY <2>2, <2>3, Paired
<1> HIDE DEF Ends
<1>5. ASSUME NEW o \in Objects
      PROVE  obj'[o].kind = obj[o].kind /\ obj'[o].lendCount = obj[o].lendCount - Ends(o)
  <2>1. obj[o] \in Entry /\ obj'[o] = [obj[o] EXCEPT !.lendCount = @ - Ends(o)]
    BY <1>1 DEF IInv, TypeOK
  <2>2. QED BY <2>1 DEF Entry
<1>6. FramesGo /\ LentStays /\ KindsStay
  BY <1>1, <1>5, FramesSame, EntriesSame DEF KindsStay
<1>7. ASSUME NEW r \in Subtasks PROVE SubtaskOK(r)'
  <2>1. CASE r = s
    <3>1. lenders'[s] = <<>>
      BY <1>1, <1>2
    <3>2. QED BY <2>1, <3>1, HandleTableAssumption DEF SubtaskOK
  <2>2. CASE r # s
    <3>1. lenders'[r] = lenders[r] /\ SubtaskOK(r)
          /\ \A j \in 1..Len(lenders[r]) : lenders[r][j] \in Objects
      BY <1>1, <1>2, <2>2 DEF Lending
    <3>2. QED BY <1>5, <3>1 DEF SubtaskOK
  <2>3. QED BY <2>1, <2>2
<1>8. ASSUME NEW o \in Objects
      PROVE  obj'[o].lendCount >= Cardinality(HeldByFrames(o)') + Cardinality(HeldBySubtasks(o)')
  <2>1. HeldBySubtasks(o)' = HeldBySubtasks(o) \ On(o)
    <3>1. \A r \in Subtasks : r # s => lenders'[r] = lenders[r]
      BY <1>1
    <3>2. \A r \in open : r \in Subtasks
      BY DEF IInv, TypeOK
    <3>3. \A p \in HeldBySubtasks(o)' : p \in HeldBySubtasks(o) \ On(o)
      BY <1>1, <3>1, <3>2 DEF HeldBySubtasks
    <3>4. \A p \in HeldBySubtasks(o) \ On(o) : p \in HeldBySubtasks(o)'
      BY <1>1, <3>1, <3>2 DEF HeldBySubtasks
    <3>5. QED BY <3>3, <3>4
  <2>2. HeldByFrames(o)' = HeldByFrames(o)
    BY <1>1 DEF HeldByFrames
  <2>3. /\ IsFiniteSet(HeldBySubtasks(o)) /\ Cardinality(HeldByFrames(o)) \in Nat
        /\ Cardinality(HeldBySubtasks(o)) \in Nat /\ obj[o].lendCount \in Int
    BY HeldFinite DEF Lending, IInv, TypeOK, Entry
  <2>4. obj[o].lendCount >= Cardinality(HeldBySubtasks(o)) + Cardinality(HeldByFrames(o))
    BY <2>3 DEF Lending, LendsCounted, LendsHeld
  <2>5. /\ obj[o].lendCount - Ends(o) >=
             Cardinality(HeldBySubtasks(o) \ On(o)) + Cardinality(HeldByFrames(o))
        /\ Cardinality(HeldBySubtasks(o) \ On(o)) \in Nat
    BY <1>3, <1>4, <2>3, <2>4, Released
  <2>6. QED BY <1>3, <1>5, <2>1, <2>2, <2>3, <2>5
<1>9. IsFiniteSet(open')
  BY <1>1, FS_Subset DEF Lending
<1>10. QED BY <1>6, <1>7, <1>8, <1>9, LendsLater

-----------------------------------------------------------------------------
(* The empty table. *)
LEMMA LendInit == Init => LendInv
<1> SUFFICES ASSUME Init PROVE Lending
  BY DEF LendInv
<1>1. IsFiniteSet(open) /\ open = {}
  BY FS_EmptySet DEF Init
<1>2. /\ frames = <<CallFrame("root", NoSubtask)>> /\ Len(frames) = 1
      /\ frames[1].lends = <<>> /\ frames[1].kind = "root"
  BY DEF Init, CallFrame, NewFrame
<1>3. \A i \in 1..Len(frames) : frames[i].lends = <<>> /\ frames[i].kind = "root"
  BY <1>2
<1>4. (\A i \in 1..Len(frames) : FrameOK(frames[i])) /\ DropsUnlent
  BY <1>3, HandleTableAssumption DEF FrameOK, DropsUnlent, DropKinds
<1>5. \A s \in Subtasks : SubtaskOK(s)
  BY HandleTableAssumption DEF Init, SubtaskOK
<1>6. ASSUME NEW o \in Objects PROVE obj[o].lendCount >= LendsHeld(o)
  <2>1. HeldBySubtasks(o) = {}
    BY <1>1 DEF HeldBySubtasks
  <2>2. HeldByFrames(o) = {}
    <3>1. ASSUME NEW p \in HeldByFrames(o) PROVE FALSE
      BY <1>3, <3>1, HandleTableAssumption DEF HeldByFrames
    <3>2. QED BY <3>1
  <2>3. obj[o].lendCount = 0
    BY DEF Init, NoEntry, NewEntry
  <2>4. QED BY <2>1, <2>2, <2>3, FS_EmptySet DEF LendsHeld
<1>7. QED BY <1>1, <1>4, <1>5, <1>6 DEF Lending, LendsCounted

(* Every step keeps the lends covered until the table is closed. *)
LEMMA LendStep == IInv /\ IInv' /\ LendInv /\ [Next]_vars => LendInv'
<1> SUFFICES ASSUME IInv, IInv', LendInv, [Next]_vars, ~closed' PROVE Lending'
  BY DEF LendInv
<1>1. ~closed
  BY StepShape DEF tableVars, AddEntry, RemoveEntry, Close
<1>2. Lending
  BY <1>1 DEF LendInv
<1>3. CASE Mint
  BY <1>1, <1>2, <1>3, LendMintStep
<1>4. CASE Lift
  BY <1>2, <1>4, LendStackStep, LendLiftStep, LendAsyncStep, LendRemovalStep DEF Lift
<1>5. CASE Guest
  BY <1>2, <1>5, LendStackStep, LendDeliverStep, LendRemovalStep DEF Guest
<1>6. CASE Host
  <2>1. ~Close
    BY DEF Close
  <2>2. QED BY <1>2, <1>6, <2>1, LendStackStep, LendReturnStep, LendRemovalStep DEF Host
<1>7. CASE UNCHANGED vars
  <2>1. UNCHANGED <<entries, obj, frames, lenders, open>>
    BY <1>7 DEF vars
  <2>2. KindsStay /\ \A o \in Objects : obj'[o].lendCount = obj[o].lendCount
    BY <2>1 DEF KindsStay
  <2>3. \A o \in Objects : obj'[o].lendCount >= 0
    BY <1>2, <2>1, LendCountIsNat
  <2>4. QED BY <1>2, <2>1, <2>2, <2>3, FramesSame, EntriesSame, LendsUnchanged
<1>8. QED BY <1>3, <1>4, <1>5, <1>6, <1>7 DEF Next

(* A lend is not released early, whatever is dropped, reused or closed      *)
(* while the call that has it runs (resource.go:569-600, host_import.go:966, *)
(* waitable.go:103-115).                                                   *)
THEOREM LendsAreNotReleasedEarly == Spec => []LendsCovered
<1>1. Init => LendInv
  BY LendInit
<1>2. IInv /\ IInv' /\ LendInv /\ [Next]_vars => LendInv'
  BY LendStep
<1>3. LendInv => LendsCovered
  BY DEF LendInv, Lending, FrameOK, LendOK, LendsCounted, LendsCovered
<1>4. QED BY <1>1, <1>2, <1>3, Invariance, PTL DEF Spec
=============================================================================
