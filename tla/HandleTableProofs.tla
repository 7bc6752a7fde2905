------------------------- MODULE HandleTableProofs -------------------------
(***************************************************************************)
(* Theorems about HandleTable for every value of its constants: its        *)
(* variables keep their types, the index space is partitioned into live    *)
(* handles and the free stack, and the table implements HandleMap.         *)
(***************************************************************************)
EXTENDS HandleTable, SequenceTheorems, FiniteSetTheorems, TLAPS

(* The stack of calls in progress has the host at the bottom and nowhere   *)
(* else, so a call that ends always leaves a frame below it.               *)
StackOK(fs) ==
  /\ fs \in Seq(Frame) /\ fs # <<>>
  /\ fs[1].kind = "root"
  /\ \A i \in 2..Len(fs) : fs[i].kind # "root"

(* Every live handle names an entry that was created. *)
EntriesCreated == \A h \in DOMAIN entries : obj[entries[h]].kind # "none"

IInv == TypeOK /\ StackOK(frames) /\ HandlesPartitioned /\ EntriesCreated

(* The part of the type invariant that speaks about the table. *)
TableTypeOK ==
  /\ DOMAIN entries \subseteq Handles
  /\ entries \in [DOMAIN entries -> Objects]
  /\ next \in 1..(MaxHandle + 1)
  /\ free \in Seq(Handles)
  /\ closed \in BOOLEAN
  /\ obj \in [Objects -> Entry]

-----------------------------------------------------------------------------
(* Pushing a call frame keeps the stack well formed. *)
LEMMA PushOK ==
  ASSUME NEW fs, StackOK(fs), NEW f \in Frame, f.kind # "root"
  PROVE  StackOK(Append(fs, f))
<1>1. /\ Append(fs, f) \in Seq(Frame) /\ Append(fs, f) # <<>>
      /\ Len(Append(fs, f)) = Len(fs) + 1
  BY DEF StackOK
<1>2. Len(fs) \in Nat /\ Len(fs) >= 1
  BY DEF StackOK
<1>3. \A i \in 1..Len(fs) : Append(fs, f)[i] = fs[i]
  BY DEF StackOK
<1>4. Append(fs, f)[Len(fs) + 1] = f
  BY DEF StackOK
<1>5. ASSUME NEW i \in 2..Len(Append(fs, f))
      PROVE  Append(fs, f)[i].kind # "root"
  <2>1. CASE i = Len(fs) + 1
    BY <2>1, <1>4
  <2>2. CASE i # Len(fs) + 1
    BY <2>2, <1>1, <1>2, <1>3 DEF StackOK
  <2>3. QED BY <2>1, <2>2
<1>6. QED BY <1>1, <1>2, <1>3, <1>5 DEF StackOK

(* A frame other than the host's has a frame below it. *)
LEMMA CallHasCaller ==
  ASSUME NEW fs, StackOK(fs)
  PROVE  /\ Len(fs) \in Nat /\ Len(fs) >= 1
         /\ \A i \in 1..Len(fs) : fs[i].kind # "root" => i >= 2
         /\ \A i \in 1..Len(fs) : fs[i] \in Frame
BY DEF StackOK

(* Removing frames above the host's keeps the stack well formed. *)
LEMMA PopOK ==
  ASSUME NEW fs, StackOK(fs), NEW n \in 1..Len(fs)
  PROVE  StackOK(SubSeq(fs, 1, n)) /\ Len(SubSeq(fs, 1, n)) = n
<1>1. Len(fs) \in Nat
  BY DEF StackOK
<1>2. SubSeq(fs, 1, n) \in Seq(Frame) /\ Len(SubSeq(fs, 1, n)) = n
  BY <1>1 DEF StackOK
<1>3. \A i \in 1..n : SubSeq(fs, 1, n)[i] = fs[i]
  BY <1>1 DEF StackOK
<1>4. QED BY <1>1, <1>2, <1>3 DEF StackOK

(* Replacing a frame by one of the same nature keeps the stack well formed. *)
LEMMA SetOK ==
  ASSUME NEW fs, StackOK(fs), NEW n \in 1..Len(fs), NEW f \in Frame,
         f.kind = "root" <=> fs[n].kind = "root"
  PROVE  StackOK([fs EXCEPT ![n] = f])
<1>1. Len(fs) \in Nat
  BY DEF StackOK
<1>2. [fs EXCEPT ![n] = f] \in Seq(Frame) /\ Len([fs EXCEPT ![n] = f]) = Len(fs)
  BY <1>1 DEF StackOK
<1>3. \A i \in 1..Len(fs) : [fs EXCEPT ![n] = f][i] = IF i = n THEN f ELSE fs[i]
  BY <1>1 DEF StackOK
<1>4. QED BY <1>1, <1>2, <1>3 DEF StackOK

-----------------------------------------------------------------------------
(* The entries the minting operations store. *)
LEMMA EntriesTyped ==
  /\ \A tag \in Tags, own \in BOOLEAN, scope \in Tasks \cup {NoTask} :
       Resource(tag, own, scope) \in Entry /\ Resource(tag, own, scope).kind = "resource"
  /\ Other \in Entry /\ Other.kind = "other"
  /\ NoEntry \in Entry /\ NoEntry.kind = "none"
BY DEF Entry, Resource, Other, NoEntry, NewEntry

(* addEntry hands out an index no live handle has, keeps the index space   *)
(* partitioned, and is an allocation of the abstract map.                  *)
LEMMA AddEntryOK ==
  ASSUME IInv, NEW o \in Objects, NEW e \in Entry, e.kind # "none", AddEntry(o, e)
  PROVE  TableTypeOK' /\ HandlesPartitioned' /\ EntriesCreated' /\ Map!Allocate
<1> USE HandleTableAssumption
<1>1. /\ DOMAIN entries \subseteq Handles /\ entries \in [DOMAIN entries -> Objects]
      /\ next \in 1..(MaxHandle + 1) /\ free \in Seq(Handles) /\ obj \in [Objects -> Entry]
  BY DEF IInv, TypeOK
<1>2. /\ ~closed /\ ~closed' /\ NextHandle <= MaxHandle /\ obj[o].kind = "none"
      /\ obj' = [obj EXCEPT ![o] = e]
  BY DEF AddEntry
<1>3. /\ \A i, j \in 1..Len(free) : i # j => free[i] # free[j]
      /\ FreeRange \cap DOMAIN entries = {}
      /\ FreeRange \cup DOMAIN entries = 1..(next - 1)
  BY <1>2 DEF IInv, HandlesPartitioned
<1>4. /\ entries' = [x \in DOMAIN entries \cup {NextHandle} |->
                      IF x = NextHandle THEN o ELSE entries[x]]
      /\ DOMAIN entries' = DOMAIN entries \cup {NextHandle}
  BY DEF AddEntry
<1>5. /\ NextHandle \in Handles /\ NextHandle \notin DOMAIN entries
      /\ free' \in Seq(Handles) /\ next' \in 1..(MaxHandle + 1)
      /\ \A i, j \in 1..Len(free') : i # j => free'[i] # free'[j]
      /\ FreeRange' \cap DOMAIN entries' = {}
      /\ FreeRange' \cup DOMAIN entries' = 1..(next' - 1)
  <2>1. CASE free = <<>>
    <3>1. NextHandle = next /\ free' = free /\ next' = next + 1
      BY <2>1 DEF AddEntry, NextHandle, PopFree
    <3>2. FreeRange = {} /\ FreeRange' = {}
      BY <2>1, <3>1 DEF FreeRange
    <3>3. DOMAIN entries = 1..(next - 1)
      BY <1>3, <3>2
    <3>4. NextHandle \in Handles /\ NextHandle \notin DOMAIN entries
      BY <1>1, <1>2, <3>1, <3>3 DEF Handles
    <3>5. DOMAIN entries' = 1..(next' - 1)
      BY <1>1, <1>4, <3>1, <3>3
    <3>6. next' \in 1..(MaxHandle + 1)
      BY <1>1, <1>2, <3>1
    <3>7. QED BY <1>1, <1>3, <2>1, <3>1, <3>2, <3>4, <3>5, <3>6
  <2>2. CASE free # <<>>
    <3>1. /\ Len(free) \in Nat /\ Len(free) >= 1
          /\ \A i \in 1..Len(free) : free[i] \in Handles
      BY <1>1, <2>2
    <3>2. NextHandle = free[Len(free)] /\ next' = next
          /\ free' = SubSeq(free, 1, Len(free) - 1)
      BY <2>2 DEF AddEntry, NextHandle, PopFree
    <3>3. NextHandle \in Handles /\ NextHandle \in FreeRange /\ NextHandle \notin DOMAIN entries
      BY <1>3, <3>1, <3>2 DEF FreeRange
    <3>4. /\ free' \in Seq(Handles) /\ Len(free') = Len(free) - 1
          /\ \A i \in 1..(Len(free) - 1) : free'[i] = free[i]
      <4> DEFINE n == Len(free) - 1
      <4>1. n \in Int /\ \A i \in 1..n : free[i] \in Handles
        BY <3>1
      <4>4. n - 1 + 1 = n /\ n >= 0 /\ \A i \in 1..n : 1 + i - 1 = i
        BY <3>1
      <4>5. free' = SubSeq(free, 1, n)
        BY <3>2
      <4> HIDE DEF n
      <4>2. 1 \in Int
        OBVIOUS
      <4>3. /\ SubSeq(free, 1, n) \in Seq(Handles)
            /\ Len(SubSeq(free, 1, n)) = IF 1 <= n THEN n - 1 + 1 ELSE 0
            /\ \A i \in 1..(n - 1 + 1) : SubSeq(free, 1, n)[i] = free[1 + i - 1]
        BY <4>1, <4>2, SubSeqProperties
      <4>6. /\ free' \in Seq(Handles) /\ Len(free') = n
            /\ \A i \in 1..n : free'[i] = free[i]
        BY <4>1, <4>3, <4>4, <4>5
      <4>7. QED BY <4>6 DEF n
    <3>5. FreeRange' = FreeRange \ {NextHandle}
      <4>1. FreeRange' = {free[i] : i \in 1..(Len(free) - 1)}
        BY <3>1, <3>4 DEF FreeRange
      <4>2. \A i \in 1..(Len(free) - 1) : i \in 1..Len(free) /\ free[i] # free[Len(free)]
        BY <1>3, <3>1
      <4>3. \A i \in 1..Len(free) : i # Len(free) => i \in 1..(Len(free) - 1)
        BY <3>1
      <4>4. QED BY <3>1, <3>2, <4>1, <4>2, <4>3 DEF FreeRange
    <3>6. \A i, j \in 1..Len(free') : i # j => free'[i] # free'[j]
      BY <1>3, <3>1, <3>4
    <3>7. QED BY <1>1, <1>3, <1>4, <3>2, <3>3, <3>4, <3>5, <3>6
  <2>3. QED BY <2>1, <2>2
<1>6. /\ \A h \in DOMAIN entries : entries'[h] = entries[h]
      /\ \A h \in DOMAIN entries : entries[h] \in Objects
      /\ \A h \in DOMAIN entries : entries[h] # o
  <2>1. \A h \in DOMAIN entries : entries'[h] = entries[h]
    BY <1>4, <1>5
  <2>2. \A h \in DOMAIN entries : entries[h] \in Objects
    BY <1>1
  <2>3. \A h \in DOMAIN entries : entries[h] # o
    BY <1>2 DEF IInv, EntriesCreated
  <2>4. QED BY <2>1, <2>2, <2>3
<1>7. entries'[NextHandle] = o
  BY <1>4
<1>8. entries' \in [DOMAIN entries' -> Objects]
  <2>1. \A x \in DOMAIN entries \cup {NextHandle} :
          (IF x = NextHandle THEN o ELSE entries[x]) \in Objects
    BY <1>6
  <2>2. entries' \in [DOMAIN entries \cup {NextHandle} -> Objects]
    BY <1>4, <2>1, Zenon
  <2>3. QED BY <1>4, <2>2
<1>9. obj' \in [Objects -> Entry] /\ obj'[o] = e
      /\ \A x \in Objects : x # o => obj'[x] = obj[x]
  BY <1>1, <1>2
<1>10. TableTypeOK'
  <2>1. closed' \in BOOLEAN
    BY DEF IInv, TypeOK, AddEntry
  <2>2. DOMAIN entries' \subseteq Handles
    BY <1>1, <1>4, <1>5
  <2>3. QED BY <1>5, <1>8, <1>9, <2>1, <2>2 DEF TableTypeOK, Handles
<1>11. EntriesCreated'
  BY <1>4, <1>6, <1>7, <1>9 DEF IInv, EntriesCreated
<1>12. HandlesPartitioned'
  BY <1>5 DEF HandlesPartitioned
<1>13. Stored' = Stored \cup {o} /\ o \notin Stored
  BY <1>2, <1>9 DEF Stored
<1>14. Map!Allocate
  BY <1>2, <1>4, <1>5, <1>13 DEF Map!Allocate, AddEntry
<1>15. QED BY <1>10, <1>11, <1>12, <1>14

(* Deleting a live handle and pushing its index keeps the index space      *)
(* partitioned and is a removal of the abstract map.                       *)
LEMMA RemoveEntryOK ==
  ASSUME IInv, NEW h \in DOMAIN entries, RemoveEntry(h), UNCHANGED obj
  PROVE  TableTypeOK' /\ HandlesPartitioned' /\ EntriesCreated' /\ Map!Remove
<1> USE HandleTableAssumption
<1>1. /\ DOMAIN entries \subseteq Handles /\ entries \in [DOMAIN entries -> Objects]
      /\ next \in 1..(MaxHandle + 1) /\ free \in Seq(Handles) /\ obj \in [Objects -> Entry]
      /\ closed \in BOOLEAN
  BY DEF IInv, TypeOK
<1>2. /\ entries' = [x \in DOMAIN entries \ {h} |-> entries[x]]
      /\ DOMAIN entries' = DOMAIN entries \ {h}
      /\ free' = Append(free, h) /\ next' = next /\ closed' = closed
  BY DEF RemoveEntry
<1>3. h \in Handles /\ Len(free) \in Nat
  BY <1>1
<1>4. /\ free' \in Seq(Handles) /\ Len(free') = Len(free) + 1 /\ free'[Len(free) + 1] = h
      /\ \A i \in 1..Len(free) : free'[i] = free[i]
  BY <1>1, <1>2, <1>3
<1>5. TableTypeOK'
  BY <1>1, <1>2, <1>4 DEF TableTypeOK, Handles
<1>6. EntriesCreated'
  BY <1>2 DEF IInv, EntriesCreated
<1>7. HandlesPartitioned'
  <2>1. SUFFICES ASSUME ~closed
                 PROVE  /\ \A i, j \in 1..Len(free') : i # j => free'[i] # free'[j]
                        /\ FreeRange' \cap DOMAIN entries' = {}
                        /\ FreeRange' \cup DOMAIN entries' = 1..(next' - 1)
    BY <1>2 DEF HandlesPartitioned
  <2>2. /\ \A i, j \in 1..Len(free) : i # j => free[i] # free[j]
        /\ FreeRange \cap DOMAIN entries = {}
        /\ FreeRange \cup DOMAIN entries = 1..(next - 1)
    BY <2>1 DEF IInv, HandlesPartitioned
  <2>3. FreeRange' = FreeRange \cup {h}
    BY <1>3, <1>4 DEF FreeRange
  <2>4. \A i \in 1..Len(free) : free[i] # h
    BY <2>2 DEF FreeRange
  <2>5. \A i, j \in 1..Len(free') : i # j => free'[i] # free'[j]
    BY <1>3, <1>4, <2>2, <2>4
  <2>6. QED BY <1>2, <2>2, <2>3, <2>5
<1>8. Map!Remove
  BY <1>2 DEF Map!Remove, Stored
<1>9. QED BY <1>5, <1>6, <1>7, <1>8

-----------------------------------------------------------------------------
MapStep == Map!MapNext \/ UNCHANGED Map!mapVars

(* A step that leaves the table alone, keeps the kind of every entry and   *)
(* the types of the rest preserves the invariant and is invisible in the   *)
(* abstract map.                                                           *)
LEMMA OffTableStep ==
  ASSUME IInv, UNCHANGED tableVars,
         obj' \in [Objects -> Entry],
         \A o \in Objects : obj'[o].kind = obj[o].kind,
         StackOK(frames'),
         lenders' \in [Subtasks -> Seq(Objects)], open' \subseteq Subtasks,
         numBorrows' \in [Tasks -> Int], returned' \subseteq Tasks,
         poisoned' \in BOOLEAN
  PROVE  IInv' /\ MapStep
<1>1. /\ entries' = entries /\ next' = next /\ free' = free /\ closed' = closed
  BY DEF tableVars
<1>2. TypeOK'
  BY <1>1 DEF IInv, TypeOK, StackOK, Handles
<1>3. HandlesPartitioned'
  BY <1>1 DEF IInv, HandlesPartitioned, FreeRange
<1>4. EntriesCreated'
  BY <1>1 DEF IInv, TypeOK, EntriesCreated
<1>5. Stored' = Stored
  BY DEF Stored
<1>6. MapStep
  BY <1>1, <1>5 DEF MapStep, Map!mapVars
<1>7. QED BY <1>2, <1>3, <1>4, <1>6 DEF IInv

(* The entry changes of a lend, of the Unlend loop and of deliverResolve    *)
(* touch nothing but lendCount.                                            *)
LEMMA LendCountOnly ==
  ASSUME IInv, NEW f, \A o \in Objects : f[o] \in Int,
         obj' = [o \in Objects |-> [obj[o] EXCEPT !.lendCount = f[o]]]
  PROVE  obj' \in [Objects -> Entry] /\ \A o \in Objects : obj'[o].kind = obj[o].kind
<1>1. ASSUME NEW o \in Objects
      PROVE  /\ [obj[o] EXCEPT !.lendCount = f[o]] \in Entry
             /\ [obj[o] EXCEPT !.lendCount = f[o]].kind = obj[o].kind
  <2>1. obj[o] \in Entry /\ f[o] \in Int
    BY DEF IInv, TypeOK
  <2>2. QED BY <2>1 DEF Entry
<1>2. QED BY <1>1

(* The initial state. *)
LEMMA InitOK == Init => IInv /\ Map!MapInit
<1> SUFFICES ASSUME Init PROVE IInv /\ Map!MapInit
  OBVIOUS
<1> USE HandleTableAssumption
<1>1. CallFrame("root", NoSubtask) \in Frame /\ CallFrame("root", NoSubtask).kind = "root"
  BY DEF CallFrame, NewFrame, Frame
<1>2. StackOK(frames)
  BY <1>1 DEF Init, StackOK
<1>3. entries \in [DOMAIN entries -> Objects] /\ DOMAIN entries = {}
  BY DEF Init
<1>4. TypeOK
  <2>1. DOMAIN entries \subseteq Handles
    BY <1>3
  <2>2. next \in 1..(MaxHandle + 1) /\ free \in Seq(Handles)
    BY DEF Init, FirstHandle
  <2>3. obj \in [Objects -> Entry]
    BY EntriesTyped DEF Init
  <2>4. frames \in Seq(Frame) /\ frames # <<>>
    BY <1>2 DEF StackOK
  <2>5. lenders \in [Subtasks -> Seq(Objects)] /\ numBorrows \in [Tasks -> Int]
    BY DEF Init
  <2>6. QED BY <1>3, <2>1, <2>2, <2>3, <2>4, <2>5 DEF Init, TypeOK
<1>5. HandlesPartitioned
  BY <1>3 DEF Init, HandlesPartitioned, FreeRange, FirstHandle
<1>6. EntriesCreated
  BY <1>3 DEF EntriesCreated
<1>7. Stored = {}
  BY EntriesTyped DEF Init, Stored
<1>8. Map!MapInit
  BY <1>7 DEF Init, Map!MapInit
<1>9. QED BY <1>2, <1>4, <1>5, <1>6, <1>8 DEF IInv

-----------------------------------------------------------------------------
(* The three ways an action changes the stack. *)
LEMMA TopOK ==
  ASSUME IInv
  PROVE  /\ StackOK(frames) /\ Len(frames) \in Nat /\ Len(frames) \in 1..Len(frames)
         /\ Top \in Frame
         /\ Top.kind # "root" => Len(frames) >= 2 /\ Len(frames) - 1 \in 1..Len(frames)
BY CallHasCaller DEF IInv, Top

LEMMA SetTopOK ==
  ASSUME IInv, NEW f \in Frame, f.kind = "root" <=> Top.kind = "root", frames' = SetTop(f)
  PROVE  StackOK(frames')
BY TopOK, SetOK DEF SetTop, Top

LEMMA PopTopOK ==
  ASSUME IInv, Top.kind # "root", frames' = Pop
  PROVE  StackOK(frames')
BY TopOK, PopOK DEF Pop

LEMMA PushTopOK ==
  ASSUME IInv, NEW f \in Frame, f.kind # "root", frames' = Push(f)
  PROVE  StackOK(frames')
BY TopOK, PushOK DEF Push

(* Switching the guest flag of a frame, or its kind, leaves a frame. *)
LEMMA FrameEdits ==
  ASSUME NEW f \in Frame
  PROVE  /\ \A b \in BOOLEAN : /\ [f EXCEPT !.guest = b] \in Frame
                               /\ [f EXCEPT !.guest = b].kind = f.kind
         /\ [f EXCEPT !.kind = "call"] \in Frame /\ [f EXCEPT !.kind = "call"].kind = "call"
BY DEF Frame

(* Actions that touch nothing but the stack and the poisoned flag. *)
LEMMA StackStep ==
  ASSUME IInv, StackOK(frames'), poisoned' \in BOOLEAN,
         UNCHANGED <<tableVars, obj, lenders, open, numBorrows, returned>>
  PROVE  IInv' /\ MapStep
<1>1. /\ obj' \in [Objects -> Entry] /\ \A o \in Objects : obj'[o].kind = obj[o].kind
      /\ lenders' \in [Subtasks -> Seq(Objects)] /\ open' \subseteq Subtasks
      /\ numBorrows' \in [Tasks -> Int] /\ returned' \subseteq Tasks
  BY DEF IInv, TypeOK
<1>2. QED BY <1>1, OffTableStep

(* Actions that change the table through addEntry or a removal. *)
LEMMA TableStep ==
  ASSUME IInv, TableTypeOK', HandlesPartitioned', EntriesCreated',
         Map!Allocate \/ Map!Remove,
         StackOK(frames'), numBorrows' \in [Tasks -> Int], poisoned' \in BOOLEAN,
         UNCHANGED <<lenders, open, returned>>
  PROVE  IInv' /\ MapStep
<1>1. TypeOK'
  BY DEF IInv, TypeOK, TableTypeOK, StackOK, Handles
<1>2. MapStep
  BY DEF MapStep, Map!MapNext
<1>3. QED BY <1>1, <1>2 DEF IInv

-----------------------------------------------------------------------------
(* Minting. *)
LEMMA MintStep == ASSUME IInv, Mint PROVE IInv' /\ MapStep
<1> USE HandleTableAssumption
<1>0. /\ StackOK(frames) /\ numBorrows \in [Tasks -> Int] /\ poisoned \in BOOLEAN
  BY DEF IInv, TypeOK
<1>1. PICK o \in Objects :
        \/ NewOther(o)
        \/ \E tag \in Tags : \/ NewOwn(o, tag) \/ NewBorrow(o, tag)
                             \/ \E t \in Tasks : NewBorrowScoped(o, tag, t)
  BY DEF Mint
<1>2. CASE NewOther(o)
  <2>1. AddEntry(o, Other) /\ UNCHANGED callVars
    BY <1>2 DEF NewOther
  <2>2. TableTypeOK' /\ HandlesPartitioned' /\ EntriesCreated' /\ Map!Allocate
    BY <2>1, AddEntryOK, EntriesTyped
  <2>3. QED BY <1>0, <2>1, <2>2, TableStep DEF callVars
<1>3. ASSUME NEW tag \in Tags, NEW own \in BOOLEAN, AddEntry(o, Resource(tag, own, NoTask)),
             UNCHANGED callVars
      PROVE  IInv' /\ MapStep
  <2>1. TableTypeOK' /\ HandlesPartitioned' /\ EntriesCreated' /\ Map!Allocate
    <3>1. Resource(tag, own, NoTask) \in Entry /\ Resource(tag, own, NoTask).kind # "none"
      BY EntriesTyped
    <3>2. QED BY <1>3, <3>1, AddEntryOK
  <2>2. QED BY <1>0, <1>3, <2>1, TableStep DEF callVars
<1>4. ASSUME NEW tag \in Tags, NEW t \in Tasks, NewBorrowScoped(o, tag, t)
      PROVE  IInv' /\ MapStep
  <2>1. TableTypeOK' /\ HandlesPartitioned' /\ EntriesCreated' /\ Map!Allocate
    <3>1. Resource(tag, FALSE, t) \in Entry /\ Resource(tag, FALSE, t).kind # "none"
      BY EntriesTyped
    <3>2. QED BY <1>4, <3>1, AddEntryOK DEF NewBorrowScoped
  <2>2. /\ numBorrows' \in [Tasks -> Int]
        /\ UNCHANGED <<frames, lenders, open, returned, poisoned>>
    BY <1>0, <1>4 DEF NewBorrowScoped
  <2>3. QED BY <1>0, <2>1, <2>2, TableStep
<1>5. QED BY <1>1, <1>2, <1>3, <1>4 DEF NewOwn, NewBorrow

(* Entering, leaving and trapping. *)
LEMMA EnterLeaveStep ==
  ASSUME IInv, EnterGuest \/ LeaveGuest \/ GuestTrap
  PROVE  IInv' /\ MapStep
<1>1. poisoned' \in BOOLEAN /\ UNCHANGED <<tableVars, obj, lenders, open, numBorrows, returned>>
  BY DEF IInv, TypeOK, EnterGuest, LeaveGuest, GuestTrap
<1>2. StackOK(frames')
  BY TopOK, FrameEdits, SetTopOK DEF EnterGuest, LeaveGuest, GuestTrap
<1>3. QED BY <1>1, <1>2, StackStep

(* Removals by guest code and by argument lifting. *)
LEMMA RemovalStep ==
  ASSUME IInv, NEW h \in DOMAIN entries,
         RemoveOther(h) \/ \E tag \in Tags : TakeOwn(tag, h) \/ Drop(tag, h)
  PROVE  IInv' /\ MapStep
<1>1. RemoveEntry(h) /\ UNCHANGED <<obj, frames, lenders, open, returned, poisoned>>
  BY DEF RemoveOther, TakeOwn, Drop, callVars
<1>2. TableTypeOK' /\ HandlesPartitioned' /\ EntriesCreated' /\ Map!Remove
  BY <1>1, RemoveEntryOK
<1>3. numBorrows \in [Tasks -> Int] /\ StackOK(frames) /\ poisoned \in BOOLEAN
  BY DEF IInv, TypeOK
<1>4. numBorrows' \in [Tasks -> Int]
  BY <1>3 DEF RemoveOther, TakeOwn, Drop, callVars, ReleaseScope
<1>5. QED BY <1>1, <1>2, <1>3, <1>4, TableStep

-----------------------------------------------------------------------------
(* How many positions of a sequence satisfy something is a natural number. *)
LEMMA PositionsCount ==
  ASSUME NEW n \in Nat, NEW S \in SUBSET (1..n)
  PROVE  IsFiniteSet(S) /\ Cardinality(S) \in Nat
<1>1. IsFiniteSet(1..n)
  BY FS_Interval
<1>2. IsFiniteSet(S)
  BY <1>1, FS_Subset
<1>3. QED BY <1>2, FS_CardinalityType

(* Starting and running imports. *)
LEMMA BeginStep ==
  ASSUME IInv, BeginCall \/ \E s \in Subtasks : BeginAsyncCall(s)
  PROVE  IInv' /\ MapStep
<1>1. \A x \in Subtasks \cup {NoSubtask}, k \in {"lift", "alift"} :
        CallFrame(k, x) \in Frame /\ CallFrame(k, x).kind # "root"
  BY DEF CallFrame, NewFrame, Frame
<1>2. StackOK(frames')
  BY <1>1, PushTopOK DEF BeginCall, BeginAsyncCall
<1>3. /\ UNCHANGED <<tableVars, obj, lenders, numBorrows, returned, poisoned>>
      /\ open' \subseteq Subtasks
  BY DEF BeginCall, BeginAsyncCall, IInv, TypeOK
<1>4. QED BY <1>2, <1>3, OffTableStep DEF IInv, TypeOK

LEMMA LiftBorrowStep ==
  ASSUME IInv, NEW h \in DOMAIN entries, NEW tag \in Tags,
         LiftBorrow(tag, h) \/ LiftAsyncBorrow(tag, h)
  PROVE  IInv' /\ MapStep
<1>1. entries[h] \in Objects /\ h \in Handles /\ Top \in Frame
  BY TopOK DEF IInv, TypeOK
<1>2. obj' \in [Objects -> Entry] /\ \A o \in Objects : obj'[o].kind = obj[o].kind
  <2>1. obj' = [obj EXCEPT ![entries[h]].lendCount = @ + 1]
    BY DEF LiftBorrow, LiftAsyncBorrow, Lent
  <2>2. obj[entries[h]] \in Entry
    BY <1>1 DEF IInv, TypeOK
  <2>3. /\ [obj[entries[h]] EXCEPT !.lendCount = @ + 1] \in Entry
        /\ [obj[entries[h]] EXCEPT !.lendCount = @ + 1].kind = obj[entries[h]].kind
    BY <2>2 DEF Entry
  <2>4. QED BY <1>1, <2>1, <2>3 DEF IInv, TypeOK
<1>3. CASE LiftBorrow(tag, h)
  <2> DEFINE l == [tag |-> tag, h |-> h, o |-> entries[h]]
             f == [Top EXCEPT !.lends = Append(@, l)]
  <2>1. l \in Lend
    BY <1>1 DEF Lend
  <2>2. Append(Top.lends, l) \in Seq(Lend)
    BY <1>1, <2>1 DEF Frame
  <2>3. f \in Frame /\ f.kind = Top.kind
    BY <1>1, <2>2 DEF Frame
  <2>4. frames' = SetTop(f)
    BY <1>3 DEF LiftBorrow
  <2>5. StackOK(frames')
    BY <2>3, <2>4, SetTopOK
  <2>6. UNCHANGED <<tableVars, lenders, open, numBorrows, returned, poisoned>>
    BY <1>3 DEF LiftBorrow
  <2>7. QED BY <1>2, <2>5, <2>6, OffTableStep DEF IInv, TypeOK
<1>4. CASE LiftAsyncBorrow(tag, h)
  <2>1. UNCHANGED <<tableVars, frames, open, numBorrows, returned, poisoned>>
    BY <1>4 DEF LiftAsyncBorrow
  <2>2. lenders' \in [Subtasks -> Seq(Objects)]
    <3>1. lenders' = [lenders EXCEPT ![Top.sub] = Append(@, entries[h])]
      BY <1>4 DEF LiftAsyncBorrow
    <3>2. lenders \in [Subtasks -> Seq(Objects)]
      BY DEF IInv, TypeOK
    <3>3. \A s \in Subtasks : Append(lenders[s], entries[h]) \in Seq(Objects)
      BY <1>1, <3>2
    <3>4. QED BY <3>1, <3>2, <3>3
  <2>3. QED BY <1>2, <2>1, <2>2, OffTableStep DEF IInv, TypeOK
<1>5. QED BY <1>3, <1>4

LEMMA LiftEndStep == ASSUME IInv, LiftFails \/ RunCall PROVE IInv' /\ MapStep
<1>1. /\ UNCHANGED <<tableVars, obj, lenders, open, numBorrows, returned>>
      /\ poisoned' \in BOOLEAN
  BY DEF LiftFails, RunCall, IInv, TypeOK
<1>2. CASE RunCall
  <2>1. [Top EXCEPT !.kind = "call"] \in Frame /\ [Top EXCEPT !.kind = "call"].kind # "root"
    BY TopOK, FrameEdits
  <2>2. StackOK(frames')
    BY <1>2, <2>1, SetTopOK DEF RunCall
  <2>3. QED BY <1>1, <2>2, StackStep
<1>3. CASE LiftFails
  <2> DEFINE n == Len(frames) - 1
             below == frames[n]
  <2>1. n \in 1..Len(frames) /\ below \in Frame /\ n \in Nat
    BY <1>3, TopOK, CallHasCaller DEF LiftFails
  <2>2. StackOK(Pop) /\ Len(Pop) = n /\ n \in 1..Len(Pop)
    BY <2>1, PopOK DEF Pop, IInv
  <2>3. Pop[n] = below
    BY <2>1, <2>2, TopOK DEF Pop, StackOK
  <2>4. CASE below.kind = "gdrop"
    <3>1. n >= 2 /\ Len(frames) - 2 \in 1..Len(frames)
      BY <2>1, <2>4, TopOK, CallHasCaller
    <3>2. frames' = SubSeq(frames, 1, Len(frames) - 2)
      BY <1>3, <2>4 DEF LiftFails
    <3>3. StackOK(frames')
      BY <3>1, <3>2, TopOK, PopOK
    <3>4. QED BY <1>1, <3>3, StackStep
  <2>5. CASE below.kind # "gdrop"
    <3>1. frames' = [Pop EXCEPT ![n] = [below EXCEPT !.guest = FALSE]]
      BY <1>3, <2>5 DEF LiftFails
    <3>2. [below EXCEPT !.guest = FALSE] \in Frame /\ [below EXCEPT !.guest = FALSE].kind = below.kind
      BY <2>1, FrameEdits
    <3>3. StackOK(frames')
      BY <2>2, <2>3, <3>1, <3>2, SetOK
    <3>4. QED BY <1>1, <3>3, StackStep
  <2>6. QED BY <2>4, <2>5
<1>4. QED BY <1>2, <1>3

LEMMA ReturnCallStep == ASSUME IInv, ReturnCall PROVE IInv' /\ MapStep
<1>1. Top \in Frame /\ Len(Top.lends) \in Nat
  BY TopOK DEF Frame
<1>2. \A o \in Objects : LendsOn(Top.lends, o) \in Nat
  BY <1>1, PositionsCount DEF LendsOn
<1>3. \A o \in Objects : obj[o] \in Entry
  BY DEF IInv, TypeOK
<1>4. ASSUME NEW o \in Objects
      PROVE  /\ Unlend(obj[o], LendsOn(Top.lends, o)) \in Entry
             /\ Unlend(obj[o], LendsOn(Top.lends, o)).kind = obj[o].kind
  BY <1>2, <1>3 DEF Unlend, Entry
<1>5. obj' = [o \in Objects |-> Unlend(obj[o], LendsOn(Top.lends, o))]
  BY DEF ReturnCall
<1>6. obj' \in [Objects -> Entry] /\ \A o \in Objects : obj'[o].kind = obj[o].kind
  BY <1>4, <1>5
<1>7. StackOK(frames')
  BY PopTopOK DEF ReturnCall
<1>8. UNCHANGED <<tableVars, lenders, open, numBorrows, returned, poisoned>>
  BY DEF ReturnCall
<1>9. QED BY <1>6, <1>7, <1>8, OffTableStep DEF IInv, TypeOK

LEMMA DeliverStep ==
  ASSUME IInv, NEW s \in Subtasks, DeliverResolve(s)
  PROVE  IInv' /\ MapStep
<1> DEFINE n(o) == Cardinality({i \in 1..Len(lenders[s]) : lenders[s][i] = o})
<1>1. Len(lenders[s]) \in Nat
  BY DEF IInv, TypeOK
<1>2. \A o \in Objects : n(o) \in Nat
  BY <1>1, PositionsCount
<1>3. obj' = [o \in Objects |-> [obj[o] EXCEPT !.lendCount = @ - n(o)]]
  BY DEF DeliverResolve
<1> HIDE DEF n
<1>4. ASSUME NEW o \in Objects
      PROVE  /\ [obj[o] EXCEPT !.lendCount = @ - n(o)] \in Entry
             /\ [obj[o] EXCEPT !.lendCount = @ - n(o)].kind = obj[o].kind
  <2>1. obj[o] \in Entry
    BY DEF IInv, TypeOK
  <2>2. QED BY <1>2, <2>1 DEF Entry
<1>5. obj' \in [Objects -> Entry] /\ \A o \in Objects : obj'[o].kind = obj[o].kind
  BY <1>3, <1>4
<1>6. /\ UNCHANGED <<tableVars, frames, numBorrows, returned, poisoned>>
      /\ lenders' \in [Subtasks -> Seq(Objects)] /\ open' \subseteq Subtasks
  BY DEF DeliverResolve, IInv, TypeOK
<1>7. QED BY <1>5, <1>6, OffTableStep DEF IInv, TypeOK

LEMMA TaskReturnStep ==
  ASSUME IInv, NEW t \in Tasks, TaskReturn(t)
  PROVE  IInv' /\ MapStep
<1>1. /\ UNCHANGED <<tableVars, obj, frames, lenders, open, numBorrows, poisoned>>
      /\ returned' \subseteq Tasks
  BY DEF TaskReturn, IInv, TypeOK
<1>2. QED BY <1>1, OffTableStep DEF IInv, TypeOK

-----------------------------------------------------------------------------
(* DropResource and Close. *)
LEMMA DropResourceStep ==
  ASSUME IInv, \/ \E h \in DOMAIN entries : BeginDropResource(h)
               \/ FinishDropResource \/ DtorFails
  PROVE  IInv' /\ MapStep
<1>1. ASSUME NEW h \in DOMAIN entries, BeginDropResource(h)
      PROVE  IInv' /\ MapStep
  <2> DEFINE k == IF obj[entries[h]].tag \in GuestDtorTags THEN "gdrop" ELSE "hdrop"
  <2>1. h \in Handles /\ entries[h] \in Objects
    BY DEF IInv, TypeOK
  <2>2. DropFrame(k, h, entries[h]) \in Frame /\ DropFrame(k, h, entries[h]).kind # "root"
    BY <2>1 DEF DropFrame, NewFrame, Frame
  <2>3. /\ frames' = Push(DropFrame(k, h, entries[h]))
        /\ UNCHANGED <<tableVars, obj, lenders, open, numBorrows, returned, poisoned>>
    BY <1>1 DEF BeginDropResource
  <2>4. StackOK(frames')
    BY <2>2, <2>3, PushTopOK
  <2>5. poisoned' \in BOOLEAN
    BY <2>3 DEF IInv, TypeOK
  <2>6. QED BY <2>3, <2>4, <2>5, StackStep
<1>2. CASE FinishDropResource \/ DtorFails
  <2>1. frames' = Pop /\ Top.kind # "root"
    BY <1>2 DEF FinishDropResource, DtorFails, DtorReturned
  <2>2. StackOK(frames')
    BY <2>1, PopTopOK
  <2>3. poisoned' \in BOOLEAN /\ UNCHANGED <<obj, lenders, open, numBorrows, returned>>
    BY <1>2 DEF FinishDropResource, DtorFails, IInv, TypeOK
  <2>4. CASE FinishDropResource /\ StillNames(Top.h, Top.o)
    <3>1. Top.h \in DOMAIN entries /\ RemoveEntry(Top.h)
      BY <2>4 DEF FinishDropResource, StillNames
    <3>2. TableTypeOK' /\ HandlesPartitioned' /\ EntriesCreated' /\ Map!Remove
      BY <2>3, <3>1, RemoveEntryOK
    <3>3. numBorrows' \in [Tasks -> Int]
      BY <2>3 DEF IInv, TypeOK
    <3>4. QED BY <2>2, <2>3, <3>2, <3>3, TableStep
  <2>5. CASE ~(FinishDropResource /\ StillNames(Top.h, Top.o))
    <3>1. UNCHANGED tableVars
      BY <1>2, <2>5 DEF FinishDropResource, DtorFails
    <3>2. QED BY <2>2, <2>3, <3>1, StackStep
  <2>6. QED BY <2>4, <2>5
<1>3. QED BY <1>1, <1>2

LEMMA CloseStep == ASSUME IInv, Close PROVE IInv' /\ MapStep
<1>1. /\ entries' = [h \in {} |-> NoObject] /\ DOMAIN entries' = {}
      /\ free' = <<>> /\ closed' = TRUE /\ ~closed
      /\ UNCHANGED <<next, obj, frames, lenders, open, numBorrows, returned, poisoned>>
  BY DEF Close, callVars
<1>2. entries' \in [DOMAIN entries' -> Objects]
  BY <1>1
<1>3. TypeOK'
  BY <1>1, <1>2 DEF IInv, TypeOK, Handles
<1>4. StackOK(frames') /\ HandlesPartitioned' /\ EntriesCreated'
  BY <1>1 DEF IInv, HandlesPartitioned, EntriesCreated
<1>5. Map!Shut
  <2>1. Stored' = Stored
    BY <1>1 DEF Stored
  <2>2. entries' = [h \in {} |-> 0]
    BY <1>1
  <2>3. QED BY <1>1, <2>1, <2>2 DEF Map!Shut
<1>6. MapStep
  BY <1>5 DEF MapStep, Map!MapNext
<1>7. QED BY <1>3, <1>4, <1>6 DEF IInv

-----------------------------------------------------------------------------
(* Every step preserves the invariant and is a step of the abstract map or *)
(* invisible in it.                                                        *)
LEMMA StepOK == IInv /\ [Next]_vars => IInv' /\ MapStep
<1> SUFFICES ASSUME IInv, [Next]_vars PROVE IInv' /\ MapStep
  OBVIOUS
<1>1. CASE Mint
  BY <1>1, MintStep
<1>2. CASE Lift
  BY <1>2, LiftEndStep, LiftBorrowStep, RemovalStep DEF Lift
<1>3. CASE Guest
  BY <1>3, EnterLeaveStep, BeginStep, DeliverStep, TaskReturnStep, RemovalStep DEF Guest
<1>4. CASE Host
  BY <1>4, EnterLeaveStep, ReturnCallStep, DropResourceStep, CloseStep DEF Host
<1>5. CASE UNCHANGED vars
  <2>1. /\ StackOK(frames') /\ obj' \in [Objects -> Entry]
        /\ poisoned' \in BOOLEAN
        /\ UNCHANGED <<tableVars, obj, lenders, open, numBorrows, returned>>
    BY <1>5 DEF vars, tableVars, IInv, TypeOK
  <2>2. QED BY <2>1, StackStep
<1>6. QED BY <1>1, <1>2, <1>3, <1>4, <1>5 DEF Next

(* The inductive invariant holds. *)
THEOREM Invariance == Spec => []IInv
<1>1. Init => IInv
  BY InitOK
<1>2. IInv /\ [Next]_vars => IInv'
  BY StepOK
<1>3. QED BY <1>1, <1>2, PTL DEF Spec

(* resource.go, waitable.go, task.go: every variable keeps its type. *)
THEOREM TypeCorrect == Spec => []TypeOK
<1>1. IInv => TypeOK
  BY DEF IInv
<1>2. QED BY <1>1, Invariance, PTL

(* No sequence of calls, nested or not, makes addEntry hand out a handle    *)
(* that is in use, frees an index twice or loses one (resource.go:265-285). *)
THEOREM IndexSpacePartitioned == Spec => []HandlesPartitioned
<1>1. IInv => HandlesPartitioned
  BY DEF IInv
<1>2. QED BY <1>1, Invariance, PTL

(* The handle table implements the partial map HandleMap. *)
THEOREM ImplementsHandleMap == Spec => RefinesHandleMap
<1>1. Init => Map!MapInit
  BY InitOK
<1>2. IInv /\ [Next]_vars => [Map!MapNext]_(Map!mapVars)
  BY StepOK DEF MapStep
<1>3. QED BY <1>1, <1>2, Invariance, PTL DEF Spec, RefinesHandleMap, Map!MapSpec
=============================================================================
