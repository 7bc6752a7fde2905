--------------------------- MODULE ChannelsProofs ---------------------------
(***************************************************************************)
(* Theorems about the streams and futures of Channels, for every number of *)
(* instances, buffer length and stream length, and whether or not a host   *)
(* callback acts inline (CallsBack). Only CopiesTracked needs callbacks    *)
(* that do not: with them CopyIsTracked is false (see the run of           *)
(* ChannelsCallback.cfg).                                                  *)
(*                                                                         *)
(* ChannelInv is the inductive invariant. The properties are not inductive *)
(* alone: that a parked copy is still copying needs that events are only   *)
(* ever set for an end that copies (EventsBelong); that a copy in flight   *)
(* is parked, has its event or was displaced by an inline callback         *)
(* (NoneForgotten) needs that a failed call leaves its end stuck           *)
(* (FailuresStay), which also keeps elements from moving after others were *)
(* lost; that a dropped future has no reader left needs what a final event *)
(* of its writer says of the reader (FutureTold) and that a parked future  *)
(* buffer is untouched (FutureFresh); that the result words add up needs   *)
(* the accounting of the copies that are still open (Accounted).           *)
(***************************************************************************)
EXTENDS Channels, TLAPS

USE ChannelsAssumption DEF Ends, Peer

(* What moves is no more than either side has room for.                    *)
LEMMA MinOfTwo ==
  ASSUME NEW m \in Nat, NEW n \in Nat
  PROVE  /\ Movable(m, n) \in Nat
         /\ Movable(m, n) <= m /\ Movable(m, n) <= n
         /\ Movable(m, n) = m \/ Movable(m, n) = n
<1>1. \E x \in {m, n} : \A y \in {m, n} : x <= y
  OBVIOUS
<1>2. Movable(m, n) = CHOOSE x \in {m, n} : \A y \in {m, n} : x <= y
  BY DEF Movable, Min
<1> QED
  BY <1>1, <1>2

(* A buffer's progress never passes its length.                            *)
LEMMA BufferFacts ==
  /\ NoBuf \in Buffers
  /\ \A n \in 0..MaxLen : \A d \in 0..n : [len |-> n, done |-> d] \in Buffers
  /\ \A b \in Buffers : /\ b.len \in 0..MaxLen /\ b.done \in 0..b.len
                        /\ b = [len |-> b.len, done |-> b.done]
                        /\ \A d \in 0..b.len : [b EXCEPT !.done = d] = [len |-> b.len, done |-> d]
BY DEF Buffers, NoBuf

LEMMA LengthFacts == ASSUME NEW n \in Lengths PROVE n \in 0..MaxLen
BY DEF Lengths

(* A copy call starts with a fresh buffer and leaves the peer's alone.     *)
LEMMA BufferedOK ==
  ASSUME TypeOK, NEW e \in Ends, NEW n \in Lengths
  PROVE  /\ Buffered(e, n) \in [Ends -> Buffers]
         /\ Buffered(e, n)[e] = [len |-> n, done |-> 0]
         /\ \A x \in Ends : x # e => Buffered(e, n)[x] = buf[x]
<1>1. [len |-> n, done |-> 0] \in Buffers
  BY LengthFacts, BufferFacts
<1>2. buf \in [Ends -> Buffers]
  BY DEF TypeOK
<1> QED BY <1>1, <1>2 DEF Buffered

(* Learning results keeps the types of what it writes.                     *)
LEMMA LearnOK ==
  ASSUME NEW res, NEW b \in [Ends -> Buffers], NEW s, Learn(res, b, s), TypeOK,
         \A e \in Ends : e \notin DOMAIN res => s[e] \in {"idle", "copying", "cancelling", "done", "gone"}
  PROVE  /\ state' \in [Ends -> {"idle", "copying", "cancelling", "done", "gone"}]
         /\ buf' \in [Ends -> Buffers]
         /\ told' \in [Ends -> Nat]
<1>1. \A e \in Ends : After(e, res[e]) \in {"done", "idle"}
  BY DEF After
<1>2. \A e \in Ends : b[e].done \in Nat /\ told[e] \in Nat
  BY BufferFacts DEF TypeOK
<1>3. \A e \in Ends : told[e] + (IF e \in DOMAIN res THEN b[e].done ELSE 0) \in Nat
  BY <1>2
<1>4. told' \in [Ends -> Nat]
  BY <1>3 DEF Learn, Reported
<1>5. buf' \in [Ends -> Buffers]
  BY BufferFacts DEF Learn
<1>6. state' \in [Ends -> {"idle", "copying", "cancelling", "done", "gone"}]
  BY <1>1 DEF Learn
<1> QED BY <1>4, <1>5, <1>6

(* The offered elements are the next k numbers.                            *)
LEMMA OfferedOK ==
  ASSUME TypeOK, NEW b \in [Ends -> Buffers], NEW k \in Nat
  PROVE  /\ Offered(b, k) \in Seq(Nat)
         /\ Len(Offered(b, k)) = k
         /\ \A i \in 1..k : Offered(b, k)[i] = told["w"] + b["w"].done + i
<1>1. told["w"] \in Nat /\ b["w"].done \in Nat
  BY BufferFacts DEF TypeOK
<1>2. \A i \in 1..k : told["w"] + b["w"].done + i \in Nat
  BY <1>1
<1> QED BY <1>1, <1>2 DEF Offered

-----------------------------------------------------------------------------
(* Type correctness, one lemma per group of actions.                       *)
LEMMA StreamMeetsTyped ==
  ASSUME TypeOK, NEW e \in Ends, NEW n \in Lengths, StreamMeets(e, n)
  PROVE  TypeOK'
<1> DEFINE p == Peer(e)
           b == Buffered(e, n)
           k == Movable(n, Room(p))
           moved == [x \in Ends |-> [b[x] EXCEPT !.done = @ + k]]
<1>1. /\ b \in [Ends -> Buffers] /\ b[e] = [len |-> n, done |-> 0] /\ b[p] = buf[p]
      /\ buf[p] \in Buffers /\ n \in 0..MaxLen
  BY BufferedOK, LengthFacts DEF TypeOK
<1>2. k \in 0..n /\ k \in 0..(buf[p].len - buf[p].done)
  BY <1>1, BufferFacts, MinOfTwo DEF Room
<1> HIDE DEF p, b, k
<1>3. \A x \in Ends : x = e \/ x = p
  BY DEF p
<1>4. moved \in [Ends -> Buffers]
  <2>1. b[e].done + k \in 0..b[e].len
    BY <1>1, <1>2
  <2>2. b[p].done + k \in 0..b[p].len
    BY <1>1, <1>2, BufferFacts
  <2>3. \A x \in Ends : b[x] \in Buffers /\ b[x].done + k \in 0..b[x].len
    BY <1>1, <1>3, <2>1, <2>2
  <2>4. \A x \in Ends : [b[x] EXCEPT !.done = @ + k] \in Buffers
    BY <2>3, BufferFacts
  <2> QED BY <2>4
<1> HIDE DEF moved
<1>5. /\ Learn(Notified(e, "completed", p, "completed"), moved, state)
      /\ event' = Posted(p, "progress")
      /\ parked' = MetParked(p)
      /\ Store(b, k)
      /\ Fixed /\ UNCHANGED <<dropped, blocked, trapped>>
  BY DEF StreamMeets, p, b, k, moved
<1>6. /\ state' \in [Ends -> {"idle", "copying", "cancelling", "done", "gone"}]
      /\ buf' \in [Ends -> Buffers] /\ told' \in [Ends -> Nat]
  <2> \A x \in Ends : state[x] \in {"idle", "copying", "cancelling", "done", "gone"}
    BY DEF TypeOK
  <2> QED BY <1>4, <1>5, LearnOK
<1>7. taken' \in Nat /\ received' \in Seq(Nat)
  <2> k \in Nat
    BY <1>1, <1>2
  <2> Offered(b, k) \in Seq(Nat)
    BY <1>1, OfferedOK
  <2> QED BY <1>5 DEF Store, TypeOK
<1>8. event' \in [Ends -> Events] /\ parked' \in Ends \cup {NoEnd}
  BY <1>5, <1>3 DEF Posted, MetParked, Events, TypeOK, p
<1> QED BY <1>5, <1>6, <1>7, <1>8 DEF TypeOK, Fixed

LEMMA FutureMeetsTyped ==
  ASSUME TypeOK, NEW e \in Ends, NEW n \in Lengths, FutureMeets(e, n),
         parked # NoEnd => buf[parked].len = 1
  PROVE  TypeOK'
<1> DEFINE p == Peer(e)
           b == Buffered(e, n)
           moved == [x \in Ends |-> [b[x] EXCEPT !.done = 1]]
<1>1. /\ b \in [Ends -> Buffers] /\ b[e] = [len |-> n, done |-> 0] /\ b[p] = buf[p]
      /\ n = 1 /\ buf[p].len = 1
  BY BufferedOK DEF FutureMeets, MayMeet, Lengths
<1> HIDE DEF p, b
<1>3. \A x \in Ends : x = e \/ x = p
  BY DEF p
<1>4. moved \in [Ends -> Buffers]
  <2>1. \A x \in Ends : b[x] \in Buffers /\ b[x].len = 1
    BY <1>1, <1>3
  <2>2. \A x \in Ends : [b[x] EXCEPT !.done = 1] \in Buffers
    BY <2>1, BufferFacts
  <2> QED BY <2>2
<1> HIDE DEF moved
<1>5. /\ Learn(Notified(e, "completed", p, "completed"), moved, state)
      /\ event' = Posted(p, "completed")
      /\ parked' = Settled(p)
      /\ Store(b, 1)
      /\ Fixed /\ UNCHANGED <<dropped, blocked, trapped>>
  BY DEF FutureMeets, p, b, moved
<1>6. /\ state' \in [Ends -> {"idle", "copying", "cancelling", "done", "gone"}]
      /\ buf' \in [Ends -> Buffers] /\ told' \in [Ends -> Nat]
  <2> \A x \in Ends : state[x] \in {"idle", "copying", "cancelling", "done", "gone"}
    BY DEF TypeOK
  <2> QED BY <1>4, <1>5, LearnOK
<1>7. taken' \in Nat /\ received' \in Seq(Nat)
  <2> Offered(b, 1) \in Seq(Nat)
    BY <1>1, OfferedOK
  <2> QED BY <1>5 DEF Store, TypeOK
<1>8. event' \in [Ends -> Events] /\ parked' \in Ends \cup {NoEnd}
  BY <1>5, <1>3 DEF Posted, Settled, Events, Results, TypeOK, p
<1> QED BY <1>5, <1>6, <1>7, <1>8 DEF TypeOK, Fixed

LEMMA TakesOverTyped ==
  ASSUME TypeOK, NEW e \in Ends, NEW n \in Lengths, NEW sync \in BOOLEAN,
         NEW again \in {"nothing", "copy", "close"}, CopyTakesOver(e, n, sync, again)
  PROVE  TypeOK'
<1> DEFINE p == Peer(e)
           b == Buffered(e, n)
           res == IF Guest(p) THEN <<>> ELSE Returned(p, "completed")
           next == [nothing |-> "idle", copy |-> "copying", close |-> "done"][again]
<1>1. b \in [Ends -> Buffers]
  BY BufferedOK
<1>2. next \in {"idle", "copying", "done"}
  OBVIOUS
<1> HIDE DEF p, b, res, next
<1>3. /\ state' = [x \in Ends |-> IF x = e THEN "copying"
                                  ELSE IF x \in DOMAIN res THEN next ELSE state[x]]
      /\ buf' = [x \in Ends |-> IF x \in DOMAIN res
                                THEN [len |-> IF again = "copy" THEN 1 ELSE 0, done |-> 0]
                                ELSE b[x]]
      /\ told' = [x \in Ends |-> told[x] + IF x \in DOMAIN res THEN b[x].done ELSE 0]
      /\ event' = Posted(p, "completed")
      /\ dropped' = (again = "close")
      /\ parked' = e /\ Waits(e, sync)
      /\ Fixed /\ UNCHANGED <<taken, received, trapped>>
  BY DEF CopyTakesOver, p, b, res, next
<1>4. state' \in [Ends -> {"idle", "copying", "cancelling", "done", "gone"}]
  BY <1>2, <1>3 DEF TypeOK
<1>5. buf' \in [Ends -> Buffers]
  <2> [len |-> IF again = "copy" THEN 1 ELSE 0, done |-> 0] \in Buffers
    BY BufferFacts
  <2> QED BY <1>1, <1>3
<1>6. told' \in [Ends -> Nat]
  <2>1. \A x \in Ends : b[x].done \in Nat /\ told[x] \in Nat
    BY <1>1, BufferFacts DEF TypeOK
  <2>2. \A x \in Ends : told[x] + (IF x \in DOMAIN res THEN b[x].done ELSE 0) \in Nat
    BY <2>1
  <2> QED BY <1>3, <2>2
<1>7. event' \in [Ends -> Events]
  BY <1>3 DEF Posted, Events, Results, TypeOK
<1>8. dropped' \in BOOLEAN /\ parked' \in Ends \cup {NoEnd} /\ blocked' \subseteq Ends
  BY <1>3 DEF Waits, TypeOK
<1> QED BY <1>3, <1>4, <1>5, <1>6, <1>7, <1>8 DEF TypeOK, Fixed

LEMMA OtherCopiesTyped ==
  ASSUME TypeOK, NEW e \in Ends, NEW n \in Lengths,
         \/ CopyOnDropped(e, n)
         \/ \E sync \in BOOLEAN : CopyParks(e, n, sync)
         \/ CopyPasses(e, n)
  PROVE  TypeOK'
<1>1. Buffered(e, n) \in [Ends -> Buffers]
  BY BufferedOK
<1>2. Started(e) \in [Ends -> {"idle", "copying", "cancelling", "done", "gone"}]
  BY DEF Started, TypeOK
<1>3. \A x \in Ends : state[x] \in {"idle", "copying", "cancelling", "done", "gone"}
  BY DEF TypeOK
<1>4. ASSUME Learn(Returned(e, "completed"), Buffered(e, n), state)
             \/ Learn(Returned(e, "dropped"), Buffered(e, n), state)
      PROVE  /\ state' \in [Ends -> {"idle", "copying", "cancelling", "done", "gone"}]
             /\ buf' \in [Ends -> Buffers] /\ told' \in [Ends -> Nat]
  BY <1>1, <1>3, <1>4, LearnOK
<1>5. CASE CopyOnDropped(e, n)
  BY <1>4, <1>5 DEF CopyOnDropped, TypeOK, Fixed
<1>6. CASE \E sync \in BOOLEAN : CopyParks(e, n, sync)
  BY <1>1, <1>2, <1>6 DEF CopyParks, Waits, TypeOK, Fixed
<1>7. CASE CopyPasses(e, n)
  BY <1>4, <1>7 DEF CopyPasses, TypeOK, Fixed
<1> QED BY <1>5, <1>6, <1>7

(* A call that fails.                                                      *)
FailsPartway(e, n) ==
    \/ CopyWithinInstance(e, n)
    \/ \E i \in 0..MaxLen : CopyFailsAtWriter(e, n, i)
    \/ CopyFailsAtReader(e, n)

(* It opens the caller's copy and adds what is lost to the writer's        *)
(* progress.                                                               *)
LEMMA FailureFacts ==
  ASSUME TypeOK, NEW e \in Ends, NEW n \in Lengths, FailsPartway(e, n)
  PROVE  /\ CanCopy(e, n) /\ ~dropped /\ parked = Peer(e) /\ Fails(e)
         /\ Guest(e) \/ Guest(Peer(e))
         /\ taken' \in Nat
         /\ \E c \in 0..n : /\ lost' = lost + c
                            /\ c > 0 => kind = "stream" /\ c <= Room(Peer(e))
                            /\ buf' \in [Ends -> Buffers]
                            /\ buf'[e].len = n /\ buf'[Peer(e)].len = buf[Peer(e)].len
                            /\ buf'["w"].done = Buffered(e, n)["w"].done + c
                            /\ buf'["r"].done = Buffered(e, n)["r"].done
                            /\ c = 0 => buf' = Buffered(e, n)
<1> DEFINE b == Buffered(e, n)
           p == Peer(e)
<1>1. /\ b \in [Ends -> Buffers] /\ b[e] = [len |-> n, done |-> 0] /\ b[p] = buf[p]
      /\ n \in 0..MaxLen /\ buf[p] \in Buffers
  BY BufferedOK, LengthFacts DEF TypeOK
<1>2. CanCopy(e, n) /\ ~dropped /\ parked = p /\ Fails(e) /\ (Guest(e) \/ Guest(p))
  BY DEF FailsPartway, CopyWithinInstance, CopyFailsAtWriter, CopyFailsAtReader, MayMeet
<1> HIDE DEF b, p
<1>3. ASSUME buf' = b, lost' = lost, taken' \in Nat
      PROVE  taken' \in Nat /\ \E c \in 0..n :
               /\ lost' = lost + c
               /\ c > 0 => kind = "stream" /\ c <= Room(p)
               /\ buf' \in [Ends -> Buffers]
               /\ buf'[e].len = n /\ buf'[p].len = buf[p].len
               /\ buf'["w"].done = b["w"].done + c /\ buf'["r"].done = b["r"].done
               /\ c = 0 => buf' = b
  <2>1. b["w"].done + 0 = b["w"].done
    BY <1>1, BufferFacts
  <2>2. lost' = lost + 0 /\ 0 \in 0..n
    BY <1>1, <1>3 DEF TypeOK
  <2> QED BY <1>1, <1>3, <2>1, <2>2
<1>4. CASE CopyWithinInstance(e, n)
  BY <1>2, <1>3, <1>4 DEF CopyWithinInstance, b, p, TypeOK
<1>5. CASE \E i \in 0..MaxLen : CopyFailsAtWriter(e, n, i)
  BY <1>2, <1>3, <1>5 DEF CopyFailsAtWriter, b, p, TypeOK
<1>6. CASE CopyFailsAtReader(e, n)
  <2> DEFINE k == Movable(n, Room(p))
             c == IF kind = "stream" THEN k ELSE 0
  <2>1. k \in 0..n /\ k <= buf[p].len - buf[p].done /\ k \in Nat
    BY <1>1, BufferFacts, MinOfTwo DEF Room
  <2>2. buf' = [b EXCEPT !["w"].done = @ + c] /\ taken' = taken + k /\ lost' = lost + c
    BY <1>6 DEF CopyFailsAtReader, b, p
  <2> HIDE DEF k
  <2>3. c \in 0..n /\ c <= Room(p) /\ (c > 0 => kind = "stream") /\ c \in Nat
    BY <1>1, <2>1, BufferFacts DEF Room
  <2> HIDE DEF c
  <2>4. (e = "w" \/ p = "w") /\ (\A x \in Ends : x = e \/ x = p) /\ p # e
    BY DEF p
  <2>5. b["w"] \in Buffers /\ b["w"].done + c \in 0..b["w"].len
    <3>1. CASE e = "w"
      BY <1>1, <2>3, <3>1
    <3>2. CASE p = "w"
      <4>1. b["w"] = buf[p] /\ c \in 0..(buf[p].len - buf[p].done)
        BY <1>1, <2>3, <3>2, BufferFacts DEF Room
      <4> QED BY <1>1, <4>1, BufferFacts
    <3> QED BY <2>4, <3>1, <3>2
  <2>6. /\ buf'["w"] = [len |-> b["w"].len, done |-> b["w"].done + c]
        /\ buf'["r"] = b["r"] /\ buf' = [x \in Ends |-> buf'[x]]
    BY <1>1, <2>2, <2>5, BufferFacts
  <2>7. buf' \in [Ends -> Buffers]
    <3>1. [len |-> b["w"].len, done |-> b["w"].done + c] \in Buffers
      BY <2>5, BufferFacts
    <3> QED BY <1>1, <2>6, <3>1
  <2>8. \A x \in Ends : buf'[x].len = b[x].len
    BY <2>6
  <2>9. c = 0 => buf' = b
    <3> SUFFICES ASSUME c = 0 PROVE buf' = b
      OBVIOUS
    <3>1. b["w"] = [len |-> b["w"].len, done |-> b["w"].done]
      BY <2>5, BufferFacts
    <3>2. b["w"].done + c = b["w"].done
      BY <2>5, BufferFacts
    <3> QED BY <1>1, <2>6, <3>1, <3>2
  <2>10. /\ buf'[e].len = n /\ buf'[p].len = buf[p].len
         /\ buf'["w"].done = b["w"].done + c /\ buf'["r"].done = b["r"].done
    BY <1>1, <2>4, <2>6, <2>8
  <2>11. taken' \in Nat
    BY <2>1, <2>2 DEF TypeOK
  <2> QED BY <1>2, <2>2, <2>3, <2>7, <2>9, <2>10, <2>11 DEF b, p
<1> QED BY <1>4, <1>5, <1>6 DEF FailsPartway

LEMMA FailuresTyped ==
  ASSUME TypeOK, NEW e \in Ends, NEW n \in Lengths, FailsPartway(e, n)
  PROVE  TypeOK'
<1>1. Fails(e) /\ taken' \in Nat /\ buf' \in [Ends -> Buffers]
  BY FailureFacts
<1>2. lost' \in Nat
  BY FailureFacts, LengthFacts DEF TypeOK
<1>3. /\ state' \in [Ends -> {"idle", "copying", "cancelling", "done", "gone"}]
      /\ failed' \subseteq Ends /\ blocked' \subseteq Ends
  BY <1>1 DEF Fails, Started, TypeOK
<1>4. trapped' \subseteq Insts
  BY <1>1 DEF Fails, Guest, TypeOK
<1> QED BY <1>1, <1>2, <1>3, <1>4 DEF Fails, TypeOK

LEMMA EndsTyped ==
  ASSUME TypeOK, NEW e \in Ends,
         Deliver(e) \/ Join(e) \/ CancelCopy(e) \/ HostCancel(e) \/ DropEnd(e)
  PROVE  TypeOK'
<1> DEFINE States == {"idle", "copying", "cancelling", "done", "gone"}
           Typed == /\ state' \in [Ends -> States]
                    /\ buf' \in [Ends -> Buffers] /\ told' \in [Ends -> Nat]
                    /\ event' \in [Ends -> Events]
                    /\ parked' \in Ends \cup {NoEnd}
<1>1. /\ buf \in [Ends -> Buffers] /\ event \in [Ends -> Events]
      /\ state \in [Ends -> States]
  BY DEF TypeOK
<1>2. \A x \in Ends, ev \in {"dropped", "cancelled"} : Posted(x, ev) \in [Ends -> Events]
  BY <1>1 DEF Posted, Events, Results
<1>3. ASSUME TakeEvent(e) PROVE Typed
  BY <1>1, <1>3, LearnOK DEF TakeEvent, Reclaim, Events, TypeOK
<1>4. ASSUME CancelParked(e) PROVE Typed
  <2> DEFINE mine == parked = e
             res == IF mine \/ ~Guest(parked) THEN Returned(parked, "cancelled") ELSE <<>>
             now == [state EXCEPT ![e] = "cancelling"]
  <2>1. \A x \in Ends : now[x] \in States
    BY <1>1
  <2>2. Learn(res, buf, now)
    BY <1>4 DEF CancelParked
  <2> HIDE DEF res, now
  <2>3. state' \in [Ends -> States] /\ buf' \in [Ends -> Buffers] /\ told' \in [Ends -> Nat]
    BY <1>1, <2>1, <2>2, LearnOK
  <2>4. event' \in [Ends -> Events]
    BY <1>1, <1>2, <1>4 DEF CancelParked, Events, TypeOK
  <2> QED BY <2>3, <2>4, <1>4 DEF CancelParked
<1>5. CASE Deliver(e)
  BY <1>3, <1>5 DEF Deliver, TypeOK, Fixed
<1>6. CASE Join(e)
  BY <1>6 DEF Join, TypeOK
<1>7. CASE CancelCopy(e)
  BY <1>3, <1>4, <1>7 DEF CancelCopy, TypeOK, Fixed
<1>8. CASE HostCancel(e)
  <2>1. ASSUME CancelNothing(e) PROVE Typed
    BY <1>1, <2>1 DEF CancelNothing, TypeOK
  <2> QED BY <1>4, <1>8, <2>1 DEF HostCancel, TypeOK, Fixed
<1>9. CASE DropEnd(e)
  <2> DEFINE res == IF dropped \/ parked = NoEnd \/ parked \in {x \in Ends : Guest(x)}
                    THEN <<>> ELSE Returned(parked, "dropped")
             now == [state EXCEPT ![e] = IF Guest(e) THEN "gone" ELSE "done"]
  <2>1. \A x \in Ends : now[x] \in States
    BY <1>1
  <2>2. Learn(res, buf, now)
    BY <1>9 DEF DropEnd
  <2> HIDE DEF res, now
  <2>3. state' \in [Ends -> States] /\ buf' \in [Ends -> Buffers] /\ told' \in [Ends -> Nat]
    BY <1>1, <2>1, <2>2, LearnOK
  <2>4. event' \in [Ends -> Events]
    BY <1>1, <1>2, <1>9 DEF DropEnd, TypeOK
  <2>5. parked' \in Ends \cup {NoEnd} /\ dropped' \in BOOLEAN /\ joined' \subseteq Ends
    BY <1>9 DEF DropEnd, DropSettles, TypeOK
  <2> QED BY <2>3, <2>4, <2>5, <1>9 DEF DropEnd, TypeOK
<1> QED BY <1>5, <1>6, <1>7, <1>8, <1>9

LEMMA InstancesTyped ==
  ASSUME TypeOK, LiftToHost \/ \E i \in Insts : LiftToGuest(i) \/ HostGives(i) \/ GuestTrap(i)
  PROVE  TypeOK'
<1>1. ASSUME NEW h \in Insts \cup {Host}, Mint(h) PROVE TypeOK'
  <2>1. home' \in [Ends -> Insts \cup {Host}]
    BY <1>1 DEF Mint, TypeOK
  <2> QED BY <1>1, <2>1 DEF Mint, TypeOK
<1>2. ASSUME NEW i \in Insts, GuestTrap(i) PROVE TypeOK'
  BY <1>2 DEF GuestTrap, TypeOK
<1> QED BY <1>1, <1>2 DEF LiftToHost, LiftToGuest, HostGives

-----------------------------------------------------------------------------
(* An event is for a guest end that is copying. *)
EventsBelong == \A e \in Ends : event[e] # "none" => Guest(e) /\ Copying(e)

(* CopyIsTracked, but for a copy that the host started in the callback of  *)
(* one that was being displaced.                                           *)
NoneForgotten ==
    \A e \in Ends \ failed :
        Copying(e) => \/ parked = e \/ event[e] \in Results
                      \/ CallsBack /\ kind = "stream" /\ ~Guest(e)

ParkedIsOpen ==
    parked # NoEnd => /\ Copying(parked) /\ parked \notin failed
                      /\ event[parked] \in {"none", "progress"}

(* NothingParkedOnceDropped; a future is never the exception.              *)
ParkedOnceDropped == NothingParkedOnceDropped /\ (dropped /\ parked # NoEnd => kind = "stream")

(* An end whose call failed is stuck: a guest's instance trapped, a host   *)
(* end waits for a callback that never comes.  Only the calls of a guest's *)
(* peer fail, and elements are lost by a call that failed.                 *)
FailuresStay ==
    /\ \A e \in failed : /\ Copying(e) /\ parked # e /\ event[e] = "none"
                         /\ Guest(e) => ~Runs(e)
    /\ "r" \in failed /\ ~Guest("r") => Guest("w")
    /\ lost > 0 => failed # {}

Tracked == NoneForgotten /\ ParkedIsOpen /\ ParkedOnceDropped /\ EventsBelong /\ FailuresStay

(* Tracked is kept by copies, by the other calls of an end and by what     *)
(* instances do.                                                           *)
LEMMA CopyTracked ==
  ASSUME TypeOK, Tracked, NEW e \in Ends, NEW n \in Lengths, Copy(e, n)
  PROVE  Tracked'
<1> USE DEF Tracked, TypeOK, NoneForgotten, ParkedIsOpen, ParkedOnceDropped, NothingParkedOnceDropped,
            EventsBelong, FailuresStay,
            Guest, Copying, Runs, CanCopy, MayMeet, Fixed, Events, Results
<1>1. CASE CopyOnDropped(e, n)
  BY <1>1 DEF CopyOnDropped, Learn, Returned, After
<1>2. CASE \E sync \in BOOLEAN : CopyParks(e, n, sync)
  BY <1>2 DEF CopyParks, Started
<1>3. CASE StreamMeets(e, n)
  BY <1>3 DEF StreamMeets, MetParked, Notified, Learn, After, Posted
<1>4. CASE FutureMeets(e, n)
  BY <1>4 DEF FutureMeets, Settled, Notified, Learn, After, Posted
<1>5. CASE CopyPasses(e, n)
  BY <1>5 DEF CopyPasses, Returned, Learn, After
<1>6. CASE \E sync \in BOOLEAN, again \in {"nothing", "copy", "close"} :
             CopyTakesOver(e, n, sync, again)
  BY <1>6 DEF CopyTakesOver, Returned, Posted
<1>7. CASE FailsPartway(e, n)
  <2>1. /\ CanCopy(e, n) /\ ~dropped /\ parked = Peer(e) /\ Fails(e)
        /\ Guest(e) \/ Guest(Peer(e))
    BY <1>7, FailureFacts
  <2>2. /\ state'[e] = "copying" /\ \A x \in Ends : x # e => state'[x] = state[x]
        /\ UNCHANGED <<kind, home, dropped, parked, event>>
        /\ failed' = failed \cup {e} /\ trapped \subseteq trapped'
        /\ Guest(e) => home[e] \in trapped'
    BY <2>1 DEF Fails, Started
  <2> QED BY <2>1, <2>2
<1> QED BY <1>1, <1>2, <1>3, <1>4, <1>5, <1>6, <1>7 DEF Copy, FailsPartway

LEMMA EndsTracked ==
  ASSUME TypeOK, Tracked, NEW e \in Ends,
         Deliver(e) \/ Join(e) \/ CancelCopy(e) \/ HostCancel(e) \/ DropEnd(e)
  PROVE  Tracked'
<1> USE DEF Tracked, TypeOK, NoneForgotten, ParkedIsOpen, ParkedOnceDropped, NothingParkedOnceDropped,
            EventsBelong, FailuresStay,
            Guest, Copying, Runs, Fixed, Events, Results
<1>1. ASSUME Guest(e), Runs(e), Copying(e), event[e] \in {"none", "progress"} PROVE parked = e
  BY <1>1
<1>2. CASE Deliver(e)
  BY <1>2 DEF Deliver, TakeEvent, Reclaim, Returned, Learn, After
<1>3. CASE Join(e)
  BY <1>3 DEF Join
<1>4. CASE CancelCopy(e)
  BY <1>1, <1>4 DEF CancelCopy, CancelParked, LivePending, TakeEvent, Reclaim, Returned, Learn, After
<1>5. CASE HostCancel(e)
  <2>1. ~Guest(e) /\ Copying(e) /\ event[e] = "none"
    BY <1>5 DEF HostCancel
  <2>2. CASE CancelNothing(e)
    BY <1>5, <2>1, <2>2 DEF HostCancel, CancelNothing
  <2>3. CASE CancelParked(e) /\ Guest(parked)
    <3> DEFINE now == [state EXCEPT ![e] = "cancelling"]
    <3>1. parked # e /\ parked \in Ends /\ parked' = NoEnd /\ Learn(<<>>, buf, now)
      BY <2>1, <2>3 DEF CancelParked
    <3>2. \A x \in Ends : state'[x] = now[x]
      BY <3>1 DEF Learn
    <3>3. \A x \in Ends : event'[x] = IF x = parked THEN "cancelled" ELSE event[x]
      BY <2>3, <3>1 DEF CancelParked, Posted
    <3>4. /\ state'[e] = "cancelling" /\ state'[parked] = state[parked] /\ Copying(parked)
          /\ event'[e] = "none" /\ event'[parked] = "cancelled"
          /\ parked \notin failed
          /\ \A x \in Ends : x = e \/ x = parked
          /\ UNCHANGED <<kind, home, failed, lost, trapped>>
      BY <1>5, <2>1, <3>1, <3>2, <3>3 DEF HostCancel
    <3> HIDE DEF now
    <3>5. NoneForgotten' /\ ParkedIsOpen' /\ ParkedOnceDropped'
      BY <2>1, <3>1, <3>4
    <3>6. EventsBelong'
      BY <2>3, <3>4
    <3>7. FailuresStay'
      BY <2>1, <3>1, <3>4
    <3> QED BY <3>5, <3>6, <3>7
  <2>4. CASE CancelParked(e) /\ ~Guest(parked)
    <3> DEFINE now == [state EXCEPT ![e] = "cancelling"]
    <3>1. parked \in Ends /\ parked' = NoEnd /\ Learn(Returned(parked, "cancelled"), buf, now)
      BY <2>4 DEF CancelParked
    <3>2. /\ state'[parked] \in {"done", "idle"}
          /\ \A x \in Ends : x # parked => state'[x] = now[x]
      BY <3>1 DEF Learn, Returned, After
    <3>3. \A x \in Ends : event'[x] = event[x]
      BY <2>1, <2>4 DEF CancelParked, Posted
    <3> QED BY <1>5, <2>1, <2>4, <3>1, <3>2, <3>3 DEF HostCancel
  <2> QED BY <1>5, <2>2, <2>3, <2>4 DEF HostCancel
<1>6. CASE DropEnd(e)
  BY <1>6 DEF DropEnd, MayLeave, DropSettles, Returned, Learn, After, Posted
<1> QED BY <1>2, <1>3, <1>4, <1>5, <1>6

LEMMA InstancesTracked ==
  ASSUME TypeOK, Tracked,
         LiftToHost \/ \E i \in Insts : LiftToGuest(i) \/ HostGives(i) \/ GuestTrap(i)
  PROVE  Tracked'
<1> USE DEF Tracked, TypeOK, NoneForgotten, ParkedIsOpen, ParkedOnceDropped, NothingParkedOnceDropped,
            EventsBelong, FailuresStay,
            Guest, Copying, Runs
<1>1. ASSUME NEW h \in Insts \cup {Host}, Mint(h), state["r"] = "idle" PROVE Tracked'
  BY <1>1 DEF Mint
<1>2. ASSUME NEW i \in Insts, GuestTrap(i) PROVE Tracked'
  BY <1>2 DEF GuestTrap
<1> QED BY <1>1, <1>2 DEF LiftToHost, LiftToGuest, HostGives, CanLift

-----------------------------------------------------------------------------
(* The parked buffer of a future has not been touched: it has one element  *)
(* and is settled as soon as that is copied.                               *)
FutureFresh ==
    kind = "future" /\ parked # NoEnd => buf[parked] = [len |-> 1, done |-> 0]

(* The reader of a future will not read again. *)
ReaderOver ==
    \/ state["r"] \in {"done", "gone"}
    \/ Copying("r") /\ (event["r"] = "completed" \/ ~Runs("r"))

(* A future's writer leaves, or its channel is dropped, only once the      *)
(* reader will not read again (future drop traps otherwise).               *)
FutureSettled ==
    kind = "future" /\ (dropped \/ state["w"] \in {"done", "gone"}) => ReaderOver

(* A future copies nothing in part, and its writer is told that its value  *)
(* was taken only when the reader has it.                                  *)
FutureTold ==
    kind = "future" => /\ \A e \in Ends : event[e] # "progress"
                       /\ event["w"] \in {"completed", "dropped"} => ReaderOver

FutureInv == FutureFresh /\ FutureSettled /\ FutureTold

(* FutureInv is kept by the same three groups of actions.                  *)
LEMMA CopySettles ==
  ASSUME TypeOK, Tracked, FutureInv, NEW e \in Ends, NEW n \in Lengths, Copy(e, n)
  PROVE  FutureInv'
<1> USE DEF Tracked, TypeOK, NoneForgotten, ParkedIsOpen, ParkedOnceDropped, NothingParkedOnceDropped,
            EventsBelong, FailuresStay, FutureInv,
            FutureFresh, FutureSettled, FutureTold, ReaderOver, Lengths,
            Guest, Copying, Runs, CanCopy, MayMeet, Fixed, Events, Results
<1>1. CASE CopyOnDropped(e, n)
  BY <1>1 DEF CopyOnDropped, Learn, Returned, After
<1>2. CASE \E sync \in BOOLEAN : CopyParks(e, n, sync)
  BY <1>2 DEF CopyParks, Started, Buffered
<1>3. CASE StreamMeets(e, n)
  BY <1>3 DEF StreamMeets
<1>4. CASE FutureMeets(e, n)
  BY <1>4 DEF FutureMeets, Settled, Notified, Learn, After, Posted
<1>5. CASE CopyPasses(e, n)
  BY <1>5 DEF CopyPasses
<1>6. CASE \E sync \in BOOLEAN, again \in {"nothing", "copy", "close"} :
             CopyTakesOver(e, n, sync, again)
  BY <1>6 DEF CopyTakesOver
<1>7. CASE FailsPartway(e, n)
  <2>1. CanCopy(e, n) /\ ~dropped /\ parked = Peer(e) /\ Fails(e)
    BY <1>7, FailureFacts
  <2>2. kind = "future" => buf' = Buffered(e, n)
    BY <1>7, FailureFacts
  <2>3. /\ state'[e] = "copying" /\ \A x \in Ends : x # e => state'[x] = state[x]
        /\ UNCHANGED <<kind, home, dropped, parked, event>> /\ trapped \subseteq trapped'
    BY <2>1 DEF Fails, Started
  <2> QED BY <2>1, <2>2, <2>3 DEF Buffered
<1> QED BY <1>1, <1>2, <1>3, <1>4, <1>5, <1>6, <1>7 DEF Copy, FailsPartway

LEMMA EndsSettle ==
  ASSUME TypeOK, Tracked, FutureInv, NEW e \in Ends,
         Deliver(e) \/ Join(e) \/ CancelCopy(e) \/ HostCancel(e) \/ DropEnd(e)
  PROVE  FutureInv'
<1> USE DEF Tracked, TypeOK, NoneForgotten, ParkedIsOpen, ParkedOnceDropped, NothingParkedOnceDropped,
            EventsBelong, FailuresStay, FutureInv,
            FutureFresh, FutureSettled, FutureTold, ReaderOver, Guest, Copying, Runs, Fixed,
            Events, Results
<1>1. ASSUME kind = "future", Runs(e), Copying(e), Guest(e) \/ e \notin failed,
             event[e] \in {"none", "progress"}
      PROVE  parked = e
  BY <1>1
<1>0. ASSUME Runs(e), event[e] # "none", TakeEvent(e), Fixed, UNCHANGED <<dropped, trapped>>
      PROVE  FutureInv'
  <2> SUFFICES ASSUME kind = "future" PROVE FutureInv'
    BY <1>0
  <2>1. event[e] \in Results /\ parked # e
    BY <1>0
  <2>2. /\ state'[e] = After(e, event[e]) /\ state'[Peer(e)] = state[Peer(e)]
        /\ event'[e] = "none" /\ event'[Peer(e)] = event[Peer(e)]
        /\ parked' = parked /\ buf'[Peer(e)] = buf[Peer(e)]
    BY <1>0, <2>1 DEF TakeEvent, Reclaim, Returned, Learn
  <2>3. FutureFresh'
    BY <1>0, <2>1, <2>2
  <2>4. CASE e = "r"
    <3>1. ReaderOver => ReaderOver'
      BY <1>0, <2>1, <2>2, <2>4 DEF After
    <3> QED BY <1>0, <2>2, <2>3, <2>4, <3>1
  <2>5. CASE e = "w"
    <3>1. ReaderOver => ReaderOver'
      BY <1>0, <2>2, <2>5
    <3>2. state'["w"] \in {"done", "gone"} => ReaderOver
      BY <2>1, <2>2, <2>5 DEF After
    <3> QED BY <1>0, <2>2, <2>3, <2>5, <3>1, <3>2
  <2> QED BY <2>4, <2>5
<1>2. CASE Deliver(e)
  BY <1>0, <1>2 DEF Deliver
<1>3. CASE Join(e)
  BY <1>3 DEF Join
<1>4. ASSUME Runs(e), Copying(e), CancelParked(e), Fixed, UNCHANGED <<dropped, trapped>>,
             kind = "future" => (~Guest(e) => e = "r"),
             event[e] \in {"none", "progress"}, Guest(e) \/ e \notin failed
      PROVE  FutureInv'
  <2> SUFFICES ASSUME kind = "future" PROVE FutureInv'
    BY <1>4
  <2>1. parked = e /\ parked' = NoEnd
    BY <1>1, <1>4 DEF CancelParked
  <2>2. /\ state'[e] = After(e, "cancelled") /\ state'[Peer(e)] = state[Peer(e)]
        /\ event'[e] = "none" /\ event'[Peer(e)] = event[Peer(e)]
    BY <1>4, <2>1 DEF CancelParked, Returned, Learn
  <2>3. ~dropped
    BY <2>1
  <2>4. CASE e = "r"
    BY <1>4, <2>1, <2>2, <2>3, <2>4 DEF After
  <2>5. CASE e = "w"
    BY <1>4, <2>1, <2>2, <2>3, <2>5 DEF After
  <2> QED BY <2>4, <2>5
<1>5. CASE CancelCopy(e)
  <2>1. CASE (event[e] = "none" \/ LivePending(e)) /\ CancelParked(e)
    BY <1>4, <1>5, <2>1 DEF CancelCopy, LivePending
  <2>2. CASE event[e] # "none" /\ TakeEvent(e)
    BY <1>0, <1>5, <2>2 DEF CancelCopy
  <2> QED BY <1>5, <2>1, <2>2 DEF CancelCopy
<1>6. CASE HostCancel(e)
  <2>1. event[e] = "none" /\ Runs(e)
    BY <1>6, ChannelsAssumption DEF HostCancel
  <2>2. CASE e \notin failed /\ CancelParked(e)
    BY <1>4, <1>6, <2>1, <2>2 DEF HostCancel
  <2>3. CASE e \in failed /\ CancelParked(e)
    <3>1. SUFFICES ASSUME kind = "future" PROVE FutureInv'
      BY <1>6 DEF HostCancel
    <3>2. e = "r" /\ Guest("w") /\ parked = "w"
      BY <1>6, <2>3, <3>1 DEF HostCancel, CancelParked
    <3>3. /\ state'["r"] = "cancelling" /\ state'["w"] = state["w"]
          /\ event'["r"] = event["r"] /\ event'["w"] = "cancelled"
      BY <2>3, <3>2 DEF CancelParked, Learn, Posted
    <3> QED BY <1>6, <2>3, <3>2, <3>3 DEF HostCancel, CancelParked
  <2>4. CASE CancelNothing(e)
    BY <1>6, <2>4 DEF HostCancel, CancelNothing
  <2> QED BY <1>6, <2>2, <2>3, <2>4 DEF HostCancel
<1>7. CASE DropEnd(e)
  <2>0. SUFFICES ASSUME kind = "future" PROVE FutureInv'
    BY <1>7 DEF DropEnd
  <2>1. /\ dropped' /\ parked' = NoEnd /\ kind' = kind /\ trapped' = trapped /\ home' = home
    BY <1>7, <2>0 DEF DropEnd, DropSettles
  <2>2. state'[e] \in {"done", "gone"}
    BY <1>7 DEF DropEnd, MayLeave, Returned, Learn, After
  <2>3. ASSUME NEW x \in Ends, x # e
        PROVE  /\ state'[x] = state[x] \/ state'[x] = "done"
               /\ event'[x] = event[x] \/ (parked = x /\ event'[x] = "dropped")
    BY <1>7, <2>3 DEF DropEnd, Returned, Learn, After, Posted
  <2>4. event[e] = "none" /\ event'[e] = "none"
    BY <1>7 DEF DropEnd, MayLeave, Posted
  <2>6. ReaderOver'
    <3>1. CASE e = "r"
      BY <2>2, <3>1
    <3>2. CASE e = "w"
      <4>1. ReaderOver
        BY <1>7, <2>0, <3>2 DEF DropEnd, MayLeave
      <4>2. /\ state'["r"] = state["r"] \/ state'["r"] = "done"
            /\ event'["r"] = event["r"] \/ event[ "r"] # "completed"
        BY <2>3, <3>2
      <4> QED BY <2>1, <4>1, <4>2
    <3> QED BY <3>1, <3>2
  <2>7. \A x \in Ends : event'[x] # "progress"
    BY <2>0, <2>3, <2>4
  <2> QED BY <2>1, <2>6, <2>7
<1> QED BY <1>2, <1>3, <1>5, <1>6, <1>7

LEMMA InstancesSettle ==
  ASSUME TypeOK, Tracked, FutureInv,
         LiftToHost \/ \E i \in Insts : LiftToGuest(i) \/ HostGives(i) \/ GuestTrap(i)
  PROVE  FutureInv'
<1> USE DEF TypeOK, FutureInv, FutureFresh, FutureSettled, FutureTold, ReaderOver, Copying, Runs
<1>1. ASSUME NEW h \in Insts \cup {Host}, Mint(h), state["r"] = "idle" PROVE FutureInv'
  BY <1>1 DEF Mint
<1>2. ASSUME NEW i \in Insts, GuestTrap(i) PROVE FutureInv'
  BY <1>2 DEF GuestTrap
<1> QED BY <1>1, <1>2 DEF LiftToHost, LiftToGuest, HostGives, CanLift

-----------------------------------------------------------------------------
(* What an end was told and what its open copy has moved make up what the  *)
(* reader has, and for the writer what was lost. *)
Accounted ==
    \A e \in Ends : /\ told[e] + buf[e].done = Len(received) + Excess(e)
                    /\ ~Copying(e) => buf[e] = NoBuf

Books == Accounted /\ InOrder

(* Books is kept where nothing is learned and no open copy ends.           *)
LEMMA BooksKept ==
  ASSUME TypeOK, Books, UNCHANGED <<told, buf, received, lost>>,
         \A e \in Ends : state'[e] # state[e] => buf[e] = NoBuf \/ state'[e] = "cancelling"
  PROVE  Books'
BY DEF Books, Accounted, Excess, InOrder, Copying, TypeOK

(* Learning a result moves a copy's progress from its buffer to the total. *)
LEMMA LearnKeepsBooks ==
  ASSUME NEW b \in [Ends -> Buffers], NEW res, NEW s, TypeOK, Books,
         Learn(res, b, s), received' \in Seq(Nat), InOrder', lost' = lost,
         \A e \in Ends : /\ told[e] + b[e].done = Len(received') + Excess(e)
                         /\ e \notin DOMAIN res /\ s[e] \notin {"copying", "cancelling"} => b[e] = NoBuf
  PROVE  Books'
<1>1. \A e \in Ends : told[e] \in Nat /\ b[e].done \in Nat
  <2>1. \A e \in Ends : told[e] \in Nat
    BY DEF TypeOK
  <2>2. \A e \in Ends : b[e].done \in Nat
    BY BufferFacts
  <2> QED BY <2>1, <2>2
<1>2. ASSUME NEW e \in Ends, e \in DOMAIN res
      PROVE  told'[e] = told[e] + b[e].done /\ buf'[e] = NoBuf
  BY <1>2 DEF Learn, Reported
<1>3. ASSUME NEW e \in Ends, e \notin DOMAIN res
      PROVE  told'[e] = told[e] /\ buf'[e] = b[e] /\ state'[e] = s[e]
  <2> told[e] + 0 = told[e]
    BY <1>1
  <2> QED BY <1>3 DEF Learn
<1>4. ASSUME NEW e \in Ends PROVE told'[e] + buf'[e].done = Len(received') + Excess(e)'
  <2>1. CASE e \in DOMAIN res
    BY <1>1, <1>2, <2>1 DEF NoBuf, Excess
  <2>2. CASE e \notin DOMAIN res
    BY <1>3, <2>2 DEF Excess
  <2> QED BY <2>1, <2>2
<1>5. ASSUME NEW e \in Ends, ~Copying(e)' PROVE buf'[e] = NoBuf
  BY <1>2, <1>3, <1>5 DEF Copying
<1> QED BY <1>4, <1>5 DEF Books, Accounted

(* A copy that opens has moved nothing.                                    *)
LEMMA OpenKeepsBooks ==
  ASSUME TypeOK, Books, NEW e \in Ends, NEW n \in Lengths, ~Copying(e),
         state' = Started(e), buf' = Buffered(e, n), UNCHANGED <<told, received, lost>>
  PROVE  Books'
<1>1. /\ buf'[e] = [len |-> n, done |-> 0]
      /\ \A x \in Ends : x # e => buf'[x] = buf[x]
  BY BufferedOK
<1>2. state'[e] = "copying" /\ \A x \in Ends : x # e => state'[x] = state[x]
  BY DEF Started, TypeOK
<1>3. buf[e] = NoBuf
  BY DEF Books, Accounted
<1>4. ASSUME NEW x \in Ends
      PROVE  told'[x] + buf'[x].done = Len(received') + Excess(x)' /\ (~Copying(x)' => buf'[x] = NoBuf)
  <2>1. told[x] + buf[x].done = Len(received) + Excess(x) /\ (~Copying(x) => buf[x] = NoBuf)
    BY DEF Books, Accounted
  <2>2. CASE x = e
    BY <1>1, <1>2, <1>3, <2>1, <2>2 DEF NoBuf, Copying, Excess
  <2>3. CASE x # e
    BY <1>1, <1>2, <2>1, <2>3 DEF Copying, Excess
  <2> QED BY <2>2, <2>3
<1>5. InOrder'
  BY DEF Books, InOrder
<1> QED BY <1>4, <1>5 DEF Books, Accounted

(* What a failed call loses is the writer's excess.                        *)
LEMMA FailuresBooks ==
  ASSUME TypeOK, Tracked, Books, NEW e \in Ends, NEW n \in Lengths, FailsPartway(e, n)
  PROVE  Books'
<1>1. CanCopy(e, n) /\ parked = Peer(e) /\ Fails(e)
  BY FailureFacts
<1>2. PICK c \in 0..n : /\ lost' = lost + c
                        /\ buf'[e].len = n /\ buf'[Peer(e)].len = buf[Peer(e)].len
                        /\ buf'["w"].done = Buffered(e, n)["w"].done + c
                        /\ buf'["r"].done = Buffered(e, n)["r"].done
                        /\ c = 0 => buf' = Buffered(e, n)
  BY FailureFacts
<1>3. ~Copying(e) /\ received' = received /\ told' = told /\ state' = Started(e)
  BY <1>1 DEF Fails, CanCopy, Copying
<1>4. buf[e] = NoBuf
  BY <1>3 DEF Books, Accounted
<1>5. \A x \in Ends : Buffered(e, n)[x].done = buf[x].done
  <2>1. /\ Buffered(e, n)[e] = [len |-> n, done |-> 0]
        /\ \A x \in Ends : x # e => Buffered(e, n)[x] = buf[x]
    BY BufferedOK
  <2> QED BY <1>4, <2>1 DEF NoBuf
<1>6. \A x \in Ends : told[x] \in Nat /\ buf[x].done \in Nat
  BY BufferFacts DEF TypeOK
<1>7. lost \in Nat /\ c \in Nat /\ Len(received) \in Nat
  BY LengthFacts DEF TypeOK
<1>8. state'[e] = "copying" /\ \A x \in Ends : x # e => state'[x] = state[x]
  BY <1>3 DEF Started, TypeOK
<1>9. ASSUME NEW x \in Ends PROVE told'[x] + buf'[x].done = Len(received') + Excess(x)'
  <2>1. told[x] + buf[x].done = Len(received) + Excess(x)
    BY DEF Books, Accounted
  <2>2. CASE x = "w"
    BY <1>2, <1>3, <1>5, <1>6, <1>7, <2>1, <2>2 DEF Excess
  <2>3. CASE x = "r"
    BY <1>2, <1>3, <1>5, <1>6, <1>7, <2>1, <2>3 DEF Excess
  <2> QED BY <2>2, <2>3
<1>10. \A x \in Ends : Copying(x)'
  <2>1. Copying(Peer(e)) /\ Peer(e) # e
    BY <1>1 DEF Tracked, ParkedIsOpen
  <2> QED BY <1>8, <2>1 DEF Copying
<1>11. InOrder'
  BY <1>3 DEF Books, InOrder
<1> QED BY <1>9, <1>10, <1>11 DEF Books, Accounted

(* Elements meet only while no call has failed.                            *)
LEMMA NothingLostYet ==
  ASSUME TypeOK, Tracked, NEW e \in Ends, NEW n \in Lengths, MayMeet(e, n)
  PROVE  failed = {} /\ lost = 0
<1>1. ~Copying(e) /\ parked = Peer(e) /\ parked # NoEnd
  BY DEF MayMeet, CanCopy, Copying
<1>2. e \notin failed /\ Peer(e) \notin failed
  BY <1>1 DEF Tracked, FailuresStay
<1>3. failed = {}
  BY <1>2 DEF TypeOK
<1> QED BY <1>3 DEF Tracked, FailuresStay, TypeOK

(* What is stored at the reader continues its sequence.                    *)
LEMMA AppendKeepsOrder ==
  ASSUME TypeOK, Books, NEW b \in [Ends -> Buffers], b["w"].done = buf["w"].done,
         NEW k \in Nat, Store(b, k), lost = 0
  PROVE  received' \in Seq(Nat) /\ Len(received') = Len(received) + k /\ InOrder'
<1>1. /\ Offered(b, k) \in Seq(Nat) /\ Len(Offered(b, k)) = k
      /\ \A i \in 1..k : Offered(b, k)[i] = Len(received) + i
  <2>1. told["w"] + b["w"].done = Len(received)
    BY DEF Books, Accounted, Excess, TypeOK
  <2>2. /\ Offered(b, k) \in Seq(Nat) /\ Len(Offered(b, k)) = k
        /\ \A i \in 1..k : Offered(b, k)[i] = told["w"] + b["w"].done + i
    BY OfferedOK
  <2> QED BY <2>1, <2>2
<1>2. received \in Seq(Nat) /\ received' = received \o Offered(b, k)
  BY DEF TypeOK, Store
<1> DEFINE o == Offered(b, k)
<1> HIDE DEF o
<1>3. received' \in Seq(Nat) /\ Len(received') = Len(received) + k
  BY <1>1, <1>2 DEF o
<1>4. ASSUME NEW i \in 1..Len(received') PROVE received'[i] = i
  <2>1. CASE i <= Len(received)
    BY <1>1, <1>2, <1>3, <2>1 DEF o, Books, InOrder
  <2>2. CASE i > Len(received)
    BY <1>1, <1>2, <1>3, <2>2 DEF o
  <2> QED BY <1>3, <2>1, <2>2
<1> QED BY <1>3, <1>4 DEF InOrder

LEMMA StreamMeetsBooks ==
  ASSUME TypeOK, Tracked, Books, NEW e \in Ends, NEW n \in Lengths, StreamMeets(e, n)
  PROVE  Books'
<1> DEFINE p == Peer(e)
           b == Buffered(e, n)
           k == Movable(n, Room(p))
           moved == [x \in Ends |-> [b[x] EXCEPT !.done = @ + k]]
<1>1. /\ b \in [Ends -> Buffers] /\ b[e] = [len |-> n, done |-> 0] /\ b[p] = buf[p]
      /\ buf[p] \in Buffers /\ buf[e] = NoBuf /\ n \in 0..MaxLen
  BY BufferedOK, LengthFacts DEF TypeOK, StreamMeets, MayMeet, CanCopy, Books, Accounted, Copying
<1>2. k \in 0..n /\ k \in 0..(buf[p].len - buf[p].done)
  BY <1>1, BufferFacts, MinOfTwo DEF Room
<1> HIDE DEF p, b, k
<1>3. \A x \in Ends : x = e \/ x = p
  BY DEF p
<1>4. ASSUME NEW x \in Ends
      PROVE  b[x].done = buf[x].done /\ b[x] \in Buffers /\ b[x].done + k \in 0..b[x].len
  BY <1>1, <1>2, <1>3, BufferFacts DEF NoBuf
<1>5. moved \in [Ends -> Buffers] /\ \A x \in Ends : moved[x].done = buf[x].done + k
  <2>1. ASSUME NEW x \in Ends
        PROVE  /\ [b[x] EXCEPT !.done = @ + k] \in Buffers
               /\ [b[x] EXCEPT !.done = @ + k].done = buf[x].done + k
    BY <1>4, BufferFacts
  <2> QED BY <2>1
<1> HIDE DEF moved
<1>6. Learn(Notified(e, "completed", p, "completed"), moved, state) /\ Store(b, k)
  BY DEF StreamMeets, p, b, k, moved
<1>0. lost = 0 /\ lost' = lost
  BY NothingLostYet DEF StreamMeets, Fixed
<1>7. received' \in Seq(Nat) /\ Len(received') = Len(received) + k /\ InOrder'
  BY <1>0, <1>1, <1>2, <1>4, <1>6, AppendKeepsOrder
<1>8. ASSUME NEW x \in Ends PROVE told[x] + moved[x].done = Len(received') + Excess(x)
  <2>1. told[x] + buf[x].done = Len(received) + Excess(x) /\ Excess(x) = 0
    BY <1>0 DEF Books, Accounted, Excess
  <2>2. told[x] \in Nat /\ buf[x] \in Buffers
    BY DEF TypeOK
  <2>3. buf[x].done \in Nat
    BY <2>2, BufferFacts
  <2>4. k \in Nat
    BY <1>1, <1>2
  <2>5. moved[x].done = buf[x].done + k
    BY <1>5
  <2> QED BY <2>1, <2>2, <2>3, <2>4, <2>5, <1>7
<1>9. ASSUME NEW x \in Ends, x \notin DOMAIN Notified(e, "completed", p, "completed")
      PROVE  state[x] \in {"copying", "cancelling"}
  <2>1. x = p
    BY <1>3, <1>9 DEF Notified
  <2>2. parked = p /\ p # NoEnd
    BY DEF StreamMeets, MayMeet, p
  <2> QED BY <2>1, <2>2 DEF Tracked, ParkedIsOpen, Copying
<1> QED BY <1>0, <1>5, <1>6, <1>7, <1>8, <1>9, LearnKeepsBooks

LEMMA FutureMeetsBooks ==
  ASSUME TypeOK, Tracked, FutureInv, Books, NEW e \in Ends, NEW n \in Lengths, FutureMeets(e, n)
  PROVE  Books'
<1> DEFINE p == Peer(e)
           b == Buffered(e, n)
           moved == [x \in Ends |-> [b[x] EXCEPT !.done = 1]]
<1>1. /\ b \in [Ends -> Buffers] /\ b[e] = [len |-> 1, done |-> 0] /\ b[p] = buf[p]
      /\ buf[e] = NoBuf /\ parked = p /\ p # NoEnd
  BY BufferedOK DEF FutureMeets, MayMeet, CanCopy, Lengths, Books, Accounted, Copying
<1>2. buf[p] = [len |-> 1, done |-> 0]
  BY <1>1 DEF FutureInv, FutureFresh, FutureMeets
<1> HIDE DEF p, b
<1>3. \A x \in Ends : x = e \/ x = p
  BY DEF p
<1>4. ASSUME NEW x \in Ends
      PROVE  b[x] = [len |-> 1, done |-> 0] /\ buf[x].done = 0
  BY <1>1, <1>2, <1>3 DEF NoBuf
<1>5. moved \in [Ends -> Buffers] /\ \A x \in Ends : moved[x].done = 1
  <2>1. ASSUME NEW x \in Ends
        PROVE  [b[x] EXCEPT !.done = 1] \in Buffers /\ [b[x] EXCEPT !.done = 1].done = 1
    BY <1>1, <1>4, BufferFacts
  <2> QED BY <2>1
<1> HIDE DEF moved
<1>6. Learn(Notified(e, "completed", p, "completed"), moved, state) /\ Store(b, 1)
  BY DEF FutureMeets, p, b, moved
<1>0. lost = 0 /\ lost' = lost
  BY NothingLostYet DEF FutureMeets, Fixed
<1>7. received' \in Seq(Nat) /\ Len(received') = Len(received) + 1 /\ InOrder'
  BY <1>0, <1>1, <1>4, <1>6, AppendKeepsOrder
<1>8. ASSUME NEW x \in Ends PROVE told[x] + moved[x].done = Len(received') + Excess(x)
  <2>1. told[x] + 0 = Len(received) /\ Excess(x) = 0
    BY <1>0, <1>4 DEF Books, Accounted, Excess, TypeOK
  <2>2. told[x] \in Nat
    BY DEF TypeOK
  <2> QED BY <2>1, <2>2, <1>5, <1>7
<1>9. ASSUME NEW x \in Ends, x \notin DOMAIN Notified(e, "completed", p, "completed")
      PROVE  state[x] \in {"copying", "cancelling"}
  <2>1. x = p
    BY <1>3, <1>9 DEF Notified
  <2> QED BY <1>1, <2>1 DEF Tracked, ParkedIsOpen, Copying
<1> QED BY <1>0, <1>5, <1>6, <1>7, <1>8, <1>9, LearnKeepsBooks

(* A full parked buffer is told and replaced; the host may have opened     *)
(* another copy by then.                                                   *)
LEMMA TakesOverBooks ==
  ASSUME TypeOK, Books, NEW e \in Ends, NEW n \in Lengths, NEW sync \in BOOLEAN,
         NEW again \in {"nothing", "copy", "close"}, CopyTakesOver(e, n, sync, again)
  PROVE  Books'
<1> DEFINE p == Peer(e)
           b == Buffered(e, n)
           res == IF Guest(p) THEN <<>> ELSE Returned(p, "completed")
           fresh == [len |-> IF again = "copy" THEN 1 ELSE 0, done |-> 0]
           next == [nothing |-> "idle", copy |-> "copying", close |-> "done"][again]
<1>1. /\ b[e] = [len |-> n, done |-> 0] /\ b[p] = buf[p] /\ b \in [Ends -> Buffers]
      /\ buf[e] = NoBuf
  BY BufferedOK DEF CopyTakesOver, MayMeet, CanCopy, Books, Accounted, Copying
<1>2. e \notin DOMAIN res
  BY DEF Returned
<1>3. /\ state' = [x \in Ends |-> IF x = e THEN "copying"
                                  ELSE IF x \in DOMAIN res THEN next ELSE state[x]]
      /\ buf' = [x \in Ends |-> IF x \in DOMAIN res THEN fresh ELSE b[x]]
      /\ told' = [x \in Ends |-> told[x] + IF x \in DOMAIN res THEN b[x].done ELSE 0]
      /\ received' = received /\ lost' = lost
  BY DEF CopyTakesOver, Fixed
<1>4. fresh.done = 0 /\ (next \notin {"copying", "cancelling"} => fresh = NoBuf)
  BY DEF NoBuf
<1> HIDE DEF p, b, res, fresh, next
<1>5. \A x \in Ends : x = e \/ x = p
  BY DEF p
<1>6. ASSUME NEW x \in Ends
      PROVE  /\ told'[x] + buf'[x].done = Len(received') + Excess(x)'
             /\ ~Copying(x)' => buf'[x] = NoBuf
  <2>1. /\ told[x] \in Nat /\ told[x] + buf[x].done = Len(received) + Excess(x)
        /\ ~Copying(x) => buf[x] = NoBuf
        /\ Excess(x)' = Excess(x)
    BY <1>3 DEF TypeOK, Books, Accounted, Excess
  <2>2. b[x].done = buf[x].done
    BY <1>1, <1>5 DEF NoBuf
  <2>3. b[x].done \in Nat
    BY <1>1, BufferFacts
  <2>4. CASE x \in DOMAIN res
    <3>1. told'[x] = told[x] + b[x].done /\ buf'[x] = fresh /\ state'[x] = next
      BY <1>2, <1>3, <2>4
    <3> QED BY <1>3, <1>4, <2>1, <2>2, <2>3, <3>1 DEF Copying
  <2>5. CASE x \notin DOMAIN res
    <3>1. told'[x] = told[x] /\ buf'[x] = b[x]
      BY <1>3, <2>1, <2>5
    <3>2. ~Copying(x)' => buf'[x] = NoBuf
      BY <1>1, <1>3, <1>5, <2>1, <2>5 DEF Copying
    <3> QED BY <1>3, <2>1, <2>2, <3>1, <3>2
  <2> QED BY <2>4, <2>5
<1>7. InOrder'
  BY <1>3 DEF Books, InOrder
<1> QED BY <1>6, <1>7 DEF Books, Accounted

LEMMA CopyBooks ==
  ASSUME TypeOK, Tracked, FutureInv, Books,
         NEW e \in Ends, NEW n \in Lengths, Copy(e, n)
  PROVE  Books'
<1>1. ASSUME CanCopy(e, n), NEW r, Learn(Returned(e, r), Buffered(e, n), state), UNCHANGED <<received, lost>>
      PROVE  Books'
  <2> DEFINE b == Buffered(e, n)
  <2>0. b[e] = [len |-> n, done |-> 0]
    BY BufferedOK
  <2>1. /\ b \in [Ends -> Buffers] /\ b[e].done = 0
        /\ \A x \in Ends : x # e => b[x] = buf[x]
    BY <2>0, BufferedOK
  <2> HIDE DEF b
  <2>2. buf[e] = NoBuf
    BY <1>1 DEF CanCopy, Books, Accounted, Copying
  <2>3. ASSUME NEW x \in Ends
        PROVE  /\ told[x] + b[x].done = Len(received) + Excess(x)
               /\ x \notin DOMAIN Returned(e, r) /\ state[x] \notin {"copying", "cancelling"}
                    => b[x] = NoBuf
    <3>1. told[x] + buf[x].done = Len(received) + Excess(x) /\ (~Copying(x) => buf[x] = NoBuf)
      BY DEF Books, Accounted
    <3>2. CASE x = e
      BY <2>1, <2>2, <3>1, <3>2 DEF NoBuf, Returned
    <3>3. CASE x # e
      BY <2>1, <3>1, <3>3 DEF Copying
    <3> QED BY <3>2, <3>3
  <2>4. received' \in Seq(Nat) /\ InOrder'
    BY <1>1 DEF TypeOK, Books, InOrder
  <2>5. Learn(Returned(e, r), b, state) /\ received' = received /\ lost' = lost
    BY <1>1 DEF b
  <2> QED BY <2>1, <2>3, <2>4, <2>5, LearnKeepsBooks
<1>2. CASE CopyOnDropped(e, n)
  BY <1>1, <1>2 DEF CopyOnDropped, Fixed
<1>3. CASE \E sync \in BOOLEAN : CopyParks(e, n, sync)
  BY <1>3, OpenKeepsBooks DEF CopyParks, CanCopy, Copying, Fixed
<1>4. CASE StreamMeets(e, n)
  BY <1>4, StreamMeetsBooks
<1>5. CASE FutureMeets(e, n)
  BY <1>5, FutureMeetsBooks
<1>6. CASE CopyPasses(e, n)
  BY <1>1, <1>6 DEF CopyPasses, MayMeet, Fixed
<1>7. CASE \E sync \in BOOLEAN, again \in {"nothing", "copy", "close"} :
             CopyTakesOver(e, n, sync, again)
  BY <1>7, TakesOverBooks
<1>8. CASE FailsPartway(e, n)
  BY <1>8, FailuresBooks
<1> QED BY <1>2, <1>3, <1>4, <1>5, <1>6, <1>7, <1>8 DEF Copy, FailsPartway

LEMMA EndsBooks ==
  ASSUME TypeOK, Books, NEW e \in Ends,
         Deliver(e) \/ Join(e) \/ CancelCopy(e) \/ HostCancel(e) \/ DropEnd(e)
  PROVE  Books'
<1>1. ASSUME NEW res, NEW s, Learn(res, buf, s), UNCHANGED <<received, lost>>,
             \A x \in Ends : s[x] \notin {"copying", "cancelling"} => ~Copying(x)
      PROVE  Books'
  <2>1. ASSUME NEW x \in Ends
        PROVE  /\ told[x] + buf[x].done = Len(received) + Excess(x)
               /\ x \notin DOMAIN res /\ s[x] \notin {"copying", "cancelling"} => buf[x] = NoBuf
    BY <1>1 DEF Books, Accounted
  <2>2. buf \in [Ends -> Buffers] /\ received' \in Seq(Nat) /\ InOrder'
    BY <1>1 DEF TypeOK, Books, InOrder
  <2> QED BY <1>1, <2>1, <2>2, LearnKeepsBooks
<1>2. ASSUME TakeEvent(e), UNCHANGED <<received, lost>> PROVE Books'
  BY <1>1, <1>2 DEF TakeEvent, Copying
<1>3. ASSUME CancelParked(e), UNCHANGED <<received, lost>> PROVE Books'
  <2> DEFINE now == [state EXCEPT ![e] = "cancelling"]
  <2>1. \A x \in Ends : now[x] \notin {"copying", "cancelling"} => ~Copying(x)
    BY DEF Copying, TypeOK
  <2>2. \E res : Learn(res, buf, now)
    BY <1>3 DEF CancelParked
  <2> HIDE DEF now
  <2> QED BY <1>1, <1>3, <2>1, <2>2
<1>4. CASE Deliver(e)
  BY <1>2, <1>4 DEF Deliver, Fixed
<1>5. CASE Join(e)
  BY <1>5, BooksKept DEF Join
<1>6. CASE CancelCopy(e)
  BY <1>2, <1>3, <1>6 DEF CancelCopy, Fixed
<1>7. CASE HostCancel(e)
  <2>1. ASSUME CancelNothing(e), UNCHANGED <<received, lost>> PROVE Books'
    BY <2>1, BooksKept DEF CancelNothing, TypeOK
  <2> QED BY <1>3, <1>7, <2>1 DEF HostCancel, Fixed
<1>8. CASE DropEnd(e)
  <2> DEFINE now == [state EXCEPT ![e] = IF Guest(e) THEN "gone" ELSE "done"]
  <2>1. \A x \in Ends : now[x] \notin {"copying", "cancelling"} => ~Copying(x)
    BY <1>8 DEF DropEnd, MayLeave, Copying, TypeOK
  <2>2. \E res : Learn(res, buf, now)
    BY <1>8 DEF DropEnd
  <2>3. UNCHANGED <<received, lost>>
    BY <1>8 DEF DropEnd
  <2> HIDE DEF now
  <2> QED BY <1>1, <2>1, <2>2, <2>3
<1> QED BY <1>4, <1>5, <1>6, <1>7, <1>8

LEMMA InstancesBooks ==
  ASSUME TypeOK, Books,
         LiftToHost \/ \E i \in Insts : LiftToGuest(i) \/ HostGives(i) \/ GuestTrap(i)
  PROVE  Books'
BY BooksKept DEF LiftToHost, LiftToGuest, HostGives, GuestTrap, Mint

-----------------------------------------------------------------------------
(* The inductive invariant.                                                *)
ChannelInv == TypeOK /\ Tracked /\ FutureInv /\ Books

LEMMA InitChannel == Init => ChannelInv
<1> SUFFICES ASSUME Init PROVE ChannelInv
  OBVIOUS
<1>1. TypeOK
  <2>1. buf \in [Ends -> Buffers]
    BY BufferFacts DEF Init
  <2>2. event \in [Ends -> Events] /\ told \in [Ends -> Nat]
    BY DEF Init, Events
  <2>3. state \in [Ends -> {"idle", "copying", "cancelling", "done", "gone"}]
    BY DEF Init
  <2>4. received \in Seq(Nat) /\ taken \in Nat /\ lost \in Nat /\ failed \subseteq Ends
    BY DEF Init
  <2>5. /\ kind \in {"stream", "future"} /\ plain \in BOOLEAN
        /\ home \in [Ends -> Insts \cup {Host}]
        /\ dropped \in BOOLEAN /\ parked \in Ends \cup {NoEnd}
    BY Zenon DEF Init
  <2>6. joined \subseteq Ends /\ blocked \subseteq Ends /\ trapped \subseteq Insts
    BY DEF Init
  <2> QED BY <2>1, <2>2, <2>3, <2>4, <2>5, <2>6 DEF TypeOK
<1>2. Tracked
  BY DEF Init, Tracked, NoneForgotten, ParkedIsOpen, ParkedOnceDropped, NothingParkedOnceDropped,
            EventsBelong, FailuresStay, Copying
<1>3. FutureInv
  BY DEF Init, FutureInv, FutureFresh, FutureSettled, FutureTold
<1>4. Books
  BY DEF Init, Books, Accounted, Excess, InOrder, NoBuf
<1> QED BY <1>1, <1>2, <1>3, <1>4 DEF ChannelInv

LEMMA StepChannel ==
  ASSUME ChannelInv, [Next]_chanVars
  PROVE  ChannelInv'
<1> USE DEF ChannelInv
<1>1. ASSUME NEW e \in Ends, NEW n \in Lengths, Copy(e, n) PROVE ChannelInv'
  <2>1. Tracked' /\ FutureInv' /\ Books'
    BY <1>1, CopyTracked, CopySettles, CopyBooks
  <2>2. kind = "future" /\ parked # NoEnd => buf[parked].len = 1
    BY DEF FutureInv, FutureFresh
  <2>3. CASE StreamMeets(e, n)
    BY <2>1, <2>3, StreamMeetsTyped
  <2>4. CASE FutureMeets(e, n)
    BY <2>1, <2>2, <2>4, FutureMeetsTyped DEF FutureMeets
  <2>5. CASE \E sync \in BOOLEAN, again \in {"nothing", "copy", "close"} :
               CopyTakesOver(e, n, sync, again)
    BY <2>1, <2>5, TakesOverTyped
  <2>6. CASE \/ CopyOnDropped(e, n)
             \/ \E sync \in BOOLEAN : CopyParks(e, n, sync)
             \/ CopyPasses(e, n)
    BY <2>1, <2>6, OtherCopiesTyped
  <2>7. CASE FailsPartway(e, n)
    BY <2>1, <2>7, FailuresTyped
  <2> QED BY <1>1, <2>3, <2>4, <2>5, <2>6, <2>7 DEF Copy, FailsPartway
<1>2. ASSUME NEW e \in Ends,
             Deliver(e) \/ Join(e) \/ CancelCopy(e) \/ HostCancel(e) \/ DropEnd(e)
      PROVE  ChannelInv'
  BY <1>2, EndsTyped, EndsTracked, EndsSettle, EndsBooks
<1>3. CASE LiftToHost \/ \E i \in Insts : LiftToGuest(i) \/ HostGives(i) \/ GuestTrap(i)
  BY <1>3, InstancesTyped, InstancesTracked, InstancesSettle, InstancesBooks
<1>4. CASE UNCHANGED chanVars
  BY <1>4 DEF chanVars, TypeOK, Tracked, NoneForgotten, ParkedIsOpen, ParkedOnceDropped, NothingParkedOnceDropped,
            EventsBelong, FailuresStay,
              FutureInv, FutureFresh, FutureSettled, FutureTold, ReaderOver, Books, Accounted,
              Excess, InOrder, Copying, Runs, Guest
<1> QED BY <1>1, <1>2, <1>3, <1>4 DEF Next

(* The inductive invariant holds in every reachable state.                 *)
LEMMA ChannelInvariant == Spec => []ChannelInv
<1>1. ChannelInv /\ [Next]_chanVars => ChannelInv'
  BY StepChannel
<1> QED BY InitChannel, <1>1, PTL DEF Spec

-----------------------------------------------------------------------------

(* Every variable keeps its type; no buffer is filled past its length      *)
(* (guestBuffer.remain, hostBuffer.remain: stream.go:117, 217).            *)
THEOREM TypeCorrect == Spec => []TypeOK
<1>1. ChannelInv => TypeOK
  BY DEF ChannelInv
<1> QED BY <1>1, ChannelInvariant, PTL

(* When no host callback acts inline, a copy in flight whose call did not  *)
(* fail is parked in the shared object or its end already has the event    *)
(* that ends it: no copy is forgotten (sharedStream.setPending and         *)
(* resetAndNotify, stream.go:284-298).                                     *)
THEOREM CopiesTracked == ASSUME ~CallsBack PROVE Spec => []CopyIsTracked
<1>1. ChannelInv => CopyIsTracked
  BY DEF ChannelInv, Tracked, NoneForgotten, ParkedIsOpen, CopyIsTracked
<1> QED BY <1>1, ChannelInvariant, PTL

(* Nothing stays parked in a dropped channel (sharedStream.drop,           *)
(* sharedFuture.drop), except a copy that displaced one of the host whose  *)
(* callback closed its end (stream.go:290-291, 374-375).                   *)
THEOREM DroppedIsEmpty == Spec => []NothingParkedOnceDropped
<1>1. ChannelInv => NothingParkedOnceDropped
  BY DEF ChannelInv, Tracked, ParkedOnceDropped
<1> QED BY <1>1, ChannelInvariant, PTL

(* The reader gets each element once and in the writer's order, whatever   *)
(* copies, cancels, drops and transfers of the readable end come between   *)
(* (stream.go:311-420).                                                    *)
THEOREM ReadInOrder == Spec => []InOrder
<1>1. ChannelInv => InOrder
  BY DEF ChannelInv, Books
<1> QED BY <1>1, ChannelInvariant, PTL

(* The progress in the result words of the copies of an end adds up to     *)
(* what was copied (packCopyResult, stream.go:466); the writer's exceeds   *)
(* it by no more than what one failed call took (copyElements,             *)
(* stream.go:400-413).                                                     *)
THEOREM TotalsOfResults == Spec => []TotalsAgree
<1>1. ChannelInv => TotalsAgree
  <2> SUFFICES ASSUME ChannelInv PROVE TotalsAgree
    OBVIOUS
  <2>1. ASSUME NEW e \in Ends, ~Copying(e) PROVE told[e] = Len(received) + Excess(e)
    <3>1. told[e] + buf[e].done = Len(received) + Excess(e) /\ buf[e] = NoBuf
      BY <2>1 DEF ChannelInv, Books, Accounted
    <3>2. told[e] \in Nat
      BY DEF ChannelInv, TypeOK
    <3> QED BY <3>1, <3>2 DEF NoBuf
  <2>2. lost > 0 => \E e \in failed : Copying(e)
    BY DEF ChannelInv, Tracked, FailuresStay
  <2> QED BY <2>1, <2>2 DEF TotalsAgree
<1> QED BY <1>1, ChannelInvariant, PTL

(* The panic of sharedFuture.read on a dropped future is unreachable: the  *)
(* writer may leave only when the reader is over (stream.go:651-661).      *)
THEOREM NoLateRead == Spec => []NoReadOfDroppedFuture
<1>1. ChannelInv => NoReadOfDroppedFuture
  BY DEF ChannelInv, FutureInv, FutureSettled, ReaderOver, NoReadOfDroppedFuture, Copying
<1> QED BY <1>1, ChannelInvariant, PTL

(* A step changes a final event only to none.                              *)
LEMMA ResultsStay ==
  ASSUME TypeOK, Tracked, [Next]_chanVars,
         NEW x \in Ends, event[x] \in Results
  PROVE  event'[x] \in {event[x], "none"}
<1>1. parked # x /\ "progress" \notin Results /\ "none" \notin Results
  BY DEF Tracked, ParkedIsOpen, Results
<1> USE DEF TypeOK, Posted
<1>2. ASSUME NEW e \in Ends, NEW n \in Lengths, Copy(e, n) PROVE event'[x] = event[x]
  <2>1. CASE \/ CopyOnDropped(e, n)
             \/ \E sync \in BOOLEAN : CopyParks(e, n, sync)
             \/ CopyPasses(e, n)
    BY <2>1 DEF CopyOnDropped, CopyParks, CopyPasses
  <2>2. CASE \/ StreamMeets(e, n) \/ FutureMeets(e, n)
             \/ \E sync \in BOOLEAN, again \in {"nothing", "copy", "close"} :
                    CopyTakesOver(e, n, sync, again)
    BY <1>1, <2>2 DEF StreamMeets, FutureMeets, CopyTakesOver, MayMeet
  <2>3. CASE FailsPartway(e, n)
    BY <2>3, FailureFacts DEF Fails
  <2> QED BY <1>2, <2>1, <2>2, <2>3 DEF Copy, FailsPartway
<1>3. ASSUME NEW e \in Ends,
             Deliver(e) \/ Join(e) \/ CancelCopy(e) \/ HostCancel(e) \/ DropEnd(e)
      PROVE  event'[x] \in {event[x], "none"}
  <2>1. CASE Deliver(e) \/ Join(e)
    BY <2>1 DEF Deliver, Join, TakeEvent
  <2>2. CASE CancelCopy(e) \/ HostCancel(e)
    BY <1>1, <2>2 DEF CancelCopy, HostCancel, CancelParked, CancelNothing, TakeEvent
  <2>3. CASE DropEnd(e)
    BY <1>1, <2>3 DEF DropEnd
  <2> QED BY <1>3, <2>1, <2>2, <2>3
<1>4. CASE LiftToHost \/ \E i \in Insts : LiftToGuest(i) \/ HostGives(i) \/ GuestTrap(i)
  BY <1>4 DEF LiftToHost, LiftToGuest, HostGives, GuestTrap, Mint
<1>5. CASE UNCHANGED chanVars
  BY <1>5 DEF chanVars
<1> QED BY <1>2, <1>3, <1>4, <1>5 DEF Next

(* No cancel, drop or copy of the peer replaces an event that holds a      *)
(* final result (stream_builtins.go:446-475, 577-606).                     *)
THEOREM ResultsStand == Spec => FinalResultStands
<1>1. ChannelInv /\ [Next]_chanVars =>
        [\A e \in Ends : event[e] \in Results => event'[e] \in {event[e], "none"}]_chanVars
  BY ResultsStay DEF ChannelInv
<1> QED BY <1>1, ChannelInvariant, PTL DEF Spec, FinalResultStands
=============================================================================
