-------------------------- MODULE ChannelsPromise --------------------------
(***************************************************************************)
(* The protocol of Channels implements Rendezvous: whatever the two ends   *)
(* and their holders do, an element moves only between two open offers     *)
(* with room, an end that is told of its copy is told of everything that   *)
(* moved, and nothing moves after a drop.  Every copy call is an offer,    *)
(* every delivery, cancel and drop a settlement; the rest is a stutter.    *)
(***************************************************************************)
EXTENDS ChannelsProofs

USE ChannelsAssumption DEF Ends, Peer

-----------------------------------------------------------------------------
(* An end's open offer is what Rendezvous sees of it.                      *)
OpenOffer == [e \in Ends |-> IF Copying(e) THEN Room(e) ELSE -1]

(* An open offer is between nothing and the longest buffer.                *)
LEMMA OfferFacts ==
  ASSUME TypeOK, NEW e \in Ends
  PROVE  /\ Copying(e) => /\ OpenOffer[e] = buf[e].len - buf[e].done
                          /\ OpenOffer[e] \in 0..MaxLen
         /\ OpenOffer[e] = -1 <=> ~Copying(e)
<1>1. buf[e] \in Buffers
  BY DEF TypeOK
<1>2. buf[e].len \in 0..MaxLen /\ buf[e].done \in 0..buf[e].len
  BY <1>1, BufferFacts
<1>3. buf[e].len - buf[e].done \in 0..MaxLen
  BY <1>2
<1>4. OpenOffer[e] = IF Copying(e) THEN buf[e].len - buf[e].done ELSE -1
  BY DEF OpenOffer, Room
<1> QED BY <1>3, <1>4

(* The moves of Rendezvous, seen at each end.                              *)
LEMMA MovesSeen ==
  ASSUME NEW o, NEW k \in Nat, NEW S \in SUBSET Ends,
         k > 0 => ~dropped /\ failed = {} /\ \A x \in Ends : o[x] >= k,
         \A x \in S : x \notin failed, UNCHANGED <<lost, failed>>,
         Len(received)' = Len(received) + k,
         \A x \in Ends : x \in S \/ o[x] = -1 => ~Copying(x)',
         \A x \in Ends : ~(x \in S \/ o[x] = -1) => Copying(x)' /\ Room(x)' = o[x] - k,
         told' = [x \in Ends |-> IF x \in S THEN Len(received) + k + Excess(x) ELSE told[x]]
  PROVE  Promise!Moves(o, k, S)
<1>1. OpenOffer' = [x \in Ends |-> IF x \in S \/ o[x] = -1 THEN -1 ELSE o[x] - k]
  BY DEF OpenOffer
<1>2. S \cap failed = {}
  OBVIOUS
<1> QED BY <1>1, <1>2 DEF Promise!Moves, Promise!CanMove, Promise!Excess, Excess, Promise!NoOffer,
               OpenOffer

(* Ends that learn a result settle their offers, the others keep theirs.   *)
LEMMA LearnMoves ==
  ASSUME TypeOK, Books, NEW b \in [Ends -> Buffers], NEW res, NEW s, NEW o, NEW k \in Nat,
         Learn(res, b, s), DOMAIN res \subseteq Ends,
         k > 0 => ~dropped /\ failed = {} /\ \A x \in Ends : o[x] >= k,
         Len(received)' = Len(received) + k,
         \A x \in DOMAIN res : x \notin failed, UNCHANGED <<lost, failed>>,
         \A x \in Ends : told[x] + b[x].done = Len(received) + k + Excess(x) \/ x \notin DOMAIN res,
         \A x \in Ends : x \in DOMAIN res \/
            IF o[x] = -1 THEN s[x] \notin {"copying", "cancelling"}
            ELSE s[x] \in {"copying", "cancelling"} /\ b[x].len - b[x].done = o[x] - k
  PROVE  Promise!Moves(o, k, DOMAIN res)
<1>1. ASSUME NEW x \in Ends, x \in DOMAIN res
      PROVE  told'[x] = Len(received) + k + Excess(x) /\ ~Copying(x)'
  BY <1>1 DEF Learn, Reported, After, Copying
<1>2. ASSUME NEW x \in Ends, x \notin DOMAIN res
      PROVE  told'[x] = told[x] /\ state'[x] = s[x] /\ buf'[x] = b[x]
  <2>1. told[x] + 0 = told[x]
    BY DEF TypeOK
  <2> QED BY <1>2, <2>1 DEF Learn
<1>3. told' = [x \in Ends |-> IF x \in DOMAIN res THEN Len(received) + k + Excess(x) ELSE told[x]]
  <2>1. told' = [x \in Ends |-> told'[x]]
    BY DEF Learn
  <2> QED BY <1>1, <1>2, <2>1, Zenon
<1>4. \A x \in Ends : x \in DOMAIN res \/ o[x] = -1 => ~Copying(x)'
  BY <1>1, <1>2 DEF Copying
<1>5. \A x \in Ends : ~(x \in DOMAIN res \/ o[x] = -1) => Copying(x)' /\ Room(x)' = o[x] - k
  BY <1>2 DEF Copying, Room
<1> QED BY <1>3, <1>4, <1>5, MovesSeen


-----------------------------------------------------------------------------
(* A copy call is an offer of its end.                                     *)
LEMMA OfferIsStep ==
  ASSUME TypeOK, NEW e \in Ends, NEW n \in Lengths, ~Copying(e), NEW k \in 0..n,
         NEW S \in SUBSET Ends,
         Promise!Moves([OpenOffer EXCEPT ![e] = n], k, S), dropped' = dropped
  PROVE  Promise!PromiseNext
<1>1. n \in 0..MaxLen
  BY LengthFacts
<1>2. OpenOffer[e] = -1
  BY OfferFacts
<1>3. Promise!Offer(e, n, k, S)
  BY <1>2 DEF Promise!Offer, Promise!NoOffer, OpenOffer
<1> QED BY <1>1, <1>3 DEF Promise!PromiseNext

(* The offers while end e makes one of n elements.                         *)
LEMMA OfferedTo ==
  ASSUME TypeOK, Books, NEW e \in Ends, NEW n \in Lengths, ~Copying(e)
  PROVE  /\ [OpenOffer EXCEPT ![e] = n][e] = n
         /\ \A x \in Ends : x # e => [OpenOffer EXCEPT ![e] = n][x] = OpenOffer[x]
         /\ buf[e] = NoBuf
         /\ n \in Nat
<1>1. e \in DOMAIN OpenOffer
  BY DEF OpenOffer
<1> QED BY <1>1, LengthFacts DEF Books, Accounted, OpenOffer

(* The call opens e's offer and nothing else happens.                      *)
LEMMA OpensOffer ==
  ASSUME TypeOK, Books, NEW e \in Ends, NEW n \in Lengths, ~Copying(e),
         state' = Started(e), buf' = Buffered(e, n), UNCHANGED <<told, received, lost, failed, dropped>>
  PROVE  Promise!PromiseNext
<1> DEFINE o == [OpenOffer EXCEPT ![e] = n]
<1>1. o[e] = n /\ n \in Nat /\ \A x \in Ends : x # e => o[x] = OpenOffer[x]
  BY OfferedTo
<1> HIDE DEF o
<1>2. /\ buf'[e] = [len |-> n, done |-> 0]
      /\ \A x \in Ends : x # e => buf'[x] = buf[x]
  BY BufferedOK
<1>3. state'[e] = "copying" /\ \A x \in Ends : x # e => state'[x] = state[x]
  BY DEF Started, TypeOK
<1>4. ASSUME NEW x \in Ends
      PROVE  IF o[x] = -1 THEN ~Copying(x)' ELSE Copying(x)' /\ Room(x)' = o[x] - 0
  <2>1. CASE x = e
    BY <1>1, <1>2, <1>3, <2>1 DEF Copying, Room
  <2>2. CASE x # e
    <3>1. OpenOffer[x] = -1 <=> ~Copying(x)
      BY OfferFacts
    <3>2. Copying(x) => OpenOffer[x] = buf[x].len - buf[x].done /\ OpenOffer[x] \in 0..MaxLen
      BY OfferFacts
    <3> QED BY <1>1, <1>2, <1>3, <2>2, <3>1, <3>2 DEF Copying, Room
  <2> QED BY <2>1, <2>2
<1>5. told' = [x \in Ends |-> IF x \in {} THEN Len(received) + 0 + Excess(x) ELSE told[x]]
  BY DEF TypeOK
<1>6. Len(received)' = Len(received) + 0
  BY DEF TypeOK
<1>7. /\ \A x \in Ends : x \in {} \/ o[x] = -1 => ~Copying(x)'
      /\ \A x \in Ends : ~(x \in {} \/ o[x] = -1) => Copying(x)' /\ Room(x)' = o[x] - 0
      /\ 0 > 0 => ~dropped /\ failed = {} /\ \A x \in Ends : o[x] >= 0
  BY <1>4
<1>8. Promise!Moves(o, 0, {})
  BY <1>5, <1>6, <1>7, MovesSeen
<1>9. 0 \in 0..n
  BY <1>1
<1> QED BY <1>8, <1>9, OfferIsStep DEF o

(* The call ends at once with nothing moved.                               *)
LEMMA ReturnsOffer ==
  ASSUME TypeOK, Tracked, Books, NEW e \in Ends, NEW n \in Lengths, ~Copying(e), NEW r,
         Learn(Returned(e, r), Buffered(e, n), state), UNCHANGED <<received, lost, failed, dropped>>
  PROVE  Promise!PromiseNext
<1> DEFINE o == [OpenOffer EXCEPT ![e] = n]
           b == Buffered(e, n)
           res == Returned(e, r)
<1>1. o[e] = n /\ n \in Nat /\ (\A x \in Ends : x # e => o[x] = OpenOffer[x]) /\ buf[e] = NoBuf
  BY OfferedTo
<1>2. /\ b \in [Ends -> Buffers] /\ b[e] = [len |-> n, done |-> 0]
      /\ \A x \in Ends : x # e => b[x] = buf[x]
  BY BufferedOK
<1>3. DOMAIN res = {e}
  BY DEF Returned
<1>4. Learn(res, b, state)
  OBVIOUS
<1> HIDE DEF o, b, res
<1>5. ASSUME NEW x \in Ends, x # e
      PROVE  IF o[x] = -1 THEN state[x] \notin {"copying", "cancelling"}
             ELSE state[x] \in {"copying", "cancelling"} /\ b[x].len - b[x].done = o[x] - 0
  <2>1. OpenOffer[x] = -1 <=> ~Copying(x)
    BY OfferFacts
  <2>2. Copying(x) => OpenOffer[x] = buf[x].len - buf[x].done /\ OpenOffer[x] \in 0..MaxLen
    BY OfferFacts
  <2> QED BY <1>1, <1>2, <1>5, <2>1, <2>2 DEF Copying
<1>6. Len(received)' = Len(received) + 0
  BY DEF TypeOK
<1>7. told[e] + b[e].done = Len(received) + 0 + Excess(e)
  BY <1>1, <1>2 DEF Books, Accounted, Excess, NoBuf, TypeOK
<1>8. /\ \A x \in Ends : told[x] + b[x].done = Len(received) + 0 + Excess(x) \/ x \notin DOMAIN res
      /\ \A x \in Ends : x \in DOMAIN res \/
            IF o[x] = -1 THEN state[x] \notin {"copying", "cancelling"}
            ELSE state[x] \in {"copying", "cancelling"} /\ b[x].len - b[x].done = o[x] - 0
      /\ 0 > 0 => ~dropped /\ failed = {} /\ \A x \in Ends : o[x] >= 0
      /\ \A x \in DOMAIN res : x \notin failed
  BY <1>3, <1>5, <1>7 DEF Tracked, FailuresStay
<1>9. Promise!Moves(o, 0, DOMAIN res)
  BY <1>2, <1>3, <1>4, <1>6, <1>8, LearnMoves
<1>10. 0 \in 0..n /\ DOMAIN res \in SUBSET Ends
  BY <1>1, <1>3
<1> QED BY <1>9, <1>10, OfferIsStep DEF o

(* The two sides of a stream copy what both have room for.                 *)
LEMMA StreamMeetsOffers ==
  ASSUME TypeOK, Tracked, Books, NEW e \in Ends, NEW n \in Lengths, StreamMeets(e, n)
  PROVE  Promise!PromiseNext
<1> DEFINE p == Peer(e)
           b == Buffered(e, n)
           k == Movable(n, Room(p))
           moved == [x \in Ends |-> [b[x] EXCEPT !.done = @ + k]]
           o == [OpenOffer EXCEPT ![e] = n]
           res == Notified(e, "completed", p, "completed")
<1>1. /\ ~Copying(e) /\ ~dropped /\ parked = p /\ p # NoEnd /\ dropped' = dropped
      /\ Learn(res, moved, state) /\ Store(b, k)
  BY DEF StreamMeets, MayMeet, CanCopy, Copying
<1>0. failed = {} /\ lost = 0 /\ UNCHANGED <<lost, failed>>
  BY NothingLostYet DEF StreamMeets, Fixed
<1>2. /\ o[e] = n /\ n \in Nat /\ buf[e] = NoBuf
      /\ \A x \in Ends : x # e => o[x] = OpenOffer[x]
  BY <1>1, OfferedTo
<1>3. /\ b \in [Ends -> Buffers] /\ b[e] = [len |-> n, done |-> 0] /\ b[p] = buf[p]
      /\ buf[p] \in Buffers
  BY BufferedOK DEF TypeOK
<1>4. Copying(p)
  BY <1>1 DEF Tracked, ParkedIsOpen
<1>5. /\ k \in 0..n /\ k <= buf[p].len - buf[p].done
      /\ buf[p].len \in Nat /\ buf[p].done \in Nat
  BY <1>2, <1>3, BufferFacts, MinOfTwo DEF Room
<1>6. o[p] = buf[p].len - buf[p].done
  BY <1>2, <1>4, OfferFacts
<1>7. (\A x \in Ends : x = e \/ x = p) /\ p # e
  OBVIOUS
<1>8. e \in DOMAIN res /\ DOMAIN res \subseteq Ends
  BY DEF Notified
<1> HIDE DEF p, b, k, o, res
<1>9. ASSUME NEW x \in Ends
      PROVE  b[x].done = buf[x].done /\ b[x] \in Buffers /\ b[x].done + k \in 0..b[x].len
  BY <1>2, <1>3, <1>5, <1>7, BufferFacts DEF NoBuf
<1>10. moved \in [Ends -> Buffers]
       /\ \A x \in Ends : moved[x].done = buf[x].done + k /\ moved[x].len = b[x].len
  <2>1. ASSUME NEW x \in Ends
        PROVE  /\ [b[x] EXCEPT !.done = @ + k] \in Buffers
               /\ [b[x] EXCEPT !.done = @ + k].done = buf[x].done + k
               /\ [b[x] EXCEPT !.done = @ + k].len = b[x].len
    BY <1>9, BufferFacts
  <2> QED BY <2>1
<1> HIDE DEF moved
<1>11. Len(received)' = Len(received) + k
  BY <1>0, <1>1, <1>3, <1>5, <1>9, AppendKeepsOrder
<1>12. \A x \in Ends : told[x] + moved[x].done = Len(received) + k + Excess(x) \/ x \notin DOMAIN res
  <2> SUFFICES ASSUME NEW x \in Ends PROVE told[x] + moved[x].done = Len(received) + k + Excess(x)
    OBVIOUS
  <2>1. told[x] + buf[x].done = Len(received) + Excess(x) /\ Excess(x) = 0
    BY <1>0 DEF Books, Accounted, Excess
  <2>2. told[x] \in Nat /\ buf[x] \in Buffers
    BY DEF TypeOK
  <2>3. buf[x].done \in Nat
    BY <2>2, BufferFacts
  <2>4. moved[x].done = buf[x].done + k /\ k \in Nat
    BY <1>2, <1>5, <1>10
  <2> QED BY <2>1, <2>2, <2>3, <2>4
<1>13. \A x \in Ends : x \in DOMAIN res \/
          IF o[x] = -1 THEN state[x] \notin {"copying", "cancelling"}
          ELSE state[x] \in {"copying", "cancelling"} /\ moved[x].len - moved[x].done = o[x] - k
  <2>1. moved[p].len - moved[p].done = o[p] - k
    <3>1. p \in Ends
      BY DEF p
    <3>2. moved[p].done = buf[p].done + k /\ moved[p].len = buf[p].len
      BY <1>3, <1>10, <3>1
    <3>3. k \in Int
      BY <1>2, <1>5
    <3> QED BY <1>5, <1>6, <3>2, <3>3
  <2>2. state[p] \in {"copying", "cancelling"} /\ o[p] # -1
    BY <1>4, <1>5, <1>6 DEF Copying
  <2> QED BY <1>7, <1>8, <2>1, <2>2
<1>14. \A x \in Ends : o[x] >= k
  <2>1. o[e] >= k
    BY <1>2, <1>5
  <2>2. o[p] >= k
    BY <1>2, <1>5, <1>6
  <2> QED BY <1>7, <2>1, <2>2
<1>15. k \in Nat
  BY <1>2, <1>5
<1>16. Promise!Moves(o, k, DOMAIN res)
  BY <1>0, <1>1, <1>8, <1>10, <1>11, <1>12, <1>13, <1>14, <1>15, LearnMoves
<1> QED BY <1>1, <1>5, <1>8, <1>16, OfferIsStep DEF o

(* The one element of a future moves.                                      *)
LEMMA FutureMeetsOffers ==
  ASSUME TypeOK, Tracked, FutureInv, Books, NEW e \in Ends, NEW n \in Lengths, FutureMeets(e, n)
  PROVE  Promise!PromiseNext
<1> DEFINE p == Peer(e)
           b == Buffered(e, n)
           moved == [x \in Ends |-> [b[x] EXCEPT !.done = 1]]
           o == [OpenOffer EXCEPT ![e] = n]
           res == Notified(e, "completed", p, "completed")
<1>1. /\ ~Copying(e) /\ ~dropped /\ parked = p /\ p # NoEnd /\ dropped' = dropped /\ n = 1
      /\ Learn(res, moved, state) /\ Store(b, 1) /\ kind = "future"
  BY DEF FutureMeets, MayMeet, CanCopy, Copying, Lengths
<1>0. failed = {} /\ lost = 0 /\ UNCHANGED <<lost, failed>>
  BY NothingLostYet DEF FutureMeets, Fixed
<1>2. /\ o[e] = n /\ n \in Nat /\ buf[e] = NoBuf
      /\ \A x \in Ends : x # e => o[x] = OpenOffer[x]
  BY <1>1, OfferedTo
<1>3. /\ b \in [Ends -> Buffers] /\ b[e] = [len |-> 1, done |-> 0] /\ b[p] = buf[p]
      /\ buf[p] = [len |-> 1, done |-> 0]
  BY <1>1, BufferedOK DEF FutureInv, FutureFresh
<1>4. Copying(p)
  BY <1>1 DEF Tracked, ParkedIsOpen
<1>5. o[p] = 1
  <2>1. OpenOffer[p] = buf[p].len - buf[p].done
    BY <1>4, OfferFacts
  <2> QED BY <1>2, <1>3, <2>1
<1>6. (\A x \in Ends : x = e \/ x = p) /\ p # e
  OBVIOUS
<1>7. e \in DOMAIN res /\ DOMAIN res \subseteq Ends
  BY DEF Notified
<1> HIDE DEF p, b, o, res
<1>8. moved \in [Ends -> Buffers]
      /\ \A x \in Ends : moved[x] = [len |-> 1, done |-> 1]
  <2>1. ASSUME NEW x \in Ends
        PROVE  [b[x] EXCEPT !.done = 1] = [len |-> 1, done |-> 1]
    BY <1>3, <1>6
  <2>2. [len |-> 1, done |-> 1] \in Buffers
    BY BufferFacts
  <2> QED BY <2>1, <2>2
<1> HIDE DEF moved
<1>9. Len(received)' = Len(received) + 1
  <2>1. b["w"].done = buf["w"].done
    BY <1>2, <1>3, <1>6 DEF NoBuf
  <2> QED BY <1>0, <1>1, <1>3, <2>1, AppendKeepsOrder
<1>10. \A x \in Ends : told[x] + moved[x].done = Len(received) + 1 + Excess(x) \/ x \notin DOMAIN res
  <2> SUFFICES ASSUME NEW x \in Ends PROVE told[x] + moved[x].done = Len(received) + 1 + Excess(x)
    OBVIOUS
  <2>1. /\ told[x] + buf[x].done = Len(received) + Excess(x) /\ told[x] \in Nat
        /\ Excess(x) = 0
    BY <1>0 DEF Books, Accounted, Excess, TypeOK
  <2>2. buf[x].done = 0
    BY <1>2, <1>3, <1>6 DEF NoBuf
  <2> QED BY <1>8, <2>1, <2>2
<1>11. \A x \in Ends : x \in DOMAIN res \/
          IF o[x] = -1 THEN state[x] \notin {"copying", "cancelling"}
          ELSE state[x] \in {"copying", "cancelling"} /\ moved[x].len - moved[x].done = o[x] - 1
  <2>1. state[p] \in {"copying", "cancelling"}
    BY <1>4 DEF Copying
  <2> QED BY <1>5, <1>6, <1>7, <1>8, <2>1
<1>12. \A x \in Ends : o[x] >= 1
  BY <1>1, <1>2, <1>5, <1>6
<1>13. Promise!Moves(o, 1, DOMAIN res)
  BY <1>0, <1>1, <1>7, <1>8, <1>9, <1>10, <1>11, <1>12, LearnMoves
<1> QED BY <1>1, <1>7, <1>13, OfferIsStep DEF o

(* The parked copy is displaced and the call opens its own offer.  A guest *)
(* learns of it later; the host at once, and it may go on inside its       *)
(* callback.                                                               *)
LEMMA TakesOverOffers ==
  ASSUME TypeOK, Tracked, Books, NEW e \in Ends, NEW n \in Lengths,
         NEW sync \in BOOLEAN, NEW again \in {"nothing", "copy", "close"},
         CopyTakesOver(e, n, sync, again)
  PROVE  Promise!PromiseNext
<1> DEFINE p == Peer(e)
           b == Buffered(e, n)
           res == IF Guest(p) THEN <<>> ELSE Returned(p, "completed")
           fresh == [len |-> IF again = "copy" THEN 1 ELSE 0, done |-> 0]
           next == [nothing |-> "idle", copy |-> "copying", close |-> "done"][again]
           another == IF again = "copy" THEN 1 ELSE -1
<1>1. /\ ~Copying(e) /\ ~dropped /\ parked = p /\ p # NoEnd
      /\ Guest(p) => again = "nothing"
      /\ dropped' = (again = "close")
      /\ UNCHANGED <<received, lost, failed>>
  BY DEF CopyTakesOver, MayMeet, CanCopy, Copying, Fixed
<1>2. n \in 0..MaxLen /\ buf[e] = NoBuf
  BY <1>1, LengthFacts DEF Books, Accounted
<1>3. b[e] = [len |-> n, done |-> 0] /\ b[p] = buf[p]
  BY BufferedOK
<1>4. Copying(p) /\ p \notin failed
  BY <1>1 DEF Tracked, ParkedIsOpen
<1>5. /\ state' = [x \in Ends |-> IF x = e THEN "copying"
                                  ELSE IF x \in DOMAIN res THEN next ELSE state[x]]
      /\ buf' = [x \in Ends |-> IF x \in DOMAIN res THEN fresh ELSE b[x]]
      /\ told' = [x \in Ends |-> told[x] + IF x \in DOMAIN res THEN b[x].done ELSE 0]
  BY DEF CopyTakesOver
<1>6. (\A x \in Ends : x = e \/ x = p) /\ p # e /\ p \in Ends
  OBVIOUS
<1>7. CASE Guest(p)
  <2>1. \A x \in Ends : x \notin DOMAIN res
    BY <1>7
  <2>2. b = [x \in Ends |-> b[x]] /\ b = Buffered(e, n)
    BY BufferedOK
  <2> HIDE DEF res, fresh, next, b
  <2>3. ASSUME NEW x \in Ends PROVE told'[x] = told[x]
    <3>1. told[x] + 0 = told[x]
      BY DEF TypeOK
    <3> QED BY <1>5, <2>1, <3>1
  <2>4. state' = Started(e) /\ buf' = b /\ told' = told
    <3>1. state' = Started(e)
      <4>1. \A x \in Ends : state'[x] = IF x = e THEN "copying" ELSE state[x]
        BY <1>5, <2>1
      <4>2. state' = [x \in Ends |-> state'[x]]
        BY <1>5
      <4>3. state' = [x \in Ends |-> IF x = e THEN "copying" ELSE state[x]]
        BY <4>1, <4>2
      <4>4. state = [x \in Ends |-> state[x]]
        BY DEF TypeOK
      <4> QED BY <4>3, <4>4 DEF Started
    <3>2. buf' = b
      <4>1. \A x \in Ends : buf'[x] = b[x]
        BY <1>5, <2>1
      <4>2. buf' = [x \in Ends |-> buf'[x]]
        BY <1>5
      <4> QED BY <2>2, <4>1, <4>2
    <3>3. told' = told
      BY <1>5, <2>3 DEF TypeOK
    <3> QED BY <3>1, <3>2, <3>3
  <2>5. dropped' = dropped
    BY <1>1, <1>7 DEF TypeOK
  <2> QED BY <1>1, <2>2, <2>4, <2>5, OpensOffer
<1>8. CASE ~Guest(p)
  <2>1. p \in DOMAIN res /\ e \notin DOMAIN res
    BY <1>6, <1>8 DEF Returned
  <2>2. fresh.done = 0 /\ (next \in {"copying", "cancelling"} <=> again = "copy")
        /\ (again = "copy" => fresh.len = 1)
    OBVIOUS
  <2> HIDE DEF res, fresh, next, p, b
  <2>3. /\ state'[e] = "copying" /\ state'[p] = next
        /\ buf'[e] = [len |-> n, done |-> 0] /\ buf'[p] = fresh
        /\ told'[e] = told[e] /\ told'[p] = told[p] + buf[p].done
    <3>1. told[e] + 0 = told[e]
      BY DEF TypeOK
    <3> QED BY <1>3, <1>5, <1>6, <2>1, <3>1
  <2>4. OpenOffer[e] = -1 /\ OpenOffer[p] # -1
    BY <1>1, <1>4, <1>6, OfferFacts
  <2>5. OpenOffer' = [OpenOffer EXCEPT ![e] = n, ![p] = another]
    <3>1. OpenOffer'[e] = n
      BY <1>2, <2>3 DEF OpenOffer, Copying, Room
    <3>2. OpenOffer'[p] = another
      BY <1>6, <2>2, <2>3 DEF OpenOffer, Copying, Room
    <3>3. OpenOffer' = [x \in Ends |-> OpenOffer'[x]] /\ OpenOffer = [x \in Ends |-> OpenOffer[x]]
      BY DEF OpenOffer
    <3> HIDE DEF another
    <3> QED BY <1>6, <3>1, <3>2, <3>3
  <2>6. told' = [told EXCEPT ![p] = Len(received) + Excess(p)]
    <3>1. told'[p] = Len(received) + Excess(p)
      <4>1. told[p] + buf[p].done = Len(received) + Excess(p)
        BY <1>6 DEF Books, Accounted
      <4> QED BY <2>3, <4>1
    <3>2. told' = [x \in Ends |-> told'[x]] /\ told = [x \in Ends |-> told[x]]
      BY <1>5 DEF TypeOK
    <3> QED BY <1>6, <2>3, <3>1, <3>2
  <2>7. dropped' \in {dropped, TRUE}
    BY <1>1 DEF TypeOK
  <2>8. another \in {-1} \cup 0..MaxLen
    OBVIOUS
  <2> HIDE DEF another
  <2>9. Promise!Displace(e, p, n, another)
    BY <1>1, <1>4, <1>6, <2>4, <2>5, <2>6, <2>7
       DEF Promise!Displace, Promise!NoOffer, Promise!Excess, Excess, OpenOffer
  <2> QED BY <1>2, <1>6, <2>8, <2>9 DEF Promise!PromiseNext, Promise!NoOffer
<1> QED BY <1>7, <1>8

(* A call that fails leaves its offer open, and what is lost leaves the    *)
(* writer's.                                                               *)
LEMMA FailureIsStep ==
  ASSUME TypeOK, Tracked, Books, NEW e \in Ends, NEW n \in Lengths, FailsPartway(e, n)
  PROVE  Promise!PromiseNext
<1> DEFINE p == Peer(e)
           o == [OpenOffer EXCEPT ![e] = n]
<1>1. CanCopy(e, n) /\ ~dropped /\ parked = p /\ p # NoEnd /\ Fails(e)
  BY FailureFacts
<1>2. PICK c \in 0..n : /\ lost' = lost + c
                        /\ c > 0 => c <= Room(p)
                        /\ buf'[e].len = n /\ buf'[p].len = buf[p].len
                        /\ buf'["w"].done = Buffered(e, n)["w"].done + c
                        /\ buf'["r"].done = Buffered(e, n)["r"].done
  BY FailureFacts
<1>3. ~Copying(e) /\ Copying(p) /\ e \notin failed /\ p \notin failed
  BY <1>1 DEF CanCopy, Copying, Tracked, ParkedIsOpen, FailuresStay
<1>4. /\ Buffered(e, n)[e] = [len |-> n, done |-> 0] /\ Buffered(e, n)[p] = buf[p]
      /\ n \in 0..MaxLen /\ c \in Nat
      /\ buf[p].len \in Nat /\ buf[p].done \in Nat
  <2>1. buf[p] \in Buffers
    BY DEF TypeOK
  <2> QED BY <2>1, BufferedOK, LengthFacts, BufferFacts
<1>5. (\A x \in Ends : x = e \/ x = p) /\ p # e /\ p \in Ends /\ failed = {}
  BY <1>3 DEF TypeOK
<1>6. o[e] = n /\ o[p] = buf[p].len - buf[p].done /\ OpenOffer[e] = -1
  <2>1. OpenOffer = [x \in Ends |-> OpenOffer[x]]
    BY DEF OpenOffer
  <2>2. OpenOffer[p] = buf[p].len - buf[p].done
    BY <1>3, <1>5, OfferFacts
  <2> QED BY <1>3, <1>5, <2>1, <2>2, OfferFacts
<1>7. Copying(e)' /\ Copying(p)'
  BY <1>1, <1>3, <1>5 DEF Fails, Started, Copying, TypeOK
<1>8. ASSUME NEW x \in Ends
      PROVE  OpenOffer'[x] = IF x = "w" /\ c > 0 THEN o[x] - c ELSE o[x]
  <2>1. Copying(x)'
    BY <1>5, <1>7
  <2>2. OpenOffer'[x] = buf'[x].len - buf'[x].done
    BY <2>1 DEF OpenOffer, Room
  <2>3. buf'[x].len - Buffered(e, n)[x].done = o[x]
    BY <1>2, <1>4, <1>5, <1>6
  <2>4. buf'[x].len \in Nat /\ Buffered(e, n)[x].done \in Nat
    BY <1>2, <1>4, <1>5
  <2>5. buf'[x].done = Buffered(e, n)[x].done + (IF x = "w" THEN c ELSE 0)
    BY <1>2, <2>4
  <2> HIDE DEF o
  <2> QED BY <1>4, <2>2, <2>3, <2>4, <2>5
<1>9. OpenOffer' = [x \in Ends |-> IF x = "w" /\ c > 0 THEN o[x] - c ELSE o[x]]
  <2>1. OpenOffer' = [x \in Ends |-> OpenOffer'[x]]
    BY DEF OpenOffer
  <2> QED BY <1>8, <2>1
<1>10. c > 0 => \A x \in Ends : o[x] >= c
  BY <1>2, <1>4, <1>5, <1>6 DEF Room
<1>11. /\ UNCHANGED <<told, received, dropped>> /\ failed' = failed \cup {e}
  BY <1>1 DEF Fails
<1> HIDE DEF p
<1>12. Promise!Fail(e, n, c)
  BY <1>1, <1>2, <1>5, <1>6, <1>9, <1>10, <1>11
     DEF Promise!Fail, Promise!CanMove, Promise!NoOffer, OpenOffer
<1> QED BY <1>4, <1>12 DEF Promise!PromiseNext

(* Every outcome of a copy call is an offer.                               *)
LEMMA CopyOffers ==
  ASSUME TypeOK, Tracked, FutureInv, Books,
         NEW e \in Ends, NEW n \in Lengths, Copy(e, n)
  PROVE  Promise!PromiseNext
<1>1. CASE CopyOnDropped(e, n)
  BY <1>1, ReturnsOffer DEF CopyOnDropped, CanCopy, Copying, Fixed
<1>2. CASE \E sync \in BOOLEAN : CopyParks(e, n, sync)
  BY <1>2, OpensOffer DEF CopyParks, CanCopy, Copying, Fixed
<1>3. CASE StreamMeets(e, n)
  BY <1>3, StreamMeetsOffers
<1>4. CASE FutureMeets(e, n)
  BY <1>4, FutureMeetsOffers
<1>5. CASE CopyPasses(e, n)
  BY <1>5, ReturnsOffer DEF CopyPasses, MayMeet, CanCopy, Copying, Fixed
<1>6. CASE \E sync \in BOOLEAN, again \in {"nothing", "copy", "close"} :
             CopyTakesOver(e, n, sync, again)
  BY <1>6, TakesOverOffers
<1>7. CASE FailsPartway(e, n)
  BY <1>7, FailureIsStep
<1> QED BY <1>1, <1>2, <1>3, <1>4, <1>5, <1>6, <1>7 DEF Copy, FailsPartway

-----------------------------------------------------------------------------
(* The other calls settle offers or leave them alone.                      *)
LEMMA LearnSettles ==
  ASSUME TypeOK, Books, NEW res, NEW s, Learn(res, buf, s),
         \A x \in DOMAIN res : x \in Ends /\ Copying(x) /\ x \notin failed,
         \A x \in Ends : s[x] \in {"copying", "cancelling"} <=> Copying(x),
         UNCHANGED <<received, lost, failed>>, dropped' \in {dropped, TRUE}
  PROVE  Promise!PromiseNext
<1> DEFINE o == OpenOffer
<1>1. DOMAIN res \subseteq Ends /\ buf \in [Ends -> Buffers]
  BY DEF TypeOK
<1>2. \A x \in Ends : told[x] + buf[x].done = Len(received) + 0 + Excess(x) \/ x \notin DOMAIN res
  BY DEF Books, Accounted, TypeOK
<1>3. ASSUME NEW x \in Ends
      PROVE  IF o[x] = -1 THEN s[x] \notin {"copying", "cancelling"}
             ELSE s[x] \in {"copying", "cancelling"} /\ buf[x].len - buf[x].done = o[x] - 0
  <2>1. o[x] = -1 <=> ~Copying(x)
    BY OfferFacts
  <2>2. Copying(x) => o[x] = buf[x].len - buf[x].done /\ o[x] \in 0..MaxLen
    BY OfferFacts
  <2> QED BY <2>1, <2>2
<1>4. Len(received)' = Len(received) + 0
  BY DEF TypeOK
<1> HIDE DEF o
<1>5. /\ \A x \in Ends : x \in DOMAIN res \/
            IF o[x] = -1 THEN s[x] \notin {"copying", "cancelling"}
            ELSE s[x] \in {"copying", "cancelling"} /\ buf[x].len - buf[x].done = o[x] - 0
      /\ 0 > 0 => ~dropped /\ failed = {} /\ \A x \in Ends : o[x] >= 0
  BY <1>3
<1>6. Promise!Moves(o, 0, DOMAIN res)
  BY <1>1, <1>2, <1>4, <1>5, LearnMoves
<1>7. \A x \in DOMAIN res : OpenOffer[x] # -1
  BY OfferFacts
<1>8. Promise!Settle(DOMAIN res)
  BY <1>6, <1>7 DEF o, Promise!Settle, Promise!NoOffer, OpenOffer
<1> QED BY <1>1, <1>8 DEF Promise!PromiseNext

(* A delivered event, a cancel and a drop settle the parked copy.          *)
LEMMA EndsSettleOffers ==
  ASSUME TypeOK, Tracked, Books, NEW e \in Ends,
         Deliver(e) \/ CancelCopy(e) \/ HostCancel(e) \/ DropEnd(e)
  PROVE  [Promise!PromiseNext]_(Promise!promiseVars)
<1>1. ASSUME TakeEvent(e), event[e] # "none", UNCHANGED <<received, lost, failed, dropped>>
      PROVE  Promise!PromiseNext
  <2>1. Copying(e) /\ e \notin failed
    BY <1>1 DEF Tracked, EventsBelong, FailuresStay
  <2>2. \A x \in Ends : state[x] \in {"copying", "cancelling"} <=> Copying(x)
    BY DEF Copying
  <2> DEFINE res == Returned(e, IF event[e] = "progress" THEN "completed" ELSE event[e])
  <2>3. Learn(res, buf, state)
    BY <1>1 DEF TakeEvent
  <2>4. DOMAIN res = {e}
    BY DEF Returned
  <2> HIDE DEF res
  <2> QED BY <1>1, <2>1, <2>2, <2>3, <2>4, LearnSettles
<1>2. ASSUME CancelParked(e), state[e] = "copying", UNCHANGED <<received, lost, failed, dropped>>
      PROVE  Promise!PromiseNext
  <2> DEFINE res == IF parked = e \/ ~Guest(parked) THEN Returned(parked, "cancelled") ELSE <<>>
             now == [state EXCEPT ![e] = "cancelling"]
  <2>1. Learn(res, buf, now)
    BY <1>2 DEF CancelParked
  <2>2. \A x \in DOMAIN res : x \in Ends /\ Copying(x) /\ x \notin failed
    BY <1>2 DEF CancelParked, Returned, Tracked, ParkedIsOpen, TypeOK
  <2>3. \A x \in Ends : now[x] \in {"copying", "cancelling"} <=> Copying(x)
    BY <1>2 DEF Copying, TypeOK
  <2> HIDE DEF res, now
  <2> QED BY <1>2, <2>1, <2>2, <2>3, LearnSettles
<1>3. CASE Deliver(e)
  BY <1>1, <1>3 DEF Deliver, Fixed
<1>4. CASE CancelCopy(e)
  <2>1. CASE CancelParked(e)
    BY <1>2, <1>4, <2>1 DEF CancelCopy, Fixed
  <2>2. CASE ~CancelParked(e)
    BY <1>1, <1>4, <2>2 DEF CancelCopy, Fixed
  <2> QED BY <2>1, <2>2
<1>5. CASE HostCancel(e)
  <2>1. ASSUME CancelNothing(e), state[e] = "copying",
               UNCHANGED <<received, lost, failed, dropped>>
        PROVE  UNCHANGED Promise!promiseVars
    <3>1. \A x \in Ends : Copying(x)' <=> Copying(x)
      BY <2>1 DEF CancelNothing, Copying, TypeOK
    <3> QED BY <2>1, <3>1 DEF CancelNothing, Promise!promiseVars, Room
  <2> QED BY <1>2, <1>5, <2>1 DEF HostCancel, Fixed
<1>6. CASE DropEnd(e)
  <2> DEFINE p == parked
             res == IF dropped \/ p = NoEnd \/ p \in {x \in Ends : Guest(x)}
                    THEN <<>> ELSE Returned(p, "dropped")
             now == [state EXCEPT ![e] = IF Guest(e) THEN "gone" ELSE "done"]
  <2>1. Learn(res, buf, now) /\ dropped' = TRUE /\ UNCHANGED <<received, lost, failed>>
    BY <1>6 DEF DropEnd
  <2>2. \A x \in DOMAIN res : x \in Ends /\ Copying(x) /\ x \notin failed
    BY DEF Returned, Tracked, ParkedIsOpen, TypeOK
  <2>3. \A x \in Ends : now[x] \in {"copying", "cancelling"} <=> Copying(x)
    BY <1>6 DEF DropEnd, MayLeave, Copying, TypeOK
  <2> HIDE DEF res, now
  <2> QED BY <2>1, <2>2, <2>3, LearnSettles
<1> QED BY <1>3, <1>4, <1>5, <1>6

(* What changes no copy, total or element is a stutter.                    *)
LEMMA OffersUntouched ==
  ASSUME UNCHANGED <<state, buf, told, received, lost, failed, dropped>>
  PROVE  UNCHANGED Promise!promiseVars
BY DEF Promise!promiseVars, Copying, Room

(* Every step of the protocol is a step of Rendezvous or a stutter.        *)
LEMMA ChannelStepsPromise ==
  ASSUME ChannelInv, [Next]_chanVars
  PROVE  [Promise!PromiseNext]_(Promise!promiseVars)
<1> USE DEF ChannelInv
<1>1. CASE \E e \in Ends : \E n \in Lengths : Copy(e, n)
  BY <1>1, CopyOffers
<1>2. CASE \E e \in Ends : Deliver(e) \/ CancelCopy(e) \/ HostCancel(e) \/ DropEnd(e)
  BY <1>2, EndsSettleOffers
<1>3. CASE \/ \E e \in Ends : Join(e)
           \/ LiftToHost \/ \E i \in Insts : LiftToGuest(i) \/ HostGives(i) \/ GuestTrap(i)
  BY <1>3, OffersUntouched DEF Join, LiftToHost, LiftToGuest, HostGives, GuestTrap, Mint
<1>4. CASE UNCHANGED chanVars
  BY <1>4, OffersUntouched DEF chanVars
<1> QED BY <1>1, <1>2, <1>3, <1>4 DEF Next

LEMMA InitPromise == Init => Promise!PromiseInit
BY DEF Init, Promise!PromiseInit, Promise!NoOffer, Copying

(* The shared stream and future of stream.go keep the promise of           *)
(* Rendezvous to both their ends.                                          *)
THEOREM PromiseKept == Spec => KeepsPromise
<1>1. ChannelInv /\ [Next]_chanVars => [Promise!PromiseNext]_(Promise!promiseVars)
  BY ChannelStepsPromise
<1> QED BY <1>1, InitPromise, ChannelInvariant, PTL DEF Spec, KeepsPromise, Promise!PromiseSpec
=============================================================================
