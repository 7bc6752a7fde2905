----------------------------- MODULE Rendezvous -----------------------------
(***************************************************************************)
(* What a stream or a future of i/stream.go promises to its two ends.      *)
(* Each end makes offers (a buffer with room for so many elements); an     *)
(* element moves only while both offers are open and have room; an end     *)
(* whose offer is settled has been told of every element that has moved;   *)
(* nothing moves after the channel is closed.  A call that fails leaves    *)
(* its offer open for good.  The elements it took from the writer are      *)
(* counted as the writer's and never reach the reader, and nothing moves   *)
(* after it.                                                               *)
(***************************************************************************)
EXTENDS Integers, FiniteSets

CONSTANTS
    Ends,       \* the two ends
    Writer,     \* the end the elements come from
    MaxLen      \* the longest offer

NoOffer == -1

VARIABLES
    offer,      \* room left in the open offer of each end, or NoOffer
    moved,      \* elements that have moved
    lost,       \* elements that left the writer and did not arrive
    told,       \* elements each end has been told of
    failed,     \* the ends whose call failed
    closed

promiseVars == <<offer, moved, lost, told, failed, closed>>

PromiseInit ==
    /\ offer = [e \in Ends |-> NoOffer]
    /\ moved = 0 /\ lost = 0
    /\ told = [e \in Ends |-> 0]
    /\ failed = {}
    /\ closed = FALSE

(* What an end is told of beyond the elements that have moved.             *)
Excess(e) == IF e = Writer THEN lost ELSE 0

(* k elements can leave the offers o.                                     *)
CanMove(o, k) ==
    k > 0 => /\ ~closed /\ failed = {}
             /\ \A e \in Ends : o[e] >= k

(* k elements move between the offers o, and the ends in S are settled.   *)
Moves(o, k, S) ==
    /\ CanMove(o, k)
    /\ S \cap failed = {}
    /\ moved' = moved + k
    /\ offer' = [e \in Ends |-> IF e \in S \/ o[e] = NoOffer THEN NoOffer ELSE o[e] - k]
    /\ told' = [e \in Ends |-> IF e \in S THEN moved + k + Excess(e) ELSE told[e]]
    /\ UNCHANGED <<lost, failed>>

(* An end makes an offer; what can move moves at once.                    *)
Offer(e, n, k, S) ==
    /\ offer[e] = NoOffer
    /\ Moves([offer EXCEPT ![e] = n], k, S)
    /\ closed' = closed

(* An end makes an offer in the place of the other's, which is settled;    *)
(* the holder of that end may at once make another, or close.             *)
Displace(e, p, n, again) ==
    /\ e # p /\ offer[e] = NoOffer
    /\ offer[p] # NoOffer /\ p \notin failed
    /\ offer' = [offer EXCEPT ![e] = n, ![p] = again]
    /\ told' = [told EXCEPT ![p] = moved + Excess(p)]
    /\ closed' \in {closed, TRUE}
    /\ UNCHANGED <<moved, lost, failed>>

(* An end makes an offer, and its call fails after k elements left the    *)
(* writer.                                                                *)
Fail(e, n, k) ==
    /\ offer[e] = NoOffer
    /\ LET o == [offer EXCEPT ![e] = n]
       IN /\ CanMove(o, k)
          /\ offer' = [x \in Ends |-> IF x = Writer /\ k > 0 THEN o[x] - k ELSE o[x]]
    /\ lost' = lost + k
    /\ failed' = failed \cup {e}
    /\ UNCHANGED <<moved, told, closed>>

(* Offers are settled: delivered, cancelled, or ended by closing.         *)
Settle(S) ==
    /\ \A e \in S : offer[e] # NoOffer
    /\ Moves(offer, 0, S)
    /\ closed' \in {closed, TRUE}

PromiseNext ==
    \/ \E e \in Ends, n \in 0..MaxLen, S \in SUBSET Ends : \E k \in 0..n : Offer(e, n, k, S)
    \/ \E e, p \in Ends, n \in 0..MaxLen, again \in {NoOffer} \cup 0..MaxLen :
          Displace(e, p, n, again)
    \/ \E e \in Ends, n \in 0..MaxLen : \E k \in 0..n : Fail(e, n, k)
    \/ \E S \in SUBSET Ends : Settle(S)

PromiseSpec == PromiseInit /\ [][PromiseNext]_promiseVars
=============================================================================
