------------------------------- MODULE SeqOps -------------------------------
(***************************************************************************)
(* Go slices as the modules use them: sequences from which elements are    *)
(* taken out, and what they contain.                                       *)
(***************************************************************************)
EXTENDS Integers, Sequences

Elems(s) == {s[i] : i \in DOMAIN s}

\* No element occurs twice.
Once(s) == \A i, j \in DOMAIN s : s[i] = s[j] => i = j

\* s without its i-th element.
Without(s, i) == SubSeq(s, 1, i - 1) \o SubSeq(s, i + 1, Len(s))

\* The elements of s that are not in H, in their order.
Filtered(s, H) ==
  LET keep[i \in 0..Len(s)] ==
        IF i = 0 THEN <<>>
        ELSE IF s[i] \in H THEN keep[i - 1] ELSE Append(keep[i - 1], s[i])
  IN  keep[Len(s)]
=============================================================================
