-------------------------------- MODULE Lists --------------------------------
(***************************************************************************)
(* Filtering a list.  The same as SelectSeq(seq, LAMBDA x : x \in S), but  *)
(* as a recursive function, which can be reasoned about.                   *)
(***************************************************************************)
EXTENDS Integers, Sequences

\* The elements of seq that are in S, in their order.
Kept(seq, S) ==
  LET kept[n \in 0 .. Len(seq)] ==
        IF n = 0 THEN <<>>
        ELSE IF seq[n] \in S THEN Append(kept[n - 1], seq[n]) ELSE kept[n - 1]
  IN kept[Len(seq)]
=============================================================================
