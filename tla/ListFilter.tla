----------------------------- MODULE ListFilter -----------------------------
(***************************************************************************)
(* retain, filter and find over lists: the elements of a list that are in  *)
(* a set, in their order.  It is SelectSeq with a set for the test, as a   *)
(* recursive function that proofs can expand.                              *)
(***************************************************************************)
EXTENDS Naturals, Sequences

Filter(s, S) ==
    LET kept[i \in 0 .. Len(s)] ==
            IF i = 0 THEN <<>>
            ELSE IF s[i] \in S THEN Append(kept[i - 1], s[i])
            ELSE kept[i - 1]
    IN kept[Len(s)]
=============================================================================
