----------------------------- MODULE HeaderMap -----------------------------
(***************************************************************************)
(* What a list of headers promises: every key has a list of values, which  *)
(* grows at its end and is deleted as a whole.                             *)
(***************************************************************************)
EXTENDS Naturals, Sequences, FiniteSets

CONSTANTS Key, Value

VARIABLES
    values,  \* the values of each key
    size     \* the number of values of all keys

vars == <<values, size>>

Empty == [k \in Key |-> <<>>]

Init == values = Empty /\ size = 0

\* A new message: at most one value for a key.
Begin ==
    /\ values' \in [Key -> {<<>>} \union {<<v>> : v \in Value}]
    /\ size' = Cardinality({k \in Key : values'[k] # <<>>})

Add(k, v) ==
    /\ values' = [values EXCEPT ![k] = Append(@, v)]
    /\ size' = size + 1

Delete(k) ==
    /\ values' = [values EXCEPT ![k] = <<>>]
    /\ size' = size - Len(values[k])

Next ==
    \/ Begin
    \/ \E k \in Key : Delete(k) \/ \E v \in Value : Add(k, v)

Spec == Init /\ [][Next]_vars
=============================================================================
