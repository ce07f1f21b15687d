--------------------------- MODULE ResourceStore ---------------------------
(***************************************************************************)
(* What the handle table of src/resources.rs promises its callers: a store *)
(* of resources under handles.  A handle is given out once; once its       *)
(* resource is dropped it is retired for good.  A resource is reached only *)
(* through its own handle, and is not dropped while it is borrowed.        *)
(***************************************************************************)
EXTENDS FiniteSets

CONSTANTS Handles, Value, Borrower

VARIABLES
    store,    \* the value behind each handle in use
    retired,  \* the handles whose resource was dropped
    leases    \* the borrows held

storeVars == <<store, retired, leases>>

Held(h) == \E l \in leases : l.handle = h

Init ==
    /\ store = [h \in {} |-> {}]
    /\ retired = {}
    /\ leases = {}

Create(h, v) ==
    /\ h \notin DOMAIN store \union retired
    /\ store' = [k \in DOMAIN store \union {h} |-> IF k = h THEN v ELSE store[k]]
    /\ UNCHANGED <<retired, leases>>

Update(h, v) ==
    /\ store' = [store EXCEPT ![h] = v]
    /\ UNCHANGED <<retired, leases>>

Drop(h) ==
    /\ ~ Held(h)
    /\ store' = [k \in DOMAIN store \ {h} |-> store[k]]
    /\ retired' = retired \union {h}
    /\ UNCHANGED leases

Acquire(b, h) ==
    /\ leases' = leases \union {[borrower |-> b, handle |-> h]}
    /\ UNCHANGED <<store, retired>>

Release(l) ==
    /\ leases' = leases \ {l}
    /\ UNCHANGED <<store, retired>>

Next ==
    \/ \E h \in Handles, v \in Value : Create(h, v)
    \/ \E h \in DOMAIN store, v \in Value : Update(h, v)
    \/ \E h \in DOMAIN store : Drop(h)
    \/ \E b \in Borrower, h \in DOMAIN store : Acquire(b, h)
    \/ \E l \in leases : Release(l)

Spec == Init /\ [][Next]_storeVars
=============================================================================
