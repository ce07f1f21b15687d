---------------------------- MODULE HandleTable ----------------------------
(***************************************************************************)
(* The generational handle table of src/resources.rs (HandleTable<T>, and  *)
(* ResourceDef<T>, batch_drop and batch_drop_recursive, which forward to   *)
(* it): slots recycled through a free list, borrow counts that forbid a    *)
(* drop, and parent/child edges that free_recursive follows.               *)
(*                                                                         *)
(* All operations take &mut self, so they do not interleave.  A call that  *)
(* drops several resources runs the drop callback once for each of them;   *)
(* it is cut into one step per loop iteration, so that the properties can  *)
(* speak of the order of the callbacks and of a call that fails half way.  *)
(***************************************************************************)
EXTENDS Integers, FiniteSets, SequencesExt, ListFilter

CONSTANTS
    MaxSlots,        \* bound: slots the memory can hold (below 2^32)
    MaxGeneration,   \* the largest generation (u32::MAX)
    Value,           \* the values of type T
    Borrower,        \* holders of borrows (bound: fewer than 2^32)
    None,            \* Option::None
    OverflowChecks,  \* TRUE: `+ 1` panics on overflow (debug); FALSE: it wraps
    MaxChildren,     \* bound: length of one list of children
    MaxBatch         \* bound: handles in one batch_drop

Index == 0 .. MaxSlots - 1

ASSUME SizeAssumption == MaxSlots \in Nat \ {0} /\ MaxGeneration \in Nat
ASSUME NoneAssumption == None \notin Index /\ None \notin Value
ASSUME SwitchAssumption == OverflowChecks \in BOOLEAN
ASSUME BoundAssumption == MaxChildren \in Nat /\ MaxBatch \in Nat

Generation == 0 .. MaxGeneration
RawHandle == [index : Index, generation : Generation]
Handle(i, g) == [index |-> i, generation |-> g]
Lease == [borrower : Borrower, handle : RawHandle]

Slot == [live : BOOLEAN, value : Value \union {None},
         generation : Generation, nextFree : Index \union {None}]
Occupied(v, g) == [live |-> TRUE, value |-> v, generation |-> g, nextFree |-> None]
Free(g, next) == [live |-> FALSE, value |-> None, generation |-> g, nextFree |-> next]

VARIABLES
    slots,         \* the slots; those at capacity and above do not exist yet
    capacity,      \* slots.len()
    freeHead,      \* head of the free list
    len,           \* number of occupied slots, as the table counts it
    borrowCounts,  \* active borrows of each index (0: no entry)
    children,      \* the list of children of each index (<<>>: no entry)
    parentOf,      \* the parent of each index (None: no entry)
    issued,        \* ghost: every handle alloc ever returned
    leases,        \* ghost: the borrows the callers hold
    call           \* the dropping call under way

table == <<slots, capacity, freeHead, len, borrowCounts, children, parentOf>>
vars == <<slots, capacity, freeHead, len, borrowCounts, children, parentOf,
          issued, leases, call>>

(***************************************************************************)
(* The dropping call under way: the indices its current free_recursive has *)
(* still to look at, the handles it has still to free, in that order (the  *)
(* handle it was called with last), and the handles a batch has still to   *)
(* drop (last first), each recursively or not.                             *)
(***************************************************************************)
NoCall == [stack |-> <<>>, plan |-> <<>>, batch |-> <<>>, nested |-> FALSE]
Idle == call = NoCall

-----------------------------------------------------------------------------
(***************************************************************************)
(* Validity, ancestors and descendants.                                    *)
(***************************************************************************)

Valid(h) == /\ h.index \in 0 .. capacity - 1
            /\ slots[h.index].live
            /\ slots[h.index].generation = h.generation

\* The loop of is_ancestor climbs parent_of from d and meets a.
ClimbClosed(S) == \A k \in S : parentOf[k] # None => parentOf[k] \in S
IsAncestor(a, d) == \A S \in SUBSET Index : d \in S /\ ClimbClosed(S) => a \in S

\* The children whose handles the collecting loop pushes when it pops i.
Pushed(i) == IF slots[i].live THEN ToSet(children[i]) ELSE {}
Below(i) == {j \in Index : \A S \in SUBSET Index :
                Pushed(i) \subseteq S /\ (\A k \in S : Pushed(k) \subseteq S) => j \in S}
CollectEnds(i) == \A k \in Below(i) \union {i} : k \notin Below(k)

-----------------------------------------------------------------------------
Init ==
    /\ slots = [i \in Index |-> Free(0, None)]
    /\ capacity = 0
    /\ freeHead = None
    /\ len = 0
    /\ borrowCounts = [i \in Index |-> 0]
    /\ children = [i \in Index |-> <<>>]
    /\ parentOf = [i \in Index |-> None]
    /\ issued = {}
    /\ leases = {}
    /\ call = NoCall

\* alloc pops the head of the free list and keeps the generation of the slot.
AllocReuse(v) ==
    /\ Idle
    /\ freeHead # None
    /\ LET g == slots[freeHead].generation IN
       /\ slots' = [slots EXCEPT ![freeHead] = Occupied(v, g)]
       /\ issued' = issued \union {Handle(freeHead, g)}
    /\ freeHead' = slots[freeHead].nextFree
    /\ len' = len + 1
    /\ UNCHANGED <<capacity, borrowCounts, children, parentOf, leases, call>>

\* alloc finds no free slot and pushes a new one.
AllocAppend(v) ==
    /\ Idle
    /\ freeHead = None
    /\ capacity < MaxSlots
    /\ slots' = [slots EXCEPT ![capacity] = Occupied(v, 0)]
    /\ capacity' = capacity + 1
    /\ len' = len + 1
    /\ issued' = issued \union {Handle(capacity, 0)}
    /\ UNCHANGED <<freeHead, borrowCounts, children, parentOf, leases, call>>

\* The value behind a handle is changed through get_mut.
Mutate(h, v) ==
    /\ Idle
    /\ Valid(h)
    /\ slots' = [slots EXCEPT ![h.index] = Occupied(v, h.generation)]
    /\ UNCHANGED <<capacity, freeHead, len, borrowCounts, children, parentOf,
                   issued, leases, call>>

-----------------------------------------------------------------------------
(***************************************************************************)
(* Dropping.                                                               *)
(***************************************************************************)

\* Slip: the bump is missing.
BumpForgotten(g) == g
BumpGeneration(g) == (g + 1) % (MaxGeneration + 1)

\* Slip: a borrowed resource may be freed.
FreeableBorrowed(h) == Valid(h)
Freeable(h) == Valid(h) /\ borrowCounts[h.index] = 0
\* The bump overflows before the slot is replaced, so a panic changes nothing.
BumpPanics(h) == OverflowChecks /\ h.generation = MaxGeneration

\* Slip: the freed slot does not link to the rest of the free list.
VacateUnlinked(h, kids, parents) ==
    /\ slots' = [slots EXCEPT ![h.index] = Free(BumpGeneration(h.generation), None)]
    /\ freeHead' = h.index
    /\ len' = len - 1
    /\ borrowCounts' = [borrowCounts EXCEPT ![h.index] = 0]
    /\ children' = [kids EXCEPT ![h.index] = <<>>]
    /\ parentOf' = [parents EXCEPT ![h.index] = None]
    /\ UNCHANGED <<capacity, issued, leases>>

\* free succeeds on a table whose edges are kids and parents.
Vacate(h, kids, parents) ==
    /\ slots' = [slots EXCEPT ![h.index] = Free(BumpGeneration(h.generation), freeHead)]
    /\ freeHead' = h.index
    /\ len' = len - 1
    /\ borrowCounts' = [borrowCounts EXCEPT ![h.index] = 0]
    /\ children' = [kids EXCEPT ![h.index] = <<>>]
    /\ parentOf' = [parents EXCEPT ![h.index] = None]
    /\ UNCHANGED <<capacity, issued, leases>>

\* free, called on its own.
FreeOne(h) ==
    /\ Idle
    /\ Freeable(h) /\ ~ BumpPanics(h)
    /\ Vacate(h, children, parentOf)
    /\ UNCHANGED call

\* free_recursive, which is a recursive batch of one handle.
FreeRecursive(h) ==
    /\ Idle
    /\ call' = [NoCall EXCEPT !.batch = <<h>>, !.nested = TRUE]
    /\ UNCHANGED <<table, issued, leases>>

\* batch_drop (nested = FALSE) and batch_drop_recursive (TRUE).
BatchDrop(hs, nested) ==
    /\ Idle
    /\ hs # <<>>
    /\ call' = [NoCall EXCEPT !.batch = hs, !.nested = nested]
    /\ UNCHANGED <<table, issued, leases>>

\* What is left of the call when its current free_recursive is over.
Rest(b) == IF b = <<>> THEN NoCall ELSE [call EXCEPT !.plan = <<>>, !.batch = b]

\* The batch takes its next handle, the last one, and drops it alone.  An error
\* is noted and the batch goes on; a panic ends the call.
BatchFree ==
    /\ call.plan = <<>> /\ call.batch # <<>> /\ ~ call.nested
    /\ LET h == Last(call.batch) IN
       \/ /\ Freeable(h) /\ ~ BumpPanics(h)
          /\ Vacate(h, children, parentOf)
          /\ call' = Rest(Front(call.batch))
       \/ /\ Freeable(h) /\ BumpPanics(h)
          /\ call' = NoCall
          /\ UNCHANGED <<table, issued, leases>>
       \/ /\ ~ Freeable(h)
          /\ call' = Rest(Front(call.batch))
          /\ UNCHANGED <<table, issued, leases>>

\* The batch takes its next handle and free_recursive goes to collect what is
\* below it.  Where the lists of children form a cycle that loop never ends.
BatchCollect ==
    /\ call.plan = <<>> /\ call.batch # <<>> /\ call.nested
    /\ LET h == Last(call.batch) IN
       \/ /\ Valid(h) /\ CollectEnds(h.index)
          /\ call' = [call EXCEPT !.stack = children[h.index], !.plan = <<h>>,
                                  !.batch = Front(@)]
       \/ /\ Valid(h) /\ ~ CollectEnds(h.index)
          /\ UNCHANGED call
       \/ /\ ~ Valid(h)
          /\ call' = Rest(Front(call.batch))
    /\ UNCHANGED <<table, issued, leases>>

\* Slip: what was collected is freed in the order it was collected.
CollectUnreversed ==
    /\ call.stack # <<>>
    /\ LET i == Last(call.stack) IN
       call' = IF slots[i].live
               THEN [call EXCEPT !.stack = Front(@) \o children[i],
                                 !.plan = Front(@) \o <<Handle(i, slots[i].generation), Last(@)>>]
               ELSE [call EXCEPT !.stack = Front(@)]
    /\ UNCHANGED <<table, issued, leases>>

\* One iteration of the collecting loop: it pops an index, and what is found later
\* will be freed earlier.
Collect ==
    /\ call.stack # <<>>
    /\ LET i == Last(call.stack) IN
       call' = IF slots[i].live
               THEN [call EXCEPT !.stack = Front(@) \o children[i],
                                 !.plan = <<Handle(i, slots[i].generation)>> \o @]
               ELSE [call EXCEPT !.stack = Front(@)]
    /\ UNCHANGED <<table, issued, leases>>

\* One iteration of the loop of free_recursive: the child is detached, then freed;
\* the last handle of the plan is the root, which is only freed.  An error keeps
\* the detachment and abandons the rest of the plan; a panic ends the call.
PlanStep ==
    /\ call.stack = <<>> /\ call.plan # <<>>
    /\ LET h == Head(call.plan)
           root == Last(call.plan).index
           isRoot == Tail(call.plan) = <<>>
           parents == IF isRoot THEN parentOf ELSE [parentOf EXCEPT ![h.index] = None]
           kids == IF isRoot THEN children
                   ELSE [children EXCEPT ![root] = Filter(@, Index \ {h.index})]
       IN
       \/ /\ Freeable(h) /\ ~ BumpPanics(h)
          /\ Vacate(h, kids, parents)
          /\ call' = IF isRoot THEN Rest(call.batch) ELSE [call EXCEPT !.plan = Tail(@)]
       \/ /\ ~ Freeable(h) \/ BumpPanics(h)
          /\ children' = kids /\ parentOf' = parents
          /\ call' = IF Freeable(h) THEN NoCall ELSE Rest(call.batch)
          /\ UNCHANGED <<slots, capacity, freeHead, len, borrowCounts, issued, leases>>

CallStep == BatchFree \/ BatchCollect \/ Collect \/ PlanStep

-----------------------------------------------------------------------------
(***************************************************************************)
(* Borrows.  A holder releases only a borrow it holds (a BorrowGuard does  *)
(* so once; a BorrowHandle is Copy and this is asked of its holder).       *)
(***************************************************************************)

LeasesOn(i) == {l \in leases : l.handle.index = i}

Borrow(b, h) ==
    /\ Idle
    /\ Valid(h)
    /\ [borrower |-> b, handle |-> h] \notin leases
    /\ borrowCounts' = [borrowCounts EXCEPT ![h.index] = @ + 1]
    /\ leases' = leases \union {[borrower |-> b, handle |-> h]}
    /\ UNCHANGED <<slots, capacity, freeHead, len, children, parentOf, issued, call>>

ReleaseBorrow(l) ==
    /\ Idle
    /\ leases' = leases \ {l}
    /\ borrowCounts' = IF Valid(l.handle) /\ borrowCounts[l.handle.index] > 0
                       THEN [borrowCounts EXCEPT ![l.handle.index] = @ - 1]
                       ELSE borrowCounts
    /\ UNCHANGED <<slots, capacity, freeHead, len, children, parentOf, issued, call>>

-----------------------------------------------------------------------------
(***************************************************************************)
(* Nesting.                                                                *)
(***************************************************************************)

\* Slip: the arguments of the ancestor test are swapped.
AddChildSwapped(p, c) ==
    /\ Idle
    /\ Valid(p) /\ Valid(c)
    /\ ~ IsAncestor(p.index, c.index)
    /\ Len(children[p.index]) < MaxChildren
    /\ children' = [children EXCEPT ![p.index] = Append(@, c.index)]
    /\ parentOf' = [parentOf EXCEPT ![c.index] = p.index]
    /\ UNCHANGED <<slots, capacity, freeHead, len, borrowCounts, issued, leases, call>>

AddChild(p, c) ==
    /\ Idle
    /\ Valid(p) /\ Valid(c)
    /\ ~ IsAncestor(c.index, p.index)
    /\ Len(children[p.index]) < MaxChildren
    /\ children' = [children EXCEPT ![p.index] = Append(@, c.index)]
    /\ parentOf' = [parentOf EXCEPT ![c.index] = p.index]
    /\ UNCHANGED <<slots, capacity, freeHead, len, borrowCounts, issued, leases, call>>

-----------------------------------------------------------------------------
Next ==
    \/ \E v \in Value : AllocReuse(v) \/ AllocAppend(v)
    \/ \E h \in issued, v \in Value : Mutate(h, v)
    \/ \E h \in issued : FreeOne(h) \/ FreeRecursive(h)
    \/ \E hs \in SeqOf(issued, MaxBatch), nested \in BOOLEAN : BatchDrop(hs, nested)
    \/ CallStep
    \/ \E b \in Borrower, h \in issued : Borrow(b, h)
    \/ \E l \in leases : ReleaseBorrow(l)
    \/ \E p, c \in issued : AddChild(p, c)

Spec == Init /\ [][Next]_vars

-----------------------------------------------------------------------------
(***************************************************************************)
(* Properties.                                                             *)
(***************************************************************************)

\* Every field of the table but the lists of children has its type, and so have
\* the handles issued and the leases.
TableTypeOK ==
    /\ slots \in [Index -> Slot]
    /\ capacity \in 0 .. MaxSlots
    /\ freeHead \in Index \union {None}
    /\ len \in Int
    /\ borrowCounts \in [Index -> Int]
    /\ parentOf \in [Index -> Index \union {None}]
    /\ issued \subseteq RawHandle
    /\ leases \subseteq Lease

FreeIndices == {i \in 0 .. capacity - 1 : ~ slots[i].live}
LiveIndices == {i \in 0 .. capacity - 1 : slots[i].live}

\* The free list links free slots only, no slot twice, and its head is nobody's
\* successor: alloc never hands out a live slot (its InvalidIndex branch is dead
\* code) and never the same slot twice, whatever order the slots were freed in.
FreeListSound ==
    /\ freeHead \in FreeIndices \union {None}
    /\ \A i \in FreeIndices : slots[i].nextFree \in FreeIndices \union {None}
    /\ \A i, j \in FreeIndices : slots[i].nextFree = slots[j].nextFree => i = j
    /\ \A i \in FreeIndices : slots[i].nextFree = freeHead => freeHead = None

\* Every free slot is on the free list (it is in every set that holds the head
\* and is closed under next_free): the table grows only when no slot is free.
FreeListComplete ==
    \A S \in SUBSET Index :
        /\ freeHead # None => freeHead \in S
        /\ \A i \in S \intersect FreeIndices :
               slots[i].nextFree # None => slots[i].nextFree \in S
        => FreeIndices \subseteq S

\* The free list is exactly the free slots, each once: whatever order the slots are
\* freed in, alloc hands out no live slot and loses no free one.
FreeListExact == FreeListSound /\ FreeListComplete

\* len() is the number of live resources between any two steps of any call, and
\* the ones of a dropping call that failed half way.
LenCountsLive == len = Cardinality(LiveIndices)

\* Parent edges never close a loop, through any mix of add_child, re-parenting,
\* drops and reuse of slots: the unbounded climb of is_ancestor ends.
AncestorsAcyclic ==
    \A i \in Index : parentOf[i] # None => ~ IsAncestor(i, parentOf[i])

\* A borrow outlives every attempt to drop what it borrows: while a holder has
\* not released it its handle stays good, and the count of a slot is exactly the
\* number of its holders, so a reused slot starts with none.
BorrowsHold ==
    /\ \A l \in leases : Valid(l.handle)
    /\ \A i \in Index : borrowCounts[i] = Cardinality(LeasesOn(i))

\* A handle that was retired is refused for ever, also when its slot is reused.
\* True where the bump of a generation cannot wrap.
RetiredStayRetired == [][\A h \in issued : ~ Valid(h) => ~ Valid(h)']_vars

\* free_recursive runs the drop callback of a resource only when everything
\* listed under it is gone ("deepest first"), at every level and after any
\* history of re-parenting.
DescendantsFirst ==
    [][\A i \in Index : call.plan # <<>> /\ slots[i].live /\ ~ slots'[i].live
           => \A k \in ToSet(children[i]) : ~ slots[k].live]_vars

-----------------------------------------------------------------------------
(***************************************************************************)
(* What a comment of the source says and the table does not do.            *)
(***************************************************************************)

\* add_child is to "prevent cycles": no resource is listed below itself.
ListsAcyclic == \A i \in LiveIndices : i \notin Below(i)

-----------------------------------------------------------------------------
(***************************************************************************)
(* The table implements a store of resources under handles that are never  *)
(* used again, in which what is borrowed is not dropped.                   *)
(***************************************************************************)
LiveHandles == {Handle(i, slots[i].generation) : i \in LiveIndices}
Behind == [h \in LiveHandles |-> slots[h.index].value]
Retired == {h \in issued : ~ Valid(h)}

Store == INSTANCE ResourceStore WITH
    Handles <- RawHandle, store <- Behind, retired <- Retired

\* Every step of the table is one step of the store, or none: its callers may
\* think of handles that are never given out twice, whatever slots are recycled.
ImplementsStore == Store!Spec
=============================================================================
