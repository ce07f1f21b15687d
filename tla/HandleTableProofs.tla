------------------------- MODULE HandleTableProofs -------------------------
(***************************************************************************)
(* Proofs about HandleTable, for every number of slots, generations,       *)
(* values and borrowers.                                                   *)
(***************************************************************************)
EXTENDS HandleTable, WellFoundedInduction, SequenceTheorems, FiniteSetTheorems, TLAPS

(***************************************************************************)
(* The kinds of steps.  The dropping calls change the table in two ways    *)
(* only: one resource is dropped, or at most a parent edge is cut.         *)
(***************************************************************************)

Cut(parents) == parents = parentOf \/ \E x : parents = [parentOf EXCEPT ![x] = None]

DropStep == \E h, kids, parents :
                /\ Freeable(h) /\ ~ BumpPanics(h)
                /\ Cut(parents)
                /\ Vacate(h, kids, parents)

QuietStep == /\ UNCHANGED <<slots, capacity, freeHead, len, borrowCounts, issued, leases>>
             /\ Cut(parentOf')

AnyStep == \/ \E v \in Value : AllocReuse(v)
           \/ \E v \in Value : AllocAppend(v)
           \/ \E h \in issued, v \in Value : Mutate(h, v)
           \/ DropStep
           \/ QuietStep
           \/ \E b \in Borrower, h \in issued : Borrow(b, h)
           \/ \E l \in leases : ReleaseBorrow(l)
           \/ \E p, c \in issued : AddChild(p, c)

\* Every step of the table, stuttering included, is of one of these kinds.
LEMMA StepKinds == ASSUME [Next]_vars PROVE AnyStep
<1>1. CASE UNCHANGED vars
  BY <1>1 DEF vars, AnyStep, QuietStep, Cut
<1>2. ASSUME NEW h, FreeOne(h) PROVE DropStep
  BY <1>2 DEF FreeOne, DropStep, Cut
<1>3. ASSUME BatchFree PROVE DropStep \/ QuietStep
  BY <1>3 DEF BatchFree, DropStep, QuietStep, Cut, table
<1>4. ASSUME BatchCollect \/ Collect PROVE QuietStep
  BY <1>4 DEF BatchCollect, Collect, QuietStep, Cut, table
<1>5. ASSUME PlanStep PROVE DropStep \/ QuietStep
  <2> DEFINE h == Head(call.plan)
             root == Last(call.plan).index
             isRoot == Tail(call.plan) = <<>>
             parents == IF isRoot THEN parentOf ELSE [parentOf EXCEPT ![h.index] = None]
             kids == IF isRoot THEN children
                     ELSE [children EXCEPT ![root] = Filter(@, Index \ {h.index})]
  <2>1. Cut(parents)
    BY DEF Cut
  <2> HIDE DEF kids
  <2>2. CASE Freeable(h) /\ ~ BumpPanics(h) /\ Vacate(h, kids, parents)
    <3> HIDE DEF parents, h
    <3> QED BY <2>1, <2>2 DEF DropStep
  <2>3. CASE /\ parentOf' = parents
             /\ UNCHANGED <<slots, capacity, freeHead, len, borrowCounts, issued, leases>>
    BY <2>1, <2>3 DEF QuietStep
  <2> QED BY <1>5, <2>2, <2>3 DEF PlanStep, kids
<1>6. ASSUME NEW h, FreeRecursive(h) PROVE QuietStep
  BY <1>6 DEF FreeRecursive, QuietStep, Cut, table
<1>7. ASSUME NEW hs, NEW nested, BatchDrop(hs, nested) PROVE QuietStep
  BY <1>7 DEF BatchDrop, QuietStep, Cut, table
<1> QED BY <1>1, <1>2, <1>3, <1>4, <1>5, <1>6, <1>7 DEF Next, CallStep, AnyStep

-----------------------------------------------------------------------------
(***************************************************************************)
(* Types.                                                                  *)
(***************************************************************************)

LEMMA SlotTypes ==
    ASSUME NEW g \in Generation
    PROVE  /\ \A v \in Value : Occupied(v, g) \in Slot
           /\ \A n \in Index \union {None} : Free(g, n) \in Slot
  BY DEF Occupied, Free, Slot

LEMMA BumpType == ASSUME NEW g \in Generation PROVE BumpGeneration(g) \in Generation
  BY SizeAssumption DEF Generation, BumpGeneration

LEMMA InitTypes == Init => TableTypeOK
  <1> SUFFICES ASSUME Init PROVE TableTypeOK
    OBVIOUS
  <1>1. 0 \in Generation
    BY SizeAssumption DEF Generation
  <1>2. Free(0, None) \in Slot
    BY <1>1, SlotTypes
  <1> QED BY <1>2, SizeAssumption DEF Init, TableTypeOK, RawHandle

\* No step of any call, dropping calls included, takes a field out of its type.
LEMMA NextTypes == TableTypeOK /\ [Next]_vars => TableTypeOK'
  <1> SUFFICES ASSUME TableTypeOK, AnyStep PROVE TableTypeOK'
    BY StepKinds
  <1> USE DEF TableTypeOK
  <1>1. ASSUME NEW v \in Value, AllocReuse(v) PROVE TableTypeOK'
    <2>1. freeHead \in Index /\ slots[freeHead] \in Slot
      BY <1>1 DEF AllocReuse
    <2> DEFINE g == slots[freeHead].generation
    <2>2. g \in Generation /\ slots[freeHead].nextFree \in Index \union {None}
      BY <2>1 DEF Slot
    <2>3. slots' \in [Index -> Slot]
      BY <1>1, <2>2, SlotTypes DEF AllocReuse
    <2>4. Handle(freeHead, g) \in RawHandle
      BY <2>1, <2>2 DEF Handle, RawHandle
    <2> QED BY <1>1, <2>2, <2>3, <2>4 DEF AllocReuse
  <1>2. ASSUME NEW v \in Value, AllocAppend(v) PROVE TableTypeOK'
    <2>1. capacity \in Index /\ capacity + 1 \in 0 .. MaxSlots
      BY <1>2, SizeAssumption DEF AllocAppend, Index
    <2>2. 0 \in Generation
      BY SizeAssumption DEF Generation
    <2>3. slots' \in [Index -> Slot]
      BY <1>2, <2>2, SlotTypes DEF AllocAppend
    <2>4. Handle(capacity, 0) \in RawHandle
      BY <2>1, <2>2 DEF Handle, RawHandle
    <2> QED BY <1>2, <2>1, <2>3, <2>4 DEF AllocAppend
  <1>3. ASSUME NEW h \in issued, NEW v \in Value, Mutate(h, v) PROVE TableTypeOK'
    <2>1. h.generation \in Generation
      BY DEF RawHandle
    <2>2. slots' \in [Index -> Slot]
      BY <1>3, <2>1, SlotTypes DEF Mutate
    <2> QED BY <1>3, <2>2 DEF Mutate
  <1>4. ASSUME DropStep PROVE TableTypeOK'
    <2>1. PICK h, kids, parents : /\ Freeable(h) /\ ~ BumpPanics(h)
                                  /\ Cut(parents)
                                  /\ Vacate(h, kids, parents)
      BY <1>4 DEF DropStep
    <2>2. h.index \in Index /\ h.generation \in Generation
      <3>1. h.index \in Index
        BY <2>1, SizeAssumption DEF Freeable, Valid, Index
      <3>2. slots[h.index] \in Slot
        BY <3>1
      <3> QED BY <2>1, <3>1, <3>2 DEF Freeable, Valid, Slot
    <2>3. slots' \in [Index -> Slot]
      BY <2>1, <2>2, SlotTypes, BumpType DEF Vacate
    <2>4. parentOf' \in [Index -> Index \union {None}]
      BY <2>1 DEF Vacate, Cut
    <2> QED BY <2>1, <2>2, <2>3, <2>4 DEF Vacate
  <1>5. ASSUME QuietStep PROVE TableTypeOK'
    BY <1>5 DEF QuietStep, Cut
  <1>6. ASSUME NEW b \in Borrower, NEW h \in issued, Borrow(b, h) PROVE TableTypeOK'
    <2>1. h \in RawHandle /\ h.index \in Index
      BY DEF RawHandle
    <2>2. [borrower |-> b, handle |-> h] \in Lease
      BY <2>1 DEF Lease
    <2>3. borrowCounts' \in [Index -> Int]
      BY <1>6, <2>1 DEF Borrow
    <2> QED BY <1>6, <2>2, <2>3 DEF Borrow
  <1>7. ASSUME NEW l \in leases, ReleaseBorrow(l) PROVE TableTypeOK'
    <2>1. l.handle.index \in Index
      BY DEF Lease, RawHandle
    <2>2. borrowCounts' \in [Index -> Int]
      BY <1>7, <2>1 DEF ReleaseBorrow
    <2>3. leases' \subseteq Lease
      BY <1>7 DEF ReleaseBorrow
    <2> QED BY <1>7, <2>2, <2>3 DEF ReleaseBorrow
  <1>8. ASSUME NEW p \in issued, NEW c \in issued, AddChild(p, c) PROVE TableTypeOK'
    <2>1. p.index \in Index /\ c.index \in Index
      BY DEF RawHandle
    <2> QED BY <1>8, <2>1 DEF AddChild
  <1> QED BY <1>1, <1>2, <1>3, <1>4, <1>5, <1>6, <1>7, <1>8 DEF AnyStep

\* The fields of the table keep their types in every behaviour.
THEOREM TableTyped == Spec => []TableTypeOK
  BY InitTypes, NextTypes, PTL DEF Spec

-----------------------------------------------------------------------------
(***************************************************************************)
(* The free list.                                                          *)
(***************************************************************************)

\* The live index of a valid handle.
LEMMA ValidIndex ==
    ASSUME TableTypeOK, NEW h, Valid(h)
    PROVE  /\ h.index \in LiveIndices /\ h.index \in Index
           /\ h.generation \in Generation
           /\ slots[h.index].generation = h.generation
<1>1. h.index \in Index
  BY SizeAssumption DEF Valid, Index, TableTypeOK
<1>2. slots[h.index] \in Slot
  BY <1>1 DEF TableTypeOK
<1> QED BY <1>1, <1>2 DEF Valid, LiveIndices, Slot

\* An empty list means that no slot is free.
LEMMA NoHeadNoFree ==
    ASSUME FreeListExact, freeHead = None
    PROVE  FreeIndices = {}
  BY {} \in SUBSET Index DEF FreeListExact, FreeListComplete

LEMMA FreeListInit == Init => FreeListExact
  BY DEF Init, FreeListExact, FreeListSound, FreeListComplete, FreeIndices

\* Slots that stay as they are, or only change their values, keep the list.
LEMMA FreeListFrame ==
    ASSUME FreeListExact, FreeIndices' = FreeIndices, freeHead' = freeHead,
           \A i \in FreeIndices : slots'[i].nextFree = slots[i].nextFree
    PROVE  FreeListExact'
<1>1. FreeListSound'
  BY DEF FreeListExact, FreeListSound
<1>2. FreeListComplete'
  BY DEF FreeListExact, FreeListComplete
<1> QED BY <1>1, <1>2 DEF FreeListExact

\* alloc pops the head.
LEMMA FreeListPop ==
    ASSUME TableTypeOK, FreeListExact, NEW v \in Value, AllocReuse(v)
    PROVE  FreeListExact'
<1> DEFINE k == freeHead
<1>1. k \in FreeIndices /\ k \in Index /\ k # None
  BY NoneAssumption DEF AllocReuse, FreeListExact, FreeListSound, TableTypeOK
<1>2. slots'[k].live /\ \A i \in Index \ {k} : slots'[i] = slots[i]
  BY <1>1 DEF AllocReuse, Occupied, TableTypeOK
<1>3. FreeIndices \subseteq Index
  BY SizeAssumption DEF FreeIndices, Index, TableTypeOK
<1>4. FreeIndices' = FreeIndices \ {k}
  BY <1>1, <1>2, <1>3, SizeAssumption DEF FreeIndices, AllocReuse, TableTypeOK, Index
<1>5. freeHead' = slots[k].nextFree
  BY DEF AllocReuse
<1>6. \A i \in FreeIndices \ {k} : slots'[i].nextFree = slots[i].nextFree
  BY <1>2, <1>3
<1>7. FreeListSound'
  BY <1>1, <1>4, <1>5, <1>6 DEF FreeListExact, FreeListSound
<1>8. FreeListComplete'
  <2> SUFFICES ASSUME NEW S \in SUBSET Index,
                      freeHead' # None => freeHead' \in S,
                      \A i \in S \intersect FreeIndices' :
                          slots'[i].nextFree # None => slots'[i].nextFree \in S
               PROVE  FreeIndices' \subseteq S
    BY DEF FreeListComplete
  <2> DEFINE T == S \union {k}
  <2>1. T \in SUBSET Index /\ freeHead \in T
    BY <1>1
  <2>2. ASSUME NEW i \in T \intersect FreeIndices, slots[i].nextFree # None
        PROVE  slots[i].nextFree \in T
    BY <1>4, <1>5, <1>6, <2>2
  <2>3. FreeIndices \subseteq T
    BY <2>1, <2>2 DEF FreeListExact, FreeListComplete
  <2> QED BY <1>4, <2>3
<1> QED BY <1>7, <1>8 DEF FreeListExact

\* free pushes the slot it frees.
LEMMA FreeListPush ==
    ASSUME TableTypeOK, FreeListExact, NEW h, NEW kids, NEW parents,
           Freeable(h), Vacate(h, kids, parents)
    PROVE  FreeListExact'
<1> DEFINE k == h.index
<1>1. k \in LiveIndices /\ k \in Index /\ k # None
  BY ValidIndex, NoneAssumption DEF Freeable
<1>2. /\ ~ slots'[k].live /\ slots'[k].nextFree = freeHead
      /\ \A i \in Index \ {k} : slots'[i] = slots[i]
  BY <1>1 DEF Vacate, Free, TableTypeOK
<1>3. FreeIndices \subseteq Index /\ k \notin FreeIndices
  BY <1>1, SizeAssumption DEF FreeIndices, LiveIndices, Index, TableTypeOK
<1>4. FreeIndices' = FreeIndices \union {k}
  BY <1>1, <1>2, <1>3, SizeAssumption DEF FreeIndices, LiveIndices, Vacate, TableTypeOK, Index
<1>5. freeHead' = k
  BY DEF Vacate
<1>6. \A i \in FreeIndices : slots'[i].nextFree = slots[i].nextFree
  BY <1>2, <1>3
<1>7. FreeListSound'
  <2>1. \A i \in FreeIndices' : slots'[i].nextFree \in FreeIndices' \union {None}
    BY <1>2, <1>4, <1>6 DEF FreeListExact, FreeListSound
  <2>2. \A i \in FreeIndices : slots[i].nextFree # freeHead
    BY NoHeadNoFree DEF FreeListExact, FreeListSound
  <2>3. \A i, j \in FreeIndices' : slots'[i].nextFree = slots'[j].nextFree => i = j
    BY <1>2, <1>4, <1>6, <2>2 DEF FreeListExact, FreeListSound
  <2>4. \A i \in FreeIndices' : slots'[i].nextFree # freeHead'
    BY <1>1, <1>2, <1>3, <1>4, <1>5, <1>6 DEF FreeListExact, FreeListSound
  <2> QED BY <1>4, <1>5, <2>1, <2>3, <2>4 DEF FreeListSound
<1>8. FreeListComplete'
  <2> SUFFICES ASSUME NEW S \in SUBSET Index,
                      freeHead' # None => freeHead' \in S,
                      \A i \in S \intersect FreeIndices' :
                          slots'[i].nextFree # None => slots'[i].nextFree \in S
               PROVE  FreeIndices' \subseteq S
    BY DEF FreeListComplete
  <2>1. k \in S
    BY <1>1, <1>5
  <2>2. freeHead # None => freeHead \in S
    BY <1>2, <1>4, <2>1
  <2>3. \A i \in S \intersect FreeIndices : slots[i].nextFree # None => slots[i].nextFree \in S
    BY <1>4, <1>6
  <2>4. FreeIndices \subseteq S
    BY <2>2, <2>3 DEF FreeListExact, FreeListComplete
  <2> QED BY <1>4, <2>1, <2>4
<1> QED BY <1>7, <1>8 DEF FreeListExact

\* The list survives every step.
LEMMA FreeListNext == TableTypeOK /\ FreeListExact /\ [Next]_vars => FreeListExact'
<1> SUFFICES ASSUME TableTypeOK, FreeListExact, AnyStep PROVE FreeListExact'
  BY StepKinds
<1>1. ASSUME NEW v \in Value, AllocReuse(v) PROVE FreeListExact'
  BY <1>1, FreeListPop
<1>2. ASSUME NEW v \in Value, AllocAppend(v) PROVE FreeListExact'
  <2>1. FreeIndices = {}
    BY <1>2, NoHeadNoFree DEF AllocAppend
  <2>2. FreeIndices' = {}
    BY <1>2, <2>1, SizeAssumption DEF AllocAppend, FreeIndices, Occupied, TableTypeOK, Index
  <2> QED BY <1>2, <2>1, <2>2, FreeListFrame DEF AllocAppend
<1>3. ASSUME NEW h \in issued, NEW v \in Value, Mutate(h, v) PROVE FreeListExact'
  <2>1. h.index \in LiveIndices /\ h.index \in Index
    BY <1>3, ValidIndex DEF Mutate
  <2>2. slots'[h.index].live /\ \A i \in Index \ {h.index} : slots'[i] = slots[i]
    BY <1>3, <2>1 DEF Mutate, Occupied, TableTypeOK
  <2>3. FreeIndices \subseteq Index /\ h.index \notin FreeIndices
    BY <2>1, SizeAssumption DEF FreeIndices, LiveIndices, Index, TableTypeOK
  <2>4. FreeIndices' = FreeIndices
    BY <1>3, <2>1, <2>2, <2>3, SizeAssumption DEF Mutate, FreeIndices, LiveIndices, TableTypeOK, Index
  <2>5. \A i \in FreeIndices : slots'[i].nextFree = slots[i].nextFree
    BY <2>2, <2>3
  <2> QED BY <1>3, <2>4, <2>5, FreeListFrame DEF Mutate
<1>4. ASSUME DropStep PROVE FreeListExact'
  BY <1>4, FreeListPush DEF DropStep
<1>5. ASSUME UNCHANGED <<slots, capacity, freeHead>> PROVE FreeListExact'
  BY <1>5, FreeListFrame DEF FreeIndices
<1> QED
  BY <1>1, <1>2, <1>3, <1>4, <1>5 DEF AnyStep, QuietStep, Borrow, ReleaseBorrow, AddChild

\* No live slot is ever handed out, and no free slot is lost.
THEOREM FreeListExactAlways == Spec => []FreeListExact
<1>1. Init => TableTypeOK /\ FreeListExact
  BY InitTypes, FreeListInit
<1>2. TableTypeOK /\ FreeListExact /\ [Next]_vars => (TableTypeOK /\ FreeListExact)'
  BY NextTypes, FreeListNext
<1> QED BY <1>1, <1>2, PTL DEF Spec

-----------------------------------------------------------------------------
(***************************************************************************)
(* Ancestors.  An edge is added only from an index that is not yet an      *)
(* ancestor of its new parent; the other steps only cut edges.             *)
(***************************************************************************)

LEMMA AcyclicInit == Init => AncestorsAcyclic
  BY DEF Init, AncestorsAcyclic

\* Cutting an edge adds no ancestor.
LEMMA AcyclicCut ==
    ASSUME TableTypeOK, AncestorsAcyclic, TableTypeOK',
           \A i \in Index : parentOf'[i] \in {parentOf[i], None}
    PROVE  AncestorsAcyclic'
<1> SUFFICES ASSUME NEW x \in Index, parentOf'[x] # None
             PROVE  ~ IsAncestor(x, parentOf[x])'
  BY DEF AncestorsAcyclic
<1>1. parentOf'[x] = parentOf[x] /\ ~ IsAncestor(x, parentOf[x])
  BY DEF AncestorsAcyclic
<1>2. PICK S \in SUBSET Index : parentOf[x] \in S /\ ClimbClosed(S) /\ x \notin S
  BY <1>1 DEF IsAncestor
<1>3. ClimbClosed(S)'
  BY <1>2 DEF ClimbClosed
<1> QED BY <1>1, <1>2, <1>3 DEF IsAncestor

\* add_child adds no cycle of parents, also when the child had another parent.
LEMMA AcyclicAdd ==
    ASSUME TableTypeOK, AncestorsAcyclic,
           NEW p \in Index, NEW c \in Index, ~ IsAncestor(c, p),
           parentOf' = [parentOf EXCEPT ![c] = p]
    PROVE  AncestorsAcyclic'
<1> SUFFICES ASSUME NEW x \in Index, parentOf'[x] # None
             PROVE  ~ IsAncestor(x, parentOf[x])'
  BY DEF AncestorsAcyclic
<1>1. PICK U \in SUBSET Index : p \in U /\ ClimbClosed(U) /\ c \notin U
  BY DEF IsAncestor
<1>2. parentOf'[c] = p /\ \A i \in Index \ {c} : parentOf'[i] = parentOf[i]
  BY DEF TableTypeOK
<1>3. ClimbClosed(U)'
  BY <1>1, <1>2 DEF ClimbClosed
<1>4. CASE x = c
  BY <1>1, <1>2, <1>3, <1>4 DEF IsAncestor
<1>5. CASE x # c
  <2> DEFINE y == parentOf[x]
  <2>1. parentOf'[x] = y /\ y # None /\ y \in Index
    BY <1>2, <1>5 DEF TableTypeOK
  \* The least closed set that holds d: its ancestors and d itself.
  <2>2. ASSUME NEW d \in Index
        PROVE  \E V \in SUBSET Index :
                   /\ d \in V /\ ClimbClosed(V)
                   /\ \A S \in SUBSET Index : d \in S /\ ClimbClosed(S) => V \subseteq S
    <3> DEFINE V == {a \in Index : IsAncestor(a, d)}
    <3>1. V \in SUBSET Index /\ d \in V
      BY DEF IsAncestor
    <3>2. ClimbClosed(V)
      BY DEF IsAncestor, ClimbClosed, TableTypeOK
    <3>3. \A S \in SUBSET Index : d \in S /\ ClimbClosed(S) => V \subseteq S
      BY DEF IsAncestor
    <3> QED BY <3>1, <3>2, <3>3
  <2>3. PICK V \in SUBSET Index :
                /\ y \in V /\ ClimbClosed(V)
                /\ \A S \in SUBSET Index : y \in S /\ ClimbClosed(S) => V \subseteq S
    BY <2>1, <2>2
  <2>4. PICK W \in SUBSET Index :
                /\ p \in W /\ ClimbClosed(W)
                /\ \A S \in SUBSET Index : p \in S /\ ClimbClosed(S) => W \subseteq S
    BY <2>2
  <2>5. c \notin W
    BY <1>1, <2>4
  <2>6. x \notin V
    <3>1. ~ IsAncestor(x, y)
      BY <2>1 DEF AncestorsAcyclic
    <3>2. PICK S \in SUBSET Index : y \in S /\ ClimbClosed(S) /\ x \notin S
      BY <3>1 DEF IsAncestor
    <3> QED BY <2>3, <3>2
  <2>7. CASE c \notin V
    <3>1. ClimbClosed(V)'
      BY <1>2, <2>3, <2>7 DEF ClimbClosed
    <3> QED BY <2>1, <2>3, <2>6, <3>1 DEF IsAncestor
  <2>8. CASE c \in V
    <3>1. x \notin W
      <4> SUFFICES ASSUME x \in W PROVE FALSE
        OBVIOUS
      <4>1. y \in W
        BY <2>1, <2>4 DEF ClimbClosed
      <4>2. V \subseteq W
        BY <2>3, <2>4, <4>1
      <4> QED BY <2>5, <2>8, <4>2
    <3>2. ClimbClosed(V \union W)'
      BY <1>2, <2>3, <2>4 DEF ClimbClosed
    <3> QED BY <2>1, <2>3, <2>4, <2>6, <3>1, <3>2 DEF IsAncestor
  <2> QED BY <2>7, <2>8
<1> QED BY <1>4, <1>5

\* No step closes a loop of parents.
LEMMA AcyclicNext == TableTypeOK /\ AncestorsAcyclic /\ [Next]_vars => AncestorsAcyclic'
<1> SUFFICES ASSUME TableTypeOK, AncestorsAcyclic, AnyStep, TableTypeOK'
             PROVE  AncestorsAcyclic'
  BY StepKinds, NextTypes
<1>1. ASSUME DropStep PROVE AncestorsAcyclic'
  <2>1. \A i \in Index : parentOf'[i] \in {parentOf[i], None}
    BY <1>1 DEF DropStep, Vacate, Cut, TableTypeOK
  <2> QED BY <2>1, AcyclicCut
<1>2. ASSUME QuietStep PROVE AncestorsAcyclic'
  <2>1. \A i \in Index : parentOf'[i] \in {parentOf[i], None}
    BY <1>2 DEF QuietStep, Cut, TableTypeOK
  <2> QED BY <2>1, AcyclicCut
<1>3. ASSUME NEW p \in issued, NEW c \in issued, AddChild(p, c) PROVE AncestorsAcyclic'
  <2>1. p.index \in Index /\ c.index \in Index
    BY DEF TableTypeOK, RawHandle
  <2> QED BY <1>3, <2>1, AcyclicAdd DEF AddChild
<1>4. ASSUME UNCHANGED parentOf PROVE AncestorsAcyclic'
  BY <1>4, AcyclicCut
<1> QED
  BY <1>1, <1>2, <1>3, <1>4
  DEF AnyStep, AllocReuse, AllocAppend, Mutate, Borrow, ReleaseBorrow

\* The climb of is_ancestor never runs in a circle, in any behaviour.
THEOREM AncestorsAcyclicAlways == Spec => []AncestorsAcyclic
<1>1. Init => TableTypeOK /\ AncestorsAcyclic
  BY InitTypes, AcyclicInit
<1>2. TableTypeOK /\ AncestorsAcyclic /\ [Next]_vars => (TableTypeOK /\ AncestorsAcyclic)'
  BY NextTypes, AcyclicNext
<1> QED BY <1>1, <1>2, PTL DEF Spec

-----------------------------------------------------------------------------
(***************************************************************************)
(* What a step does to the indices in use.                                 *)
(***************************************************************************)

LEMMA IndicesInIndex ==
    ASSUME TableTypeOK
    PROVE  0 .. capacity - 1 \subseteq Index
BY SizeAssumption DEF TableTypeOK, Index

\* alloc on a free slot: one more index is live, and it was free.
LEMMA ReuseEffect ==
    ASSUME TableTypeOK, FreeListExact, NEW v \in Value, AllocReuse(v)
    PROVE  /\ freeHead \in FreeIndices /\ freeHead \in Index /\ freeHead \notin LiveIndices
           /\ LiveIndices' = LiveIndices \union {freeHead}
           /\ slots'[freeHead].live
           /\ slots'[freeHead].generation = slots[freeHead].generation
           /\ \A i \in Index \ {freeHead} : slots'[i] = slots[i]
<1>1. freeHead \in FreeIndices /\ freeHead \in Index
  BY NoneAssumption DEF AllocReuse, FreeListExact, FreeListSound, TableTypeOK
<1>2. /\ slots'[freeHead].live
      /\ slots'[freeHead].generation = slots[freeHead].generation
      /\ \A i \in Index \ {freeHead} : slots'[i] = slots[i]
  BY <1>1 DEF AllocReuse, Occupied, TableTypeOK
<1>3. LiveIndices' = LiveIndices \union {freeHead}
  BY <1>1, <1>2, IndicesInIndex DEF LiveIndices, FreeIndices, AllocReuse
<1> QED BY <1>1, <1>2, <1>3 DEF FreeIndices, LiveIndices

\* alloc on a new slot: one more index is live, the first that did not exist.
LEMMA AppendEffect ==
    ASSUME TableTypeOK, NEW v \in Value, AllocAppend(v)
    PROVE  /\ capacity \in Index /\ capacity \notin 0 .. capacity - 1 /\ capacity' = capacity + 1
           /\ LiveIndices' = LiveIndices \union {capacity}
           /\ slots'[capacity].live /\ slots'[capacity].generation = 0
           /\ \A i \in Index \ {capacity} : slots'[i] = slots[i]
<1>1. capacity \in Index /\ capacity \notin 0 .. capacity - 1 /\ capacity' = capacity + 1
  BY SizeAssumption DEF AllocAppend, TableTypeOK, Index
<1>2. /\ slots'[capacity].live /\ slots'[capacity].generation = 0
      /\ \A i \in Index \ {capacity} : slots'[i] = slots[i]
  BY <1>1 DEF AllocAppend, Occupied, TableTypeOK
<1>3. 0 .. capacity' - 1 = (0 .. capacity - 1) \union {capacity}
  BY <1>1 DEF TableTypeOK
<1>4. LiveIndices' = LiveIndices \union {capacity}
  BY <1>1, <1>2, <1>3, IndicesInIndex DEF LiveIndices
<1> QED BY <1>1, <1>2, <1>4

\* A drop: one index is live no more, and its generation is bumped.
LEMMA DropEffect ==
    ASSUME TableTypeOK, NEW h, NEW kids, NEW parents,
           Freeable(h), Vacate(h, kids, parents)
    PROVE  /\ h.index \in LiveIndices /\ h.index \in Index
           /\ LiveIndices' = LiveIndices \ {h.index}
           /\ ~ slots'[h.index].live
           /\ slots'[h.index].generation = BumpGeneration(slots[h.index].generation)
           /\ slots[h.index].generation = h.generation
           /\ \A i \in Index \ {h.index} : slots'[i] = slots[i]
<1>1. /\ h.index \in LiveIndices /\ h.index \in Index
      /\ slots[h.index].generation = h.generation
  BY ValidIndex DEF Freeable
<1>2. /\ ~ slots'[h.index].live
      /\ slots'[h.index].generation = BumpGeneration(slots[h.index].generation)
      /\ \A i \in Index \ {h.index} : slots'[i] = slots[i]
  BY <1>1 DEF Vacate, Free, TableTypeOK
<1>3. LiveIndices' = LiveIndices \ {h.index}
  BY <1>1, <1>2, IndicesInIndex DEF LiveIndices, Vacate
<1> QED BY <1>1, <1>2, <1>3

\* A change through get_mut: indices and generations stay.
LEMMA MutateEffect ==
    ASSUME TableTypeOK, NEW h \in issued, NEW v \in Value, Mutate(h, v)
    PROVE  /\ LiveIndices' = LiveIndices
           /\ \A i \in Index : /\ slots'[i].live = slots[i].live
                               /\ slots'[i].generation = slots[i].generation
<1>1. h.index \in LiveIndices /\ h.index \in Index /\ slots[h.index].generation = h.generation
  BY ValidIndex DEF Mutate
<1>2. slots[h.index].live
  BY <1>1 DEF LiveIndices
<1>3. /\ slots'[h.index].live /\ slots'[h.index].generation = h.generation
      /\ \A i \in Index \ {h.index} : slots'[i] = slots[i]
  BY <1>1 DEF Mutate, Occupied, TableTypeOK
<1>4. \A i \in Index : i # h.index =>
          slots'[i].live = slots[i].live /\ slots'[i].generation = slots[i].generation
  BY <1>3
<1>5. slots[h.index] \in Slot /\ slots'[h.index] \in Slot
  <2>1. Occupied(v, h.generation) \in Slot
    BY <1>1, ValidIndex, SlotTypes DEF Mutate
  <2> QED BY <1>1, <2>1 DEF TableTypeOK, Mutate
<1>6. slots'[h.index].live = slots[h.index].live
  BY <1>2, <1>3, <1>5 DEF Slot
<1>7. LiveIndices' = LiveIndices
  BY <1>1, <1>2, <1>3, IndicesInIndex DEF LiveIndices, Mutate
<1> QED BY <1>1, <1>3, <1>4, <1>6, <1>7

-----------------------------------------------------------------------------
(***************************************************************************)
(* len.                                                                    *)
(***************************************************************************)

LEMMA LiveFinite == ASSUME TableTypeOK PROVE IsFiniteSet(LiveIndices)
<1>1. IsFiniteSet(0 .. capacity - 1)
  BY FS_Interval DEF TableTypeOK
<1> QED BY <1>1, FS_Subset DEF LiveIndices

LEMMA LenInit == Init => LenCountsLive
<1> SUFFICES ASSUME Init PROVE LenCountsLive
  OBVIOUS
<1>1. LiveIndices = {} /\ len = 0
  BY DEF Init, LiveIndices
<1> QED BY <1>1, FS_EmptySet DEF LenCountsLive

LEMMA LenNext == TableTypeOK /\ FreeListExact /\ LenCountsLive /\ [Next]_vars => LenCountsLive'
<1> SUFFICES ASSUME TableTypeOK, FreeListExact, LenCountsLive, AnyStep PROVE LenCountsLive'
  BY StepKinds
<1> USE LiveFinite, FS_CardinalityType
<1>1. ASSUME NEW v \in Value, AllocReuse(v) PROVE LenCountsLive'
  <2>1. Cardinality(LiveIndices') = Cardinality(LiveIndices) + 1
    BY <1>1, ReuseEffect, FS_AddElement
  <2> QED BY <1>1, <2>1 DEF AllocReuse, LenCountsLive
<1>2. ASSUME NEW v \in Value, AllocAppend(v) PROVE LenCountsLive'
  <2>1. capacity \notin LiveIndices
    BY <1>2, AppendEffect DEF LiveIndices
  <2>2. Cardinality(LiveIndices') = Cardinality(LiveIndices) + 1
    BY <1>2, <2>1, AppendEffect, FS_AddElement
  <2> QED BY <1>2, <2>2 DEF AllocAppend, LenCountsLive
<1>3. ASSUME DropStep PROVE LenCountsLive'
  <2>1. PICK h, kids, parents : Freeable(h) /\ Vacate(h, kids, parents)
    BY <1>3 DEF DropStep
  <2>2. Cardinality(LiveIndices') = Cardinality(LiveIndices) - 1
    BY <2>1, DropEffect, FS_RemoveElement
  <2> QED BY <2>1, <2>2 DEF Vacate, LenCountsLive
<1>4. ASSUME NEW h \in issued, NEW v \in Value, Mutate(h, v) PROVE LenCountsLive'
  BY <1>4, MutateEffect DEF Mutate, LenCountsLive
<1>5. ASSUME UNCHANGED <<slots, capacity, len>> PROVE LenCountsLive'
  BY <1>5 DEF LenCountsLive, LiveIndices
<1> QED
  BY <1>1, <1>2, <1>3, <1>4, <1>5 DEF AnyStep, QuietStep, Borrow, ReleaseBorrow, AddChild

\* len() is the number of live resources, in every behaviour.
THEOREM LenCountsLiveAlways == Spec => []LenCountsLive
<1>1. Init => TableTypeOK /\ FreeListExact /\ LenCountsLive
  BY InitTypes, FreeListInit, LenInit
<1>2. TableTypeOK /\ FreeListExact /\ LenCountsLive /\ [Next]_vars
          => (TableTypeOK /\ FreeListExact /\ LenCountsLive)'
  BY NextTypes, FreeListNext, LenNext
<1> QED BY <1>1, <1>2, PTL DEF Spec

-----------------------------------------------------------------------------
(***************************************************************************)
(* Borrows.                                                                *)
(***************************************************************************)

Borrowing == IsFiniteSet(leases) /\ BorrowsHold

LEMMA LeaseIndices ==
    ASSUME TableTypeOK, NEW l \in leases
    PROVE  l.handle \in RawHandle /\ l.handle.index \in Index
BY DEF TableTypeOK, Lease, RawHandle

LEMMA LeasesOnFinite ==
    ASSUME IsFiniteSet(leases), NEW i
    PROVE  IsFiniteSet(LeasesOn(i)) /\ Cardinality(LeasesOn(i)) \in Nat
BY FS_Subset, FS_CardinalityType DEF LeasesOn

LEMMA BorrowInit == Init => Borrowing
<1> SUFFICES ASSUME Init PROVE Borrowing
  OBVIOUS
<1>1. leases = {} /\ \A i \in Index : LeasesOn(i) = {} /\ borrowCounts[i] = 0
  BY DEF Init, LeasesOn
<1> QED BY <1>1, FS_EmptySet DEF Borrowing, BorrowsHold

\* Where no borrow changes, it is enough that borrowed handles stay good.
LEMMA BorrowFrame ==
    ASSUME Borrowing, UNCHANGED <<leases, borrowCounts>>, \A l \in leases : Valid(l.handle)'
    PROVE  Borrowing'
BY DEF Borrowing, BorrowsHold, LeasesOn

LEMMA BorrowDrop == ASSUME TableTypeOK, Borrowing, DropStep PROVE Borrowing'
<1>1. PICK h, kids, parents : Freeable(h) /\ Vacate(h, kids, parents)
  BY DEF DropStep
<1>2. h.index \in Index /\ borrowCounts[h.index] = 0
  BY <1>1, DropEffect DEF Freeable
<1>3. LeasesOn(h.index) = {}
  BY <1>2, LeasesOnFinite, FS_EmptySet DEF Borrowing, BorrowsHold
<1>4. UNCHANGED <<leases, capacity>> /\ borrowCounts' = borrowCounts
  BY <1>1, <1>2 DEF Vacate, TableTypeOK
<1>5. ASSUME NEW l \in leases PROVE Valid(l.handle)'
  <2>1. l.handle.index # h.index /\ Valid(l.handle)
    BY <1>3 DEF LeasesOn, Borrowing, BorrowsHold
  <2>2. slots'[l.handle.index] = slots[l.handle.index]
    BY <1>1, <2>1, LeaseIndices, DropEffect
  <2> QED BY <1>4, <2>1, <2>2 DEF Valid
<1> QED BY <1>4, <1>5, BorrowFrame

LEMMA BorrowAdd ==
    ASSUME TableTypeOK, Borrowing, NEW b \in Borrower, NEW h \in issued, Borrow(b, h)
    PROVE  Borrowing'
<1> DEFINE l == [borrower |-> b, handle |-> h]
<1>1. l \notin leases /\ leases' = leases \union {l} /\ h.index \in Index
  BY DEF Borrow, TableTypeOK, RawHandle
<1>2. IsFiniteSet(leases')
  BY <1>1, FS_AddElement DEF Borrowing
<1>3. \A m \in leases' : Valid(m.handle)'
  BY <1>1 DEF Borrow, Borrowing, BorrowsHold, Valid
<1>4. ASSUME NEW i \in Index PROVE borrowCounts'[i] = Cardinality(LeasesOn(i)')
  <2>1. CASE i = h.index
    <3>1. LeasesOn(i)' = LeasesOn(i) \union {l} /\ l \notin LeasesOn(i)
      BY <1>1, <2>1 DEF LeasesOn
    <3>2. Cardinality(LeasesOn(i)') = Cardinality(LeasesOn(i)) + 1
      BY <3>1, LeasesOnFinite, FS_AddElement DEF Borrowing
    <3> QED BY <2>1, <3>2 DEF Borrow, Borrowing, BorrowsHold, TableTypeOK
  <2>2. CASE i # h.index
    <3>1. LeasesOn(i)' = LeasesOn(i)
      BY <1>1, <2>2 DEF LeasesOn
    <3> QED BY <2>2, <3>1 DEF Borrow, Borrowing, BorrowsHold, TableTypeOK
  <2> QED BY <2>1, <2>2
<1> QED BY <1>2, <1>3, <1>4 DEF Borrowing, BorrowsHold

LEMMA BorrowRelease ==
    ASSUME TableTypeOK, Borrowing, NEW l \in leases, ReleaseBorrow(l)
    PROVE  Borrowing'
<1> DEFINE h == l.handle
<1>1. leases' = leases \ {l} /\ h.index \in Index /\ Valid(h)
  BY LeaseIndices DEF ReleaseBorrow, Borrowing, BorrowsHold
<1>2. IsFiniteSet(leases')
  BY <1>1, FS_RemoveElement DEF Borrowing
<1>3. \A m \in leases' : Valid(m.handle)'
  BY <1>1 DEF ReleaseBorrow, Borrowing, BorrowsHold, Valid
<1>4. l \in LeasesOn(h.index)
  BY DEF LeasesOn
<1>5. borrowCounts[h.index] = Cardinality(LeasesOn(h.index)) /\ borrowCounts[h.index] > 0
  BY <1>1, <1>4, LeasesOnFinite, FS_EmptySet DEF Borrowing, BorrowsHold
<1>6. borrowCounts' = [borrowCounts EXCEPT ![h.index] = @ - 1]
  BY <1>1, <1>5 DEF ReleaseBorrow
<1>7. ASSUME NEW i \in Index PROVE borrowCounts'[i] = Cardinality(LeasesOn(i)')
  <2>1. CASE i = h.index
    <3>1. LeasesOn(i)' = LeasesOn(i) \ {l}
      BY <1>1 DEF LeasesOn
    <3>2. Cardinality(LeasesOn(i)') = Cardinality(LeasesOn(i)) - 1
      BY <2>1, <1>4, <3>1, LeasesOnFinite, FS_RemoveElement DEF Borrowing
    <3> QED BY <1>1, <1>5, <1>6, <2>1, <3>2 DEF TableTypeOK
  <2>2. CASE i # h.index
    <3>1. LeasesOn(i)' = LeasesOn(i)
      BY <1>1, <2>2 DEF LeasesOn
    <3> QED BY <1>1, <1>6, <2>2, <3>1 DEF Borrowing, BorrowsHold, TableTypeOK
  <2> QED BY <2>1, <2>2
<1> QED BY <1>2, <1>3, <1>7 DEF Borrowing, BorrowsHold

LEMMA BorrowNext ==
    TableTypeOK /\ FreeListExact /\ Borrowing /\ [Next]_vars => Borrowing'
<1> SUFFICES ASSUME TableTypeOK, FreeListExact, Borrowing, AnyStep PROVE Borrowing'
  BY StepKinds
<1>1. ASSUME NEW v \in Value, AllocReuse(v) PROVE Borrowing'
  <2>1. ASSUME NEW l \in leases PROVE Valid(l.handle)'
    <3>1. Valid(l.handle) /\ l.handle.index \in LiveIndices /\ l.handle.index \in Index
      BY ValidIndex DEF Borrowing, BorrowsHold
    <3>2. slots'[l.handle.index] = slots[l.handle.index]
      BY <1>1, <3>1, ReuseEffect
    <3> QED BY <1>1, <3>1, <3>2 DEF AllocReuse, Valid
  <2> QED BY <1>1, <2>1, BorrowFrame DEF AllocReuse
<1>2. ASSUME NEW v \in Value, AllocAppend(v) PROVE Borrowing'
  <2>1. ASSUME NEW l \in leases PROVE Valid(l.handle)'
    <3>1. Valid(l.handle) /\ l.handle.index \in 0 .. capacity - 1 /\ l.handle.index \in Index
      BY LeaseIndices DEF Borrowing, BorrowsHold, Valid
    <3>2. slots'[l.handle.index] = slots[l.handle.index]
      BY <1>2, <3>1, AppendEffect
    <3>3. l.handle.index \in 0 .. capacity' - 1
      BY <1>2, <3>1, AppendEffect DEF TableTypeOK
    <3> QED BY <3>1, <3>2, <3>3 DEF Valid
  <2> QED BY <1>2, <2>1, BorrowFrame DEF AllocAppend
<1>3. ASSUME DropStep PROVE Borrowing'
  BY <1>3, BorrowDrop
<1>4. ASSUME NEW h \in issued, NEW v \in Value, Mutate(h, v) PROVE Borrowing'
  <2>1. ASSUME NEW l \in leases PROVE Valid(l.handle)'
    <3>1. Valid(l.handle) /\ l.handle.index \in Index
      BY LeaseIndices DEF Borrowing, BorrowsHold
    <3> QED BY <1>4, <3>1, MutateEffect DEF Mutate, Valid
  <2> QED BY <1>4, <2>1, BorrowFrame DEF Mutate
<1>5. ASSUME UNCHANGED <<slots, capacity, leases, borrowCounts>> PROVE Borrowing'
  BY <1>5, BorrowFrame DEF Borrowing, BorrowsHold, Valid
<1> QED
  BY <1>1, <1>2, <1>3, <1>4, <1>5, BorrowAdd, BorrowRelease DEF AnyStep, QuietStep, AddChild

\* A borrowed resource survives until it is released, and counts are exact.
THEOREM BorrowsHoldAlways == Spec => []BorrowsHold
<1>1. Init => TableTypeOK /\ FreeListExact /\ Borrowing
  BY InitTypes, FreeListInit, BorrowInit
<1>2. TableTypeOK /\ FreeListExact /\ Borrowing /\ [Next]_vars => (TableTypeOK /\ FreeListExact /\ Borrowing)'
  BY NextTypes, FreeListNext, BorrowNext
<1>3. Borrowing => BorrowsHold
  BY DEF Borrowing
<1> QED BY <1>1, <1>2, <1>3, PTL DEF Spec

-----------------------------------------------------------------------------
(***************************************************************************)
(* Handles that were retired.  Where the bump of a generation panics       *)
(* instead of wrapping, no handle is ahead of its slot, and one that is    *)
(* level with its slot is live: a handle that is not valid is behind.      *)
(***************************************************************************)

NotAhead(h) == /\ h.index \in 0 .. capacity - 1
               /\ h.generation <= slots[h.index].generation
               /\ h.generation = slots[h.index].generation => slots[h.index].live
IssuedBehind == \A h \in issued : NotAhead(h)

LEMMA SlotGeneration ==
    ASSUME TableTypeOK, NEW i \in Index
    PROVE  slots[i].generation \in Generation /\ slots[i].generation \in Nat
BY SizeAssumption DEF TableTypeOK, Slot, Generation

LEMMA IssuedIndex ==
    ASSUME TableTypeOK, NEW h \in issued
    PROVE  h \in RawHandle /\ h.index \in Index /\ h.generation \in Generation /\ h.generation \in Nat
BY SizeAssumption DEF TableTypeOK, RawHandle, Generation

LEMMA BumpUp ==
    ASSUME OverflowChecks, NEW h, h.generation \in Generation, ~ BumpPanics(h)
    PROVE  BumpGeneration(h.generation) = h.generation + 1
<1>1. h.generation \in Nat /\ h.generation < MaxGeneration
  BY SizeAssumption DEF BumpPanics, Generation
<1> QED BY <1>1, SizeAssumption DEF BumpGeneration

\* No generation goes back, and a slot whose generation stays does not die.
LEMMA GenerationsGrow ==
    ASSUME OverflowChecks, TableTypeOK, FreeListExact, AnyStep, NEW i \in 0 .. capacity - 1
    PROVE  /\ i \in 0 .. capacity' - 1
           /\ slots'[i].generation >= slots[i].generation
           /\ slots'[i].generation = slots[i].generation /\ slots[i].live => slots'[i].live
<1>0. i \in Index /\ slots[i].generation \in Nat /\ capacity \in Int
  BY IndicesInIndex, SlotGeneration DEF TableTypeOK
<1>1. ASSUME NEW v \in Value, AllocReuse(v)
      PROVE  /\ capacity' = capacity /\ slots'[i].generation = slots[i].generation
             /\ slots[i].live => slots'[i].live
  BY <1>0, <1>1, ReuseEffect DEF AllocReuse
<1>2. ASSUME NEW v \in Value, AllocAppend(v)
      PROVE  capacity' = capacity + 1 /\ slots'[i] = slots[i]
  BY <1>0, <1>2, AppendEffect
<1>3. ASSUME DropStep
      PROVE  /\ capacity' = capacity
             /\ \/ slots'[i] = slots[i]
                \/ slots'[i].generation = slots[i].generation + 1
  <2>1. PICK h, kids, parents : Freeable(h) /\ ~ BumpPanics(h) /\ Vacate(h, kids, parents)
    BY <1>3 DEF DropStep
  <2>2. CASE i = h.index
    <3>1. h.generation = slots[i].generation /\ h.generation \in Generation
      BY <1>0, <2>1, <2>2, DropEffect, SlotGeneration
    <3>2. BumpGeneration(h.generation) = h.generation + 1
      BY <2>1, <3>1, BumpUp
    <3>3. slots'[i].generation = BumpGeneration(h.generation)
      BY <2>1, <2>2, <3>1, DropEffect
    <3> QED BY <2>1, <3>1, <3>2, <3>3 DEF Vacate
  <2>3. CASE i # h.index
    BY <1>0, <2>1, <2>3, DropEffect DEF Vacate
  <2> QED BY <2>2, <2>3
<1>4. ASSUME NEW h \in issued, NEW v \in Value, Mutate(h, v)
      PROVE  /\ capacity' = capacity /\ slots'[i].generation = slots[i].generation
             /\ slots'[i].live = slots[i].live
  BY <1>0, <1>4, MutateEffect DEF Mutate
<1> DEFINE Grown == /\ i \in 0 .. capacity' - 1
                    /\ slots'[i].generation >= slots[i].generation
                    /\ slots'[i].generation = slots[i].generation /\ slots[i].live
                           => slots'[i].live
<1>5. ASSUME UNCHANGED <<slots, capacity>> PROVE Grown
  BY <1>0, <1>5
<1>6. ASSUME NEW v \in Value, AllocReuse(v) \/ AllocAppend(v) PROVE Grown
  BY <1>0, <1>1, <1>2, <1>6
<1>7. ASSUME DropStep PROVE Grown
  BY <1>0, <1>3, <1>7
<1>8. ASSUME NEW h \in issued, NEW v \in Value, Mutate(h, v) PROVE Grown
  BY <1>0, <1>4, <1>8
<1> HIDE DEF Grown
<1>9. Grown
  BY <1>5, <1>6, <1>7, <1>8 DEF AnyStep, QuietStep, Borrow, ReleaseBorrow, AddChild
<1> QED BY <1>9 DEF Grown

LEMMA BehindInit == Init => IssuedBehind
BY DEF Init, IssuedBehind

\* A handle that was behind its slot, or level with a live one, stays so.
LEMMA BehindKept ==
    ASSUME OverflowChecks, TableTypeOK, TableTypeOK', FreeListExact, AnyStep,
           NEW h \in issued, NotAhead(h)
    PROVE  NotAhead(h)'
<1>1. h.index \in Index /\ h.generation \in Nat /\ h.index \in 0 .. capacity - 1
  BY IssuedIndex DEF NotAhead
<1>2. slots[h.index].generation \in Nat /\ slots'[h.index].generation \in Nat
  <2>1. slots'[h.index].generation \in Generation
    BY <1>1 DEF TableTypeOK, Slot
  <2> QED BY <1>1, <2>1, SlotGeneration, SizeAssumption DEF Generation
<1>3. /\ h.index \in 0 .. capacity' - 1
      /\ slots'[h.index].generation >= slots[h.index].generation
      /\ slots'[h.index].generation = slots[h.index].generation /\ slots[h.index].live
             => slots'[h.index].live
  BY <1>1, GenerationsGrow
<1> QED BY <1>1, <1>2, <1>3 DEF NotAhead

LEMMA BehindNext ==
    ASSUME OverflowChecks
    PROVE  TableTypeOK /\ FreeListExact /\ IssuedBehind /\ [Next]_vars => IssuedBehind'
<1> SUFFICES ASSUME TableTypeOK, FreeListExact, IssuedBehind, AnyStep, TableTypeOK'
             PROVE  IssuedBehind'
  BY StepKinds, NextTypes
<1>1. ASSUME NEW h \in issued PROVE NotAhead(h)'
  BY BehindKept DEF IssuedBehind
<1>2. ASSUME NEW v \in Value, AllocReuse(v) PROVE IssuedBehind'
  <2> DEFINE new == Handle(freeHead, slots[freeHead].generation)
  <2>1. /\ freeHead \in 0 .. capacity' - 1 /\ slots'[freeHead].live
        /\ slots'[freeHead].generation = slots[freeHead].generation
        /\ slots[freeHead].generation \in Nat
    BY <1>2, ReuseEffect, SlotGeneration DEF FreeIndices, AllocReuse
  <2>2. new.index = freeHead /\ new.generation = slots[freeHead].generation
    BY DEF Handle
  <2>3. issued' = issued \union {new}
    BY <1>2 DEF AllocReuse
  <2>4. ASSUME NEW h \in issued' PROVE NotAhead(h)'
    <3>1. CASE h \in issued
      BY <1>1, <3>1
    <3>2. CASE h = new
      BY <2>1, <2>2, <3>2 DEF NotAhead
    <3> QED BY <2>3, <3>1, <3>2
  <2> QED BY <2>4 DEF IssuedBehind
<1>3. ASSUME NEW v \in Value, AllocAppend(v) PROVE IssuedBehind'
  <2> DEFINE new == Handle(capacity, 0)
  <2>1. /\ capacity \in 0 .. capacity' - 1 /\ slots'[capacity].live
        /\ slots'[capacity].generation = 0
    <3>1. capacity \in Nat
      BY SizeAssumption DEF TableTypeOK
    <3> QED BY <1>3, <3>1, AppendEffect
  <2>2. new.index = capacity /\ new.generation = 0
    BY DEF Handle
  <2>3. issued' = issued \union {new}
    BY <1>3 DEF AllocAppend
  <2>4. ASSUME NEW h \in issued' PROVE NotAhead(h)'
    <3>1. CASE h \in issued
      BY <1>1, <3>1
    <3>2. CASE h = new
      BY <2>1, <2>2, <3>2 DEF NotAhead
    <3> QED BY <2>3, <3>1, <3>2
  <2> QED BY <2>4 DEF IssuedBehind
<1>4. ASSUME UNCHANGED issued PROVE IssuedBehind'
  BY <1>1, <1>4 DEF IssuedBehind
<1> QED
  BY <1>2, <1>3, <1>4
  DEF AnyStep, DropStep, Vacate, QuietStep, Mutate, Borrow, ReleaseBorrow, AddChild

\* A handle that is not valid is behind its slot, and stays there.
LEMMA RetiredStep ==
    ASSUME OverflowChecks, TableTypeOK, TableTypeOK', FreeListExact, IssuedBehind, AnyStep,
           NEW h \in issued, ~ Valid(h)
    PROVE  ~ Valid(h)'
<1>1. NotAhead(h) /\ h.index \in Index /\ h.generation \in Nat /\ h.index \in 0 .. capacity - 1
  BY IssuedIndex DEF IssuedBehind, NotAhead
<1>2. slots[h.index].generation \in Nat /\ h.generation < slots[h.index].generation
  BY <1>1, SlotGeneration DEF NotAhead, Valid
<1>3. slots'[h.index].generation >= slots[h.index].generation
  BY <1>1, GenerationsGrow
<1>4. slots'[h.index].generation \in Nat
  <2>1. slots'[h.index].generation \in Generation
    BY <1>1 DEF TableTypeOK, Slot
  <2> QED BY <2>1, SizeAssumption DEF Generation
<1>5. slots'[h.index].generation # h.generation
  BY <1>1, <1>2, <1>3, <1>4
<1> QED BY <1>5 DEF Valid

\* Where overflow panics, a retired handle is refused for ever.
THEOREM RetiredStayRetiredAlways == ASSUME OverflowChecks PROVE Spec => RetiredStayRetired
<1>1. Init => TableTypeOK /\ FreeListExact /\ IssuedBehind
  BY InitTypes, FreeListInit, BehindInit
<1>2. TableTypeOK /\ FreeListExact /\ IssuedBehind /\ [Next]_vars
          => (TableTypeOK /\ FreeListExact /\ IssuedBehind)'
  BY NextTypes, FreeListNext, BehindNext
<1>3. TableTypeOK /\ TableTypeOK' /\ FreeListExact /\ IssuedBehind /\ [Next]_vars
          => [\A h \in issued : ~ Valid(h) => ~ Valid(h)']_vars
  BY RetiredStep, StepKinds
<1> QED BY <1>1, <1>2, <1>3, PTL DEF Spec, RetiredStayRetired

-----------------------------------------------------------------------------
(***************************************************************************)
(* The table implements the store.                                         *)
(***************************************************************************)

LiveIssued == LiveHandles \subseteq issued

Implementing == FreeListExact /\ Borrowing /\ IssuedBehind /\ LiveIssued

LEMMA HandleParts == \A i, g : Handle(i, g).index = i /\ Handle(i, g).generation = g
BY DEF Handle

LEMMA RawHandleParts == \A h \in RawHandle : h = Handle(h.index, h.generation)
BY DEF RawHandle, Handle

\* The handles in use are the valid ones among those of the right type.
LEMMA LiveHandlesValid ==
    ASSUME TableTypeOK
    PROVE  LiveHandles = {h \in RawHandle : Valid(h)}
<1>1. ASSUME NEW i \in LiveIndices
      PROVE  Handle(i, slots[i].generation) \in RawHandle /\ Valid(Handle(i, slots[i].generation))
  <2>1. i \in Index /\ slots[i].live /\ i \in 0 .. capacity - 1
    BY IndicesInIndex DEF LiveIndices
  <2>2. slots[i].generation \in Generation
    BY <2>1, SlotGeneration
  <2> QED BY <2>1, <2>2, HandleParts DEF Valid, Handle, RawHandle
<1>2. ASSUME NEW h \in RawHandle, Valid(h) PROVE h \in LiveHandles
  BY <1>2, ValidIndex, RawHandleParts DEF LiveHandles
<1> QED BY <1>1, <1>2 DEF LiveHandles

LEMMA LiveIssuedNext ==
    ASSUME TableTypeOK, TableTypeOK', FreeListExact, LiveIssued, AnyStep
    PROVE  LiveIssued'
<1>1. \A i \in LiveIndices : Handle(i, slots[i].generation) \in issued
  BY DEF LiveIssued, LiveHandles
<1>2. issued \subseteq issued'
  BY DEF AnyStep, AllocReuse, AllocAppend, Mutate, DropStep, Vacate, QuietStep, Borrow,
         ReleaseBorrow, AddChild
<1>3. SUFFICES \A i \in LiveIndices' : Handle(i, slots'[i].generation) \in issued'
  BY DEF LiveIssued, LiveHandles
<1>4. ASSUME NEW v \in Value, AllocReuse(v), NEW i \in LiveIndices'
      PROVE  Handle(i, slots'[i].generation) \in issued'
  <2>1. CASE i = freeHead
    <3>1. slots'[i].generation = slots[i].generation
      BY <1>4, <2>1, ReuseEffect
    <3>2. Handle(freeHead, slots[freeHead].generation) \in issued'
      BY <1>4 DEF AllocReuse
    <3> QED BY <2>1, <3>1, <3>2
  <2>2. CASE i \in LiveIndices /\ i # freeHead
    BY <1>1, <1>2, <1>4, <2>2, ReuseEffect, IndicesInIndex DEF LiveIndices
  <2> QED BY <1>4, <2>1, <2>2, ReuseEffect
<1>5. ASSUME NEW v \in Value, AllocAppend(v), NEW i \in LiveIndices'
      PROVE  Handle(i, slots'[i].generation) \in issued'
  <2>1. CASE i = capacity
    <3>1. slots'[i].generation = 0
      BY <1>5, <2>1, AppendEffect
    <3>2. Handle(capacity, 0) \in issued'
      BY <1>5 DEF AllocAppend
    <3> QED BY <2>1, <3>1, <3>2
  <2>2. CASE i \in LiveIndices /\ i # capacity
    BY <1>1, <1>2, <1>5, <2>2, AppendEffect, IndicesInIndex DEF LiveIndices
  <2> QED BY <1>5, <2>1, <2>2, AppendEffect
<1>6. ASSUME DropStep, NEW i \in LiveIndices'
      PROVE  Handle(i, slots'[i].generation) \in issued'
  <2>1. PICK h, kids, parents : Freeable(h) /\ Vacate(h, kids, parents)
    BY <1>6 DEF DropStep
  <2>2. i \in LiveIndices /\ i # h.index /\ i \in Index
    BY <1>6, <2>1, DropEffect, IndicesInIndex DEF LiveIndices
  <2>3. slots'[i] = slots[i]
    BY <2>1, <2>2, DropEffect
  <2> QED BY <1>1, <1>2, <2>2, <2>3
<1>7. ASSUME NEW h \in issued, NEW v \in Value, Mutate(h, v), NEW i \in LiveIndices'
      PROVE  Handle(i, slots'[i].generation) \in issued'
  <2>1. i \in LiveIndices /\ i \in Index
    BY <1>7, MutateEffect, IndicesInIndex DEF LiveIndices
  <2> QED BY <1>1, <1>2, <1>7, <2>1, MutateEffect
<1>8. ASSUME UNCHANGED <<slots, capacity, issued>>, NEW i \in LiveIndices'
      PROVE  Handle(i, slots'[i].generation) \in issued'
  BY <1>1, <1>8 DEF LiveIndices
<1> QED
  BY <1>4, <1>5, <1>6, <1>7, <1>8 DEF AnyStep, QuietStep, Borrow, ReleaseBorrow, AddChild

LEMMA ImplementingInit == Init => TableTypeOK /\ Implementing
<1>1. Init => LiveIssued
  BY DEF Init, LiveIssued, LiveHandles, LiveIndices
<1> QED BY <1>1, InitTypes, FreeListInit, BorrowInit, BehindInit DEF Implementing

LEMMA ImplementingNext ==
    ASSUME OverflowChecks
    PROVE  TableTypeOK /\ Implementing /\ [Next]_vars => (TableTypeOK /\ Implementing)'
<1> SUFFICES ASSUME TableTypeOK, Implementing, [Next]_vars PROVE (TableTypeOK /\ Implementing)'
  OBVIOUS
<1>1. TableTypeOK' /\ FreeListExact' /\ Borrowing' /\ IssuedBehind'
  BY NextTypes, FreeListNext, BorrowNext, BehindNext DEF Implementing
<1>2. LiveIssued'
  BY <1>1, StepKinds, LiveIssuedNext DEF Implementing
<1> QED BY <1>1, <1>2 DEF Implementing

LEMMA StoreInit == Init => Store!Init
<1> SUFFICES ASSUME Init PROVE Store!Init
  OBVIOUS
<1>1. LiveHandles = {} /\ Retired = {}
  BY DEF Init, LiveHandles, LiveIndices, Retired
<1> QED BY <1>1 DEF Init, Store!Init, Behind

\* alloc maps to the creation of a resource under a handle never given out.
LEMMA StoreCreate ==
    ASSUME TableTypeOK, TableTypeOK', NEW new \in RawHandle, NEW v \in Value,
           new \notin issued, issued' = issued \union {new},
           LiveIssued, Valid(new)', slots'[new.index].value = v,
           \A h \in issued : Valid(h)' = Valid(h),
           \A i \in LiveIndices : slots'[i] = slots[i],
           LiveHandles' = LiveHandles \union {new}, leases' = leases
    PROVE  Store!Create(new, v)
<1>1. new \notin LiveHandles \union Retired /\ Retired' = Retired
  BY DEF LiveIssued, Retired
<1>2. \A h \in LiveHandles : h # new /\ slots'[h.index].value = slots[h.index].value
  BY <1>1, HandleParts DEF LiveHandles
<1>3. Behind' = [k \in LiveHandles \union {new} |-> IF k = new THEN v ELSE Behind[k]]
  BY <1>2 DEF Behind
<1> QED BY <1>1, <1>3 DEF Store!Create, Behind

\* The handle of a reused slot is new: the slot was dead at this generation.
LEMMA StoreReuse ==
    ASSUME TableTypeOK, TableTypeOK', Implementing, NEW v \in Value, AllocReuse(v)
    PROVE  \E new \in RawHandle : Store!Create(new, v)
<1> PICK new \in RawHandle : new = Handle(freeHead, slots[freeHead].generation)
  BY ReuseEffect, SlotGeneration DEF Implementing, RawHandle, Handle
<1>1. /\ new.index = freeHead /\ freeHead \in Index /\ freeHead \in 0 .. capacity - 1
      /\ new.generation = slots[freeHead].generation
      /\ freeHead \notin LiveIndices /\ ~ slots[freeHead].live
  BY ReuseEffect, HandleParts DEF Implementing, FreeIndices
<1>2. new \notin issued
  BY <1>1 DEF Implementing, IssuedBehind, NotAhead
<1>3. /\ slots' = [slots EXCEPT ![freeHead] = Occupied(v, slots[freeHead].generation)]
      /\ issued' = issued \union {new} /\ leases' = leases /\ capacity' = capacity
  BY DEF AllocReuse
<1>4. /\ slots'[freeHead].live /\ slots'[freeHead].value = v
      /\ slots'[freeHead].generation = slots[freeHead].generation
      /\ \A i \in Index \ {freeHead} : slots'[i] = slots[i]
  BY <1>1, <1>3 DEF TableTypeOK, Occupied
<1>5. Valid(new)'
  BY <1>1, <1>3, <1>4 DEF Valid
<1>6. ASSUME NEW h \in issued PROVE Valid(h)' = Valid(h)
  <2>1. h.index = freeHead => h.generation # slots[freeHead].generation
    BY <1>1, <1>2, IssuedIndex, RawHandleParts
  <2>2. h.index = freeHead => ~ Valid(h) /\ ~ Valid(h)'
    BY <1>4, <2>1 DEF Valid
  <2>3. h.index # freeHead => slots'[h.index] = slots[h.index]
    BY <1>4, IssuedIndex
  <2> QED BY <1>3, <2>2, <2>3 DEF Valid
<1>7. \A i \in LiveIndices : slots'[i] = slots[i]
  BY <1>1, <1>4, IndicesInIndex DEF LiveIndices
<1>8. LiveHandles' = LiveHandles \union {new}
  <2>1. LiveIndices' = LiveIndices \union {freeHead}
    BY ReuseEffect DEF Implementing
  <2> QED BY <1>1, <1>4, <1>7, <2>1, RawHandleParts DEF LiveHandles
<1> QED BY <1>1, <1>2, <1>3, <1>4, <1>5, <1>6, <1>7, <1>8, StoreCreate DEF Implementing

LEMMA StoreAppend ==
    ASSUME TableTypeOK, TableTypeOK', Implementing, NEW v \in Value, AllocAppend(v)
    PROVE  \E new \in RawHandle : Store!Create(new, v)
<1>0. capacity \in Index /\ 0 \in Generation
  BY AppendEffect, SizeAssumption DEF Generation
<1> PICK new \in RawHandle : new = Handle(capacity, 0)
  BY <1>0 DEF RawHandle, Handle
<1>1. /\ new.index = capacity /\ new.generation = 0
      /\ capacity \notin 0 .. capacity - 1 /\ capacity \in Nat
  BY AppendEffect, HandleParts, SizeAssumption DEF TableTypeOK
<1>2. new \notin issued
  BY <1>1 DEF Implementing, IssuedBehind, NotAhead
<1>3. /\ slots' = [slots EXCEPT ![capacity] = Occupied(v, 0)]
      /\ issued' = issued \union {new} /\ leases' = leases /\ capacity' = capacity + 1
  BY DEF AllocAppend
<1>4. /\ slots'[capacity].live /\ slots'[capacity].value = v /\ slots'[capacity].generation = 0
      /\ \A i \in Index \ {capacity} : slots'[i] = slots[i]
  BY <1>0, <1>3 DEF TableTypeOK, Occupied
<1>5. Valid(new)'
  BY <1>1, <1>3, <1>4 DEF Valid
<1>6. ASSUME NEW h \in issued PROVE Valid(h)' = Valid(h)
  <2>1. h.index \in 0 .. capacity - 1 /\ h.index \in Index
    BY IssuedIndex DEF Implementing, IssuedBehind, NotAhead
  <2>2. slots'[h.index] = slots[h.index] /\ h.index \in 0 .. capacity' - 1
    BY <1>1, <1>3, <1>4, <2>1
  <2> QED BY <2>1, <2>2 DEF Valid
<1>7. \A i \in LiveIndices : slots'[i] = slots[i]
  BY <1>1, <1>4, IndicesInIndex DEF LiveIndices
<1>8. LiveHandles' = LiveHandles \union {new}
  <2>1. LiveIndices' = LiveIndices \union {capacity}
    BY AppendEffect
  <2> QED BY <1>1, <1>4, <1>7, <2>1, RawHandleParts DEF LiveHandles
<1> QED BY <1>1, <1>2, <1>3, <1>4, <1>5, <1>6, <1>7, <1>8, StoreCreate DEF Implementing

LEMMA StoreUpdate ==
    ASSUME TableTypeOK, TableTypeOK', Implementing,
           NEW h \in issued, NEW v \in Value, Mutate(h, v)
    PROVE  h \in LiveHandles /\ Store!Update(h, v)
<1>1. h \in RawHandle /\ h.index \in Index /\ h \in LiveHandles
  BY IssuedIndex, LiveHandlesValid DEF Mutate
<1>2. /\ slots'[h.index].value = v
      /\ \A i \in Index \ {h.index} : slots'[i] = slots[i]
  BY <1>1 DEF Mutate, Occupied, TableTypeOK
<1>3. \A k \in issued : Valid(k)' = Valid(k)
  BY MutateEffect, IssuedIndex DEF Mutate, Valid
<1>4. LiveHandles' = LiveHandles
  <2>1. \A i \in LiveIndices : slots'[i].generation = slots[i].generation
    BY MutateEffect, IndicesInIndex DEF LiveIndices
  <2> QED BY <2>1, MutateEffect DEF LiveHandles
<1>5. \A k \in LiveHandles : /\ k.index \in Index
                             /\ k.index = h.index => k = h
  BY <1>1, LiveHandlesValid, RawHandleParts, ValidIndex DEF Mutate, Valid
<1>6. Behind' = [Behind EXCEPT ![h] = v]
  BY <1>1, <1>2, <1>4, <1>5 DEF Behind
<1>7. UNCHANGED <<Retired, leases>>
  BY <1>3 DEF Retired, Mutate
<1> QED BY <1>1, <1>6, <1>7 DEF Store!Update

LEMMA StoreDrop ==
    ASSUME TableTypeOK, TableTypeOK', Implementing, DropStep, OverflowChecks
    PROVE  \E h \in LiveHandles : Store!Drop(h)
<1>1. PICK h0, kids, parents : Freeable(h0) /\ ~ BumpPanics(h0) /\ Vacate(h0, kids, parents)
  BY DEF DropStep
<1>2. PICK h \in RawHandle : h = Handle(h0.index, h0.generation)
  BY <1>1, ValidIndex DEF Freeable, RawHandle, Handle
<1>3. /\ h.index = h0.index /\ h.generation = h0.generation
      /\ Valid(h) /\ h \in LiveHandles /\ h \in issued
      /\ h.index \in Index /\ borrowCounts[h.index] = 0
  BY <1>1, <1>2, HandleParts, LiveHandlesValid, DropEffect
  DEF Freeable, Valid, Implementing, LiveIssued
<1>4. LeasesOn(h.index) = {}
  BY <1>3, LeasesOnFinite, FS_EmptySet DEF Implementing, Borrowing, BorrowsHold
<1>5. ~ Store!Held(h)
  BY <1>4 DEF Store!Held, LeasesOn
<1>6. /\ \A i \in Index \ {h.index} : slots'[i] = slots[i]
      /\ ~ slots'[h.index].live
      /\ capacity' = capacity /\ issued' = issued /\ leases' = leases
  BY <1>1, <1>3, DropEffect DEF Vacate
<1>7. ~ Valid(h)'
  BY <1>6 DEF Valid
<1>8. ASSUME NEW k \in RawHandle, k # h PROVE Valid(k)' = Valid(k)
  <2>1. k.index \in Index
    BY DEF RawHandle
  <2>2. k.index # h.index => Valid(k)' = Valid(k)
    BY <1>6, <2>1 DEF Valid
  <2>3. k.index = h.index => ~ Valid(k) /\ ~ Valid(k)'
    BY <1>3, <1>6, <1>8, RawHandleParts DEF Valid
  <2> QED BY <2>2, <2>3 DEF Valid
<1>9. LiveHandles' = LiveHandles \ {h}
  <2>1. LiveIndices' = LiveIndices \ {h.index}
    BY <1>1, <1>3, DropEffect
  <2>2. \A i \in LiveIndices \ {h.index} : slots'[i] = slots[i]
    BY <1>6, IndicesInIndex DEF LiveIndices
  <2>3. h = Handle(h.index, slots[h.index].generation)
    BY <1>3, RawHandleParts DEF Valid
  <2> QED BY <2>1, <2>2, <2>3, HandleParts DEF LiveHandles
<1>10. Retired' = Retired \union {h}
  BY <1>3, <1>6, <1>7, <1>8, IssuedIndex DEF Retired
<1>11. Behind' = [k \in LiveHandles \ {h} |-> Behind[k]]
  <2>1. \A k \in LiveHandles \ {h} : slots'[k.index] = slots[k.index]
    BY <1>3, <1>6, LiveHandlesValid, RawHandleParts, ValidIndex DEF Valid
  <2> QED BY <1>9, <2>1 DEF Behind
<1> QED BY <1>3, <1>5, <1>6, <1>10, <1>11 DEF Store!Drop, Behind

LEMMA StoreStep ==
    ASSUME TableTypeOK, TableTypeOK', Implementing, AnyStep, OverflowChecks
    PROVE  [Store!Next]_(Store!storeVars)
<1> USE DEF Store!Next, Store!storeVars
<1>1. DOMAIN Behind = LiveHandles
  BY DEF Behind
<1>2. ASSUME NEW v \in Value, AllocReuse(v) \/ AllocAppend(v) PROVE Store!Next
  BY <1>2, StoreReuse, StoreAppend
<1>3. ASSUME NEW h \in issued, NEW v \in Value, Mutate(h, v) PROVE Store!Next
  BY <1>1, <1>3, StoreUpdate
<1>4. ASSUME DropStep PROVE Store!Next
  BY <1>1, <1>4, StoreDrop
<1>5. ASSUME UNCHANGED <<slots, capacity, issued>> PROVE UNCHANGED <<Behind, Retired>>
  BY <1>5 DEF Behind, LiveHandles, LiveIndices, Retired, Valid
<1>6. ASSUME NEW b \in Borrower, NEW h \in issued, Borrow(b, h) PROVE Store!Next
  <2>1. h \in LiveHandles
    BY <1>6, IssuedIndex, LiveHandlesValid DEF Borrow
  <2>2. Store!Acquire(b, h)
    BY <1>5, <1>6 DEF Store!Acquire, Borrow
  <2> QED BY <1>1, <2>1, <2>2
<1>7. ASSUME NEW l \in leases, ReleaseBorrow(l) PROVE Store!Next
  BY <1>5, <1>7 DEF Store!Release, ReleaseBorrow
<1>8. ASSUME UNCHANGED <<slots, capacity, issued, leases>> PROVE UNCHANGED Store!storeVars
  BY <1>5, <1>8
<1> QED
  BY <1>2, <1>3, <1>4, <1>6, <1>7, <1>8 DEF AnyStep, QuietStep, AddChild

\* Where overflow panics the table implements the store of resources.
THEOREM TableImplementsStore == ASSUME OverflowChecks PROVE Spec => ImplementsStore
<1>1. Init => TableTypeOK /\ Implementing /\ Store!Init
  BY ImplementingInit, StoreInit
<1>2. TableTypeOK /\ Implementing /\ [Next]_vars => (TableTypeOK /\ Implementing)'
  BY ImplementingNext
<1>3. TableTypeOK /\ TableTypeOK' /\ Implementing /\ [Next]_vars
          => [Store!Next]_(Store!storeVars)
  BY StepKinds, StoreStep
<1> QED BY <1>1, <1>2, <1>3, PTL DEF Spec, ImplementsStore, Store!Spec

-----------------------------------------------------------------------------
(***************************************************************************)
(* What a list of children keeps when one of them is detached.             *)
(***************************************************************************)

Less == {ij \in Nat \X Nat : ij[1] < ij[2]}

\* Induction over a set of numbers.
LEMMA NatSetInduction ==
    ASSUME NEW P \in SUBSET Nat, 0 \in P, \A n \in P : n + 1 \in P
    PROVE  P = Nat
<1> SUFFICES ASSUME Nat \ P # {} PROVE FALSE
  OBVIOUS
<1>1. IsWellFoundedOn(Less, Nat)
  BY NatLessThanWellFounded DEF Less, OpToRel
<1>2. PICK i \in Nat \ P : \A j \in Nat \ P : ~ (<<j, i>> \in Less)
  BY <1>1, WFMin, Zenon
<1>3. i # 0 /\ i - 1 \in Nat
  OBVIOUS
<1>4. <<i - 1, i>> \in Nat \X Nat /\ <<i - 1, i>>[1] < <<i - 1, i>>[2]
  BY <1>3
<1>5. i - 1 \notin Nat \ P
  BY <1>2, <1>4 DEF Less
<1> QED BY <1>3, <1>5

KeptBy(s, S, n, f) ==
    f = [i \in 0 .. n |-> IF i = 0 THEN <<>>
                          ELSE IF s[i] \in S THEN Append(f[i - 1], s[i])
                          ELSE f[i - 1]]

KeptOneByOne(s, S, n, f) ==
    /\ f[0] = <<>>
    /\ \A i \in 1 .. n : f[i] = IF s[i] \in S THEN Append(f[i - 1], s[i]) ELSE f[i - 1]

LEMMA KeptEquations ==
    ASSUME NEW s, NEW S, NEW n \in Nat, NEW f, KeptBy(s, S, n, f)
    PROVE  KeptOneByOne(s, S, n, f)
<1> DEFINE h == [i \in 0 .. n |-> IF i = 0 THEN <<>>
                                  ELSE IF s[i] \in S THEN Append(f[i - 1], s[i])
                                  ELSE f[i - 1]]
<1>1. f = h
  BY DEF KeptBy
<1>2. /\ h[0] = <<>>
      /\ \A i \in 1 .. n : h[i] = IF s[i] \in S THEN Append(f[i - 1], s[i]) ELSE f[i - 1]
  OBVIOUS
<1> HIDE DEF h
<1>3. f[0] = h[0] /\ \A i \in 1 .. n : f[i] = h[i]
  BY <1>1
<1> QED BY <1>2, <1>3 DEF KeptOneByOne

LEMMA KeptExists == ASSUME NEW s, NEW S, NEW n \in Nat PROVE \E f : KeptBy(s, S, n, f)
<1> DEFINE N == {m \in Nat : \E f : KeptBy(s, S, m, f)}
<1>1. 0 \in N
  <2>1. KeptBy(s, S, 0, [i \in 0 .. 0 |-> <<>>])
    BY DEF KeptBy
  <2> QED BY <2>1
<1>2. ASSUME NEW m \in N PROVE m + 1 \in N
  <2>1. PICK f : KeptBy(s, S, m, f)
    OBVIOUS
  <2>7. m \in Nat
    OBVIOUS
  <2>3. /\ f[0] = <<>>
        /\ \A i \in 1 .. m : f[i] = IF s[i] \in S THEN Append(f[i - 1], s[i]) ELSE f[i - 1]
    <3>1. KeptOneByOne(s, S, m, f)
      BY ONLY <2>1, <2>7, KeptEquations
    <3> QED BY ONLY <3>1 DEF KeptOneByOne
  <2> DEFINE g == [i \in 0 .. m + 1 |-> IF i <= m THEN f[i]
                                        ELSE IF s[i] \in S THEN Append(f[i - 1], s[i])
                                        ELSE f[i - 1]]
  <2>2. /\ \A i \in 0 .. m : g[i] = f[i]
        /\ g[m + 1] = IF s[m + 1] \in S THEN Append(f[m], s[m + 1]) ELSE f[m]
    OBVIOUS
  <2> DEFINE h == [i \in 0 .. m + 1 |-> IF i = 0 THEN <<>>
                                        ELSE IF s[i] \in S THEN Append(g[i - 1], s[i])
                                        ELSE g[i - 1]]
  <2>4. ASSUME NEW i \in 0 .. m + 1 PROVE g[i] = h[i]
    <3> HIDE DEF g
    <3>1. CASE i = 0
      BY <2>2, <2>3, <3>1
    <3>2. CASE i \in 1 .. m
      BY <2>2, <2>3, <3>2
    <3>3. CASE i = m + 1
      BY <2>2, <3>3
    <3> QED BY <3>1, <3>2, <3>3
  <2>5. g = h
    BY <2>4
  <2>6. KeptBy(s, S, m + 1, g)
    BY <2>5 DEF KeptBy
  <2> QED BY <2>6
<1>3. N = Nat
  BY <1>1, <1>2, NatSetInduction
<1> QED BY <1>3

LEMMA FilterIs ==
    ASSUME NEW s, NEW S, Len(s) \in Nat
    PROVE  \E f : KeptBy(s, S, Len(s), f) /\ Filter(s, S) = f[Len(s)]
<1>1. \E f : KeptBy(s, S, Len(s), f)
  BY KeptExists
<1> QED BY <1>1 DEF KeptBy, Filter

\* The filter keeps elements of the list.
LEMMA FilterType ==
    ASSUME NEW T, NEW s \in Seq(T), NEW S
    PROVE  Filter(s, S) \in Seq(T)
<1>1. Len(s) \in Nat /\ \A i \in 1 .. Len(s) : s[i] \in T
  OBVIOUS
<1>2. PICK n \in Nat : n = Len(s)
  BY <1>1
<1>3. PICK f : KeptBy(s, S, n, f) /\ Filter(s, S) = f[n]
  BY <1>1, <1>2, FilterIs
<1>4. /\ f[0] = <<>>
      /\ \A i \in 1 .. n : f[i] = IF s[i] \in S THEN Append(f[i - 1], s[i]) ELSE f[i - 1]
  BY <1>3, KeptEquations DEF KeptOneByOne
<1> DEFINE N == {i \in Nat : i <= n => f[i] \in Seq(T)}
<1>5. 0 \in N
  <2>1. <<>> \in Seq(T)
    OBVIOUS
  <2> QED BY <1>4, <2>1
<1>6. ASSUME NEW i \in N PROVE i + 1 \in N
  <2> SUFFICES ASSUME i + 1 <= n PROVE f[i + 1] \in Seq(T)
    OBVIOUS
  <2>1. i \in Nat /\ f[i] \in Seq(T) /\ i + 1 \in 1 .. n /\ (i + 1) - 1 = i
    OBVIOUS
  <2>2. f[i + 1] = IF s[i + 1] \in S THEN Append(f[i], s[i + 1]) ELSE f[i]
    BY ONLY <1>4, <2>1
  <2>3. s[i + 1] \in T
    BY <1>1, <1>2, <2>1
  <2> QED BY <2>1, <2>2, <2>3
<1>7. N = Nat
  BY <1>5, <1>6, NatSetInduction
<1>8. n \in N
  BY <1>7
<1> QED BY <1>3, <1>8

LEMMA FilterWithin ==
    ASSUME NEW T, NEW s \in Seq(T), NEW S
    PROVE  ToSet(Filter(s, S)) \subseteq ToSet(s)
<1>1. s \in Seq(ToSet(s))
  BY DEF ToSet
<1>2. Filter(s, S) \in Seq(ToSet(s))
  BY <1>1, FilterType
<1> QED BY <1>2 DEF ToSet

-----------------------------------------------------------------------------
(***************************************************************************)
(* The order of a recursive drop.                                          *)
(***************************************************************************)

CallOK(c) ==
    /\ c \in [stack : Seq(Index), plan : Seq(RawHandle), batch : Seq(RawHandle),
              nested : BOOLEAN]
    /\ c.plan = <<>> => c.stack = <<>>

CallTypeOK ==
    /\ children \in [Index -> Seq(Index)]
    /\ CallOK(call)

\* Where k will be freed before the m-th handle of the plan.
Planned(k, m) == k \in ToSet(call.stack) \/ \E n \in 1 .. m - 1 : call.plan[n].index = k

\* What is listed under a resource that will be freed is free or comes before it.
PlanOrdered ==
    \A m \in 1 .. Len(call.plan) : \A k \in ToSet(children[call.plan[m].index]) :
        slots[k].live => Planned(k, m)

LEMMA CallInit == Init => CallTypeOK /\ PlanOrdered
<1> SUFFICES ASSUME Init PROVE CallTypeOK /\ PlanOrdered
  OBVIOUS
<1>1. <<>> \in Seq(Index) /\ <<>> \in Seq(RawHandle) /\ Len(<<>>) = 0
  OBVIOUS
<1>2. call = [stack |-> <<>>, plan |-> <<>>, batch |-> <<>>, nested |-> FALSE]
  BY DEF Init, NoCall
<1>3. children = [i \in Index |-> <<>>]
  BY DEF Init
<1> QED BY <1>1, <1>2, <1>3 DEF CallTypeOK, CallOK, PlanOrdered

\* No plan, no order to keep.
LEMMA NoPlan ==
    ASSUME call'.plan = <<>>
    PROVE  PlanOrdered'
  BY DEF PlanOrdered

LEMMA LastAndFront ==
    ASSUME NEW T, NEW s \in Seq(T), s # <<>>
    PROVE  /\ Last(s) \in T /\ Front(s) \in Seq(T)
           /\ ToSet(s) \subseteq ToSet(Front(s)) \union {Last(s)}
<1>1. PICK n \in Nat : n = Len(s) /\ n >= 1 /\ \A i \in 1 .. n : s[i] \in T
  OBVIOUS
<1>2. Last(s) = s[n] /\ Last(s) \in T
  BY <1>1 DEF Last
<1>3. /\ Front(s) \in Seq(T) /\ Len(Front(s)) = n - 1
      /\ \A i \in 1 .. n - 1 : Front(s)[i] = s[i]
  BY <1>1 DEF Front
<1>4. ASSUME NEW i \in 1 .. n PROVE s[i] \in ToSet(Front(s)) \union {Last(s)}
  <2>1. CASE i = n
    BY <2>1, <1>2
  <2>2. CASE i # n
    <3>1. i \in 1 .. n - 1 /\ i \in DOMAIN Front(s)
      BY <2>2, <1>3
    <3> QED BY <3>1, <1>3 DEF ToSet
  <2> QED BY <2>1, <2>2
<1>5. DOMAIN s = 1 .. n
  BY <1>1
<1> QED BY <1>2, <1>3, <1>4, <1>5 DEF ToSet

LEMMA ToSetParts ==
    ASSUME NEW T, NEW s \in Seq(T), NEW t \in Seq(T)
    PROVE  /\ s \o t \in Seq(T)
           /\ ToSet(s) \subseteq ToSet(s \o t) /\ ToSet(t) \subseteq ToSet(s \o t)
           /\ ToSet(s) \subseteq T
<1>1. /\ s \o t \in Seq(T) /\ Len(s) \in Nat /\ Len(t) \in Nat
      /\ Len(s \o t) = Len(s) + Len(t)
  OBVIOUS
<1>2. ASSUME NEW i \in 1 .. Len(s) PROVE s[i] \in ToSet(s \o t)
  <2>1. i \in DOMAIN (s \o t) /\ (s \o t)[i] = s[i]
    BY <1>1
  <2> QED BY <2>1 DEF ToSet
<1>3. ASSUME NEW i \in 1 .. Len(t) PROVE t[i] \in ToSet(s \o t)
  <2>1. Len(s) + i \in DOMAIN (s \o t) /\ (s \o t)[Len(s) + i] = t[i]
    BY <1>1
  <2> QED BY <2>1 DEF ToSet
<1>4. /\ DOMAIN s = 1 .. Len(s) /\ DOMAIN t = 1 .. Len(t)
      /\ \A i \in 1 .. Len(s) : s[i] \in T
  OBVIOUS
<1>5. ToSet(s) \subseteq ToSet(s \o t)
  <2> SUFFICES ASSUME NEW x \in ToSet(s) PROVE x \in ToSet(s \o t)
    OBVIOUS
  <2>1. PICK i \in 1 .. Len(s) : x = s[i]
    BY <1>4 DEF ToSet
  <2> QED BY <1>2, <2>1
<1>6. ToSet(t) \subseteq ToSet(s \o t)
  <2> SUFFICES ASSUME NEW x \in ToSet(t) PROVE x \in ToSet(s \o t)
    OBVIOUS
  <2>1. PICK i \in 1 .. Len(t) : x = t[i]
    BY <1>4 DEF ToSet
  <2> QED BY <1>3, <2>1
<1>7. ToSet(s) \subseteq T
  <2> SUFFICES ASSUME NEW x \in ToSet(s) PROVE x \in T
    OBVIOUS
  <2>1. PICK i \in 1 .. Len(s) : x = s[i]
    BY <1>4 DEF ToSet
  <2> QED BY <1>4, <2>1
<1> QED BY <1>1, <1>5, <1>6, <1>7

\* The lists of children that a turn of the loop of free_recursive leaves.
PlanKids ==
    IF Tail(call.plan) = <<>> THEN children
    ELSE [children EXCEPT ![Last(call.plan).index] = Filter(@, Index \ {Head(call.plan).index})]

LEMMA PlanKidsWithin ==
    ASSUME CallTypeOK
    PROVE  /\ PlanKids \in [Index -> Seq(Index)]
           /\ \A i \in Index : ToSet(PlanKids[i]) \subseteq ToSet(children[i])
<1> DEFINE S == Index \ {Head(call.plan).index}
           root == Last(call.plan).index
<1>1. ASSUME NEW i \in Index
      PROVE  /\ Filter(children[i], S) \in Seq(Index)
             /\ ToSet(Filter(children[i], S)) \subseteq ToSet(children[i])
  BY FilterType, FilterWithin DEF CallTypeOK
<1>2. PlanKids = children \/ PlanKids = [children EXCEPT ![root] = Filter(@, S)]
  BY DEF PlanKids
<1> HIDE DEF S, root
<1> QED BY <1>1, <1>2 DEF CallTypeOK

\* A turn of that loop drops the head of the plan, or ends it.
LEMMA PlanStepIs ==
    ASSUME CallTypeOK, PlanStep
    PROVE  /\ call.plan # <<>> /\ call.stack = <<>>
           /\ \/ /\ \E parents : Vacate(Head(call.plan), PlanKids, parents)
                 /\ \/ call' = Rest(call.batch) \/ call' = [call EXCEPT !.plan = Tail(@)]
              \/ /\ children' = PlanKids /\ slots' = slots
                 /\ call' = NoCall \/ call' = Rest(call.batch)
<1> DEFINE h == Head(call.plan)
           root == Last(call.plan).index
           isRoot == Tail(call.plan) = <<>>
           parents == IF isRoot THEN parentOf ELSE [parentOf EXCEPT ![h.index] = None]
           kids == IF isRoot THEN children
                   ELSE [children EXCEPT ![root] = Filter(@, Index \ {h.index})]
<1>1. kids = PlanKids
  BY DEF PlanKids
<1>2. call.plan # <<>> /\ call.stack = <<>>
  BY DEF PlanStep
<1> HIDE DEF kids, parents
<1>3. \/ /\ Vacate(h, kids, parents)
         /\ call' = Rest(call.batch) \/ call' = [call EXCEPT !.plan = Tail(@)]
      \/ /\ children' = kids /\ slots' = slots
         /\ call' = NoCall \/ call' = Rest(call.batch)
  BY DEF PlanStep, kids, parents
<1> QED BY <1>1, <1>2, <1>3

\* What is left of a call is a call.
LEMMA RestOK ==
    ASSUME CallOK(call), call.stack = <<>>, NEW b \in Seq(RawHandle)
    PROVE  /\ CallOK(NoCall) /\ NoCall.plan = <<>>
           /\ CallOK(Rest(b)) /\ Rest(b).plan = <<>>
<1>1. <<>> \in Seq(Index) /\ <<>> \in Seq(RawHandle)
  OBVIOUS
<1>2. CallOK(NoCall) /\ NoCall.plan = <<>>
  BY <1>1 DEF CallOK, NoCall
<1>3. ASSUME Rest(b) = [call EXCEPT !.plan = <<>>, !.batch = b]
      PROVE  CallOK(Rest(b)) /\ Rest(b).plan = <<>>
  BY <1>1, <1>3 DEF CallOK
<1> QED BY <1>2, <1>3 DEF Rest

LEMMA HandlesTyped ==
    ASSUME TableTypeOK
    PROVE  /\ \A i \in Index : Handle(i, slots[i].generation) \in RawHandle
           /\ \A hs \in SeqOf(issued, MaxBatch) : hs \in Seq(RawHandle)
<1>1. ASSUME NEW i \in Index PROVE Handle(i, slots[i].generation) \in RawHandle
  <2>1. slots[i] \in Slot
    BY DEF TableTypeOK
  <2> QED BY <2>1 DEF Slot, Handle, RawHandle
<1>2. ASSUME NEW hs \in SeqOf(issued, MaxBatch) PROVE hs \in Seq(RawHandle)
  <2>1. PICK m \in Nat : hs \in [1 .. m -> issued]
    BY BoundAssumption DEF SeqOf
  <2>2. hs \in [1 .. m -> RawHandle]
    BY <2>1 DEF TableTypeOK
  <2> QED BY <2>2
<1> QED BY <1>1, <1>2

\* A resource that goes takes its own list along.
LEMMA VacateKids ==
    ASSUME NEW h, NEW kids \in [Index -> Seq(Index)], NEW parents, Vacate(h, kids, parents)
    PROVE  /\ children' \in [Index -> Seq(Index)]
           /\ \A i \in Index : ToSet(children'[i]) \subseteq ToSet(kids[i])
<1>1. children' = [kids EXCEPT ![h.index] = <<>>]
  BY DEF Vacate
<1>2. <<>> \in Seq(Index) /\ ToSet(<<>>) = {}
  BY DEF ToSet
<1>3. \A i \in Index : children'[i] = <<>> \/ children'[i] = kids[i]
  BY <1>1
<1> QED BY <1>1, <1>2, <1>3

\* The steps that are not of the recursive drop.
Elsewhere == \/ \E v \in Value : AllocReuse(v) \/ AllocAppend(v)
             \/ \E h \in issued, v \in Value : Mutate(h, v)
             \/ \E h \in issued : FreeOne(h) \/ FreeRecursive(h)
             \/ \E hs \in SeqOf(issued, MaxBatch), nested \in BOOLEAN : BatchDrop(hs, nested)
             \/ BatchFree
             \/ \E b \in Borrower, h \in issued : Borrow(b, h)
             \/ \E l \in leases : ReleaseBorrow(l)
             \/ \E p, c \in issued : AddChild(p, c)

LEMMA RecursiveSteps ==
    ASSUME [Next]_vars
    PROVE  Elsewhere \/ BatchCollect \/ Collect \/ PlanStep \/ UNCHANGED vars
  BY DEF Next, CallStep, Elsewhere

LEMMA ElsewhereCall ==
    ASSUME TableTypeOK, CallTypeOK, Elsewhere
    PROVE  CallTypeOK' /\ call.plan = <<>> /\ call'.plan = <<>>
<1>1. NoCall.plan = <<>> /\ NoCall.stack = <<>>
  BY DEF NoCall
<1>2. <<>> \in Seq(Index) /\ <<>> \in Seq(RawHandle)
  OBVIOUS
<1>3. ASSUME children' = children, call' = call, Idle
      PROVE  CallTypeOK' /\ call.plan = <<>> /\ call'.plan = <<>>
  BY <1>1, <1>3 DEF CallTypeOK, Idle
<1>4. ASSUME NEW h \in issued, FreeOne(h)
      PROVE  CallTypeOK' /\ call.plan = <<>> /\ call'.plan = <<>>
  <2>1. children' \in [Index -> Seq(Index)]
    BY <1>4, VacateKids DEF FreeOne, CallTypeOK
  <2> QED BY <1>1, <1>4, <2>1 DEF FreeOne, CallTypeOK, Idle
<1>5. ASSUME Idle, children' = children, NEW b \in Seq(RawHandle), NEW n \in BOOLEAN,
             call' = [NoCall EXCEPT !.batch = b, !.nested = n]
      PROVE  CallTypeOK' /\ call.plan = <<>> /\ call'.plan = <<>>
  <2>1. call' = [stack |-> <<>>, plan |-> <<>>, batch |-> b, nested |-> n]
    BY <1>5 DEF NoCall
  <2>2. CallOK(call')
    BY <1>2, <2>1 DEF CallOK
  <2> QED BY <1>1, <1>5, <2>1, <2>2 DEF CallTypeOK, Idle
<1>6. ASSUME NEW h \in issued, FreeRecursive(h)
      PROVE  CallTypeOK' /\ call.plan = <<>> /\ call'.plan = <<>>
  <2>1. <<h>> \in Seq(RawHandle)
    BY DEF TableTypeOK
  <2> QED BY <1>5, <1>6, <2>1 DEF FreeRecursive, table
<1>7. ASSUME NEW hs \in SeqOf(issued, MaxBatch), NEW nested \in BOOLEAN, BatchDrop(hs, nested)
      PROVE  CallTypeOK' /\ call.plan = <<>> /\ call'.plan = <<>>
  <2>1. hs \in Seq(RawHandle)
    BY HandlesTyped
  <2> QED BY <1>5, <1>7, <2>1 DEF BatchDrop, table
<1>8. ASSUME BatchFree
      PROVE  CallTypeOK' /\ call.plan = <<>> /\ call'.plan = <<>>
  <2>1. call.plan = <<>> /\ call.stack = <<>> /\ call.batch # <<>>
    BY <1>8 DEF BatchFree, CallTypeOK, CallOK
  <2>2. Front(call.batch) \in Seq(RawHandle)
    BY <2>1, LastAndFront DEF CallTypeOK, CallOK
  <2> DEFINE h == Last(call.batch)
  <2>3. \/ Vacate(h, children, parentOf) /\ call' = Rest(Front(call.batch))
        \/ call' = NoCall /\ children' = children
        \/ call' = Rest(Front(call.batch)) /\ children' = children
    BY <1>8 DEF BatchFree, table
  <2>4. children' \in [Index -> Seq(Index)]
    <3> HIDE DEF h
    <3> QED BY <2>3, VacateKids DEF CallTypeOK
  <2>5. CallOK(call') /\ call'.plan = <<>>
    BY <2>1, <2>2, <2>3, RestOK DEF CallTypeOK
  <2> QED BY <2>1, <2>4, <2>5 DEF CallTypeOK
<1>9. ASSUME NEW p \in issued, NEW c \in issued, AddChild(p, c)
      PROVE  CallTypeOK' /\ call.plan = <<>> /\ call'.plan = <<>>
  <2>1. p.index \in Index /\ c.index \in Index
    BY DEF TableTypeOK, RawHandle
  <2>2. Append(children[p.index], c.index) \in Seq(Index)
    BY <2>1 DEF CallTypeOK
  <2>3. children' = [children EXCEPT ![p.index] = Append(children[p.index], c.index)]
    BY <1>9 DEF AddChild
  <2>4. children' \in [Index -> Seq(Index)]
    BY <2>2, <2>3 DEF CallTypeOK
  <2> QED BY <1>1, <1>9, <2>4 DEF AddChild, CallTypeOK, Idle
<1> QED
  BY <1>3, <1>4, <1>6, <1>7, <1>8, <1>9
  DEF Elsewhere, AllocReuse, AllocAppend, Mutate, Borrow, ReleaseBorrow

\* The collecting starts with the children of the resource to drop.
LEMMA BatchCollectCall ==
    ASSUME CallTypeOK, TableTypeOK, BatchCollect
    PROVE  CallTypeOK' /\ PlanOrdered' /\ call.plan = <<>>
<1>1. call.plan = <<>> /\ call.stack = <<>> /\ call.batch # <<>> /\ children' = children
  BY DEF BatchCollect, CallTypeOK, CallOK, table
<1>2. Front(call.batch) \in Seq(RawHandle) /\ Last(call.batch) \in RawHandle
  BY <1>1, LastAndFront DEF CallTypeOK, CallOK
<1> DEFINE h == Last(call.batch)
<1>3. h \in RawHandle /\ h.index \in Index
  BY <1>2 DEF RawHandle
<1>4. \/ call' = [call EXCEPT !.stack = children[h.index], !.plan = <<h>>,
                              !.batch = Front(call.batch)]
      \/ call' = call
      \/ call' = Rest(Front(call.batch))
  BY DEF BatchCollect
<1> HIDE DEF h
<1>5. ASSUME call' = [call EXCEPT !.stack = children[h.index], !.plan = <<h>>,
                                  !.batch = Front(call.batch)]
      PROVE  CallTypeOK' /\ PlanOrdered'
  <2>1. children[h.index] \in Seq(Index) /\ <<h>> \in Seq(RawHandle) /\ <<h>> # <<>>
    BY <1>3 DEF CallTypeOK
  <2>2. call'.stack = children[h.index] /\ call'.plan = <<h>>
    BY <1>5 DEF CallTypeOK, CallOK
  <2>3. CallOK(call')
    BY <1>2, <1>5, <2>1 DEF CallTypeOK, CallOK
  <2>4. Len(call'.plan) = 1 /\ call'.plan[1] = h
    BY <2>2
  <2>5. PlanOrdered'
    BY <1>1, <2>2, <2>4 DEF PlanOrdered, Planned
  <2> QED BY <1>1, <2>3, <2>5 DEF CallTypeOK
<1>6. ASSUME call' = call \/ call' = Rest(Front(call.batch))
      PROVE  CallTypeOK' /\ PlanOrdered'
  <2>1. CallOK(call') /\ call'.plan = <<>>
    BY <1>1, <1>2, <1>6, RestOK DEF CallTypeOK
  <2> QED BY <1>1, <2>1, NoPlan DEF CallTypeOK
<1> QED BY <1>1, <1>4, <1>5, <1>6

\* One more handle at the head of the plan, its children on the stack.
LEMMA CollectCall ==
    ASSUME CallTypeOK, TableTypeOK, PlanOrdered, Collect
    PROVE  CallTypeOK' /\ PlanOrdered' /\ slots' = slots
<1> DEFINE i == Last(call.stack)
           front == Front(call.stack)
           new == Handle(i, slots[i].generation)
<1>1. call.stack \in Seq(Index) /\ call.stack # <<>> /\ call.plan # <<>>
      /\ call.plan \in Seq(RawHandle) /\ children' = children /\ slots' = slots
  BY DEF Collect, CallTypeOK, CallOK, table
<1>2. i \in Index /\ front \in Seq(Index) /\ ToSet(call.stack) \subseteq ToSet(front) \union {i}
  BY <1>1, LastAndFront
<1>3. new \in RawHandle /\ new.index = i
  BY <1>2, HandlesTyped DEF Handle
<1>4. call' = IF slots[i].live
              THEN [call EXCEPT !.stack = front \o children[i], !.plan = <<new>> \o @]
              ELSE [call EXCEPT !.stack = front]
  BY DEF Collect
<1> HIDE DEF i, front, new
<1>5. ASSUME slots[i].live PROVE CallTypeOK' /\ PlanOrdered'
  <2>1. children[i] \in Seq(Index)
    BY <1>2 DEF CallTypeOK
  <2>2. /\ front \o children[i] \in Seq(Index)
        /\ ToSet(front) \subseteq ToSet(front \o children[i])
        /\ ToSet(children[i]) \subseteq ToSet(front \o children[i])
    BY <1>2, <2>1, ToSetParts
  <2>3. PICK n \in Nat : n = Len(call.plan)
    BY <1>1
  <2>4. /\ <<new>> \o call.plan \in Seq(RawHandle) /\ <<new>> \o call.plan # <<>>
        /\ Len(<<new>> \o call.plan) = n + 1
        /\ (<<new>> \o call.plan)[1] = new
        /\ \A m \in 1 .. n : (<<new>> \o call.plan)[m + 1] = call.plan[m]
    <3>1. /\ <<new>> \in Seq(RawHandle) /\ Len(<<new>>) = 1 /\ <<new>>[1] = new
      BY <1>3
    <3> QED BY <1>1, <2>3, <3>1
  <2>5. call' = [call EXCEPT !.stack = front \o children[i], !.plan = <<new>> \o call.plan]
    BY <1>4, <1>5
  <2>6. call'.stack = front \o children[i] /\ call'.plan = <<new>> \o call.plan /\ CallOK(call')
    BY <2>2, <2>4, <2>5 DEF CallTypeOK, CallOK
  <2>7. CallTypeOK'
    BY <1>1, <2>6 DEF CallTypeOK
  <2>9. 1 .. Len(call'.plan) = 1 .. n + 1
    BY <2>4, <2>6
  <2>8. PlanOrdered'
    <3> SUFFICES ASSUME NEW m \in 1 .. Len(call'.plan),
                        NEW k \in ToSet(children'[call'.plan[m].index]), slots'[k].live
                 PROVE  \/ k \in ToSet(call'.stack)
                        \/ \E q \in 1 .. m - 1 : call'.plan[q].index = k
      BY DEF PlanOrdered, Planned
    <3>3. m \in 1 .. n + 1 /\ k \in ToSet(children[call'.plan[m].index]) /\ slots[k].live
      BY <1>1, <2>9
    <3>1. CASE m = 1
      BY <1>3, <2>2, <2>4, <2>6, <3>1, <3>3
    <3>2. CASE m # 1
      <4>1. m - 1 \in 1 .. n /\ call'.plan[m] = call.plan[m - 1]
        BY <2>4, <2>6, <3>2, <3>3
      <4>2. Planned(k, m - 1)
        BY <2>3, <3>3, <4>1 DEF PlanOrdered
      <4>3. CASE k \in ToSet(call.stack)
        <5>1. k \in ToSet(front) \/ k = i
          BY <1>2, <4>3
        <5>2. 1 \in 1 .. m - 1 /\ call'.plan[1].index = i
          BY <1>3, <2>4, <2>6, <3>2, <3>3
        <5> QED BY <2>2, <2>6, <5>1, <5>2
      <4>4. ASSUME NEW q \in 1 .. (m - 1) - 1, call.plan[q].index = k
            PROVE  q + 1 \in 1 .. m - 1 /\ call'.plan[q + 1].index = k
        BY <2>4, <2>6, <3>3, <4>1, <4>4
      <4> QED BY <4>2, <4>3, <4>4 DEF Planned
    <3> QED BY <3>1, <3>2
  <2> QED BY <2>7, <2>8
<1>6. ASSUME ~ slots[i].live PROVE CallTypeOK' /\ PlanOrdered'
  <2>1. call'.stack = front /\ call'.plan = call.plan /\ CallOK(call')
    BY <1>1, <1>2, <1>4, <1>6 DEF CallTypeOK, CallOK
  <2>2. ASSUME NEW k, NEW m, slots[k].live, Planned(k, m)
        PROVE  \/ k \in ToSet(call'.stack)
               \/ \E q \in 1 .. m - 1 : call'.plan[q].index = k
    BY <1>2, <1>6, <2>1, <2>2 DEF Planned
  <2>3. PlanOrdered'
    <3> SUFFICES ASSUME NEW m \in 1 .. Len(call.plan),
                        NEW k \in ToSet(children[call.plan[m].index]), slots[k].live
                 PROVE  \/ k \in ToSet(call'.stack)
                        \/ \E q \in 1 .. m - 1 : call'.plan[q].index = k
      BY <1>1, <2>1 DEF PlanOrdered, Planned
    <3>1. Planned(k, m)
      BY DEF PlanOrdered
    <3> QED BY <2>2, <3>1
  <2> QED BY <1>1, <2>1, <2>3 DEF CallTypeOK
<1> QED BY <1>1, <1>5, <1>6

\* The head of the plan goes, and nothing live was listed under it.
LEMMA PlanStepCall ==
    ASSUME CallTypeOK, TableTypeOK, PlanOrdered, PlanStep
    PROVE  /\ CallTypeOK' /\ PlanOrdered'
           /\ \A i \in Index : slots[i].live /\ ~ slots'[i].live =>
                  \A k \in ToSet(children[i]) : ~ slots[k].live
<1>1. call.plan # <<>> /\ call.stack = <<>> /\ call.plan \in Seq(RawHandle)
      /\ call.batch \in Seq(RawHandle) /\ CallOK(call)
  BY PlanStepIs DEF CallTypeOK, CallOK
<1> DEFINE h == Head(call.plan)
<1>2. PICK n \in Nat : /\ n = Len(call.plan) /\ n >= 1
                       /\ Tail(call.plan) \in Seq(RawHandle) /\ Len(Tail(call.plan)) = n - 1
                       /\ \A m \in 1 .. n - 1 : Tail(call.plan)[m] = call.plan[m + 1]
                       /\ h = call.plan[1] /\ h \in RawHandle
                       /\ \A m \in 1 .. n : call.plan[m] \in RawHandle
  BY <1>1
<1>3. h.index \in Index /\ \A m \in 1 .. n : call.plan[m].index \in Index
  BY <1>2 DEF RawHandle
<1>4. \/ /\ \E parents : Vacate(h, PlanKids, parents)
         /\ \/ call' = Rest(call.batch) \/ call' = [call EXCEPT !.plan = Tail(@)]
      \/ /\ children' = PlanKids /\ slots' = slots
         /\ call' = NoCall \/ call' = Rest(call.batch)
  BY PlanStepIs
<1> HIDE DEF h
<1>5. children' \in [Index -> Seq(Index)]
      /\ \A i \in Index : ToSet(children'[i]) \subseteq ToSet(children[i])
  BY <1>4, PlanKidsWithin, VacateKids
<1>6. /\ CallOK(NoCall) /\ NoCall.plan = <<>>
      /\ CallOK(Rest(call.batch)) /\ Rest(call.batch).plan = <<>>
  BY <1>1, RestOK
<1>7. \A k \in ToSet(children[h.index]) : ~ slots[k].live
  <2>1. 1 \in 1 .. Len(call.plan) /\ ToSet(call.stack) = {} /\ 1 .. 1 - 1 = {}
    BY <1>1, <1>2 DEF ToSet
  <2> QED BY <1>2, <2>1 DEF PlanOrdered, Planned
<1>8. slots' = slots \/ /\ \A i \in Index \ {h.index} : slots'[i] = slots[i]
                        /\ ~ slots'[h.index].live
  BY <1>3, <1>4 DEF Vacate, Free, TableTypeOK
<1>9. ASSUME call'.plan = <<>>, CallOK(call') PROVE CallTypeOK' /\ PlanOrdered'
  BY <1>5, <1>9, NoPlan DEF CallTypeOK
<1>10. ASSUME NEW parents, Vacate(h, PlanKids, parents),
              call' = [call EXCEPT !.plan = Tail(@)]
       PROVE  CallTypeOK' /\ PlanOrdered'
  <2>1. call'.plan = Tail(call.plan) /\ call'.stack = <<>> /\ CallOK(call')
    BY <1>1, <1>2, <1>10 DEF CallOK
  <2>2. ~ slots'[h.index].live
    BY <1>3, <1>10 DEF Vacate, Free, TableTypeOK
  <2>3. PlanOrdered'
    <3> SUFFICES ASSUME NEW m \in 1 .. n - 1,
                        NEW k \in ToSet(children'[call'.plan[m].index]), slots'[k].live
                 PROVE  \E q \in 1 .. m - 1 : call'.plan[q].index = k
      BY <1>2, <2>1 DEF PlanOrdered, Planned
    <3>1. m + 1 \in 1 .. n /\ call'.plan[m] = call.plan[m + 1]
      BY <1>2, <2>1
    <3>2. k \in ToSet(children[call.plan[m + 1].index]) /\ k \in Index
      <4>1. call.plan[m + 1].index \in Index
        BY <1>3, <3>1
      <4>2. children[call.plan[m + 1].index] \in Seq(Index)
        BY <4>1 DEF CallTypeOK
      <4>3. ToSet(children[call.plan[m + 1].index]) \subseteq Index
        BY <4>2, ToSetParts
      <4> QED BY <1>5, <3>1, <4>1, <4>3
    <3>3. k # h.index /\ slots[k].live
      BY <1>8, <2>2, <3>2
    <3>4. Planned(k, m + 1)
      BY <1>2, <3>1, <3>2, <3>3 DEF PlanOrdered
    <3>5. PICK q \in 1 .. m : call.plan[q].index = k
      BY <1>1, <3>4 DEF Planned, ToSet
    <3>6. q # 1
      BY <1>2, <3>3, <3>5
    <3>7. q - 1 \in 1 .. m - 1 /\ q - 1 \in 1 .. n - 1 /\ (q - 1) + 1 = q
      BY <3>6
    <3>8. call'.plan[q - 1] = call.plan[q]
      BY <1>2, <2>1, <3>7
    <3> QED BY <3>5, <3>7, <3>8
  <2> QED BY <1>5, <2>1, <2>3 DEF CallTypeOK
<1>11. CallTypeOK' /\ PlanOrdered'
  BY <1>4, <1>6, <1>9, <1>10
<1> QED BY <1>7, <1>8, <1>11

LEMMA PlanNext ==
    ASSUME TableTypeOK, CallTypeOK, PlanOrdered, [Next]_vars
    PROVE  CallTypeOK' /\ PlanOrdered'
<1>1. CASE Elsewhere
  BY <1>1, ElsewhereCall, NoPlan
<1>2. CASE UNCHANGED vars
  BY <1>2 DEF vars, CallTypeOK, CallOK, PlanOrdered, Planned
<1> QED BY <1>1, <1>2, RecursiveSteps, BatchCollectCall, CollectCall, PlanStepCall

LEMMA PlanFrees ==
    ASSUME TableTypeOK, CallTypeOK, PlanOrdered, [Next]_vars, NEW i \in Index,
           call.plan # <<>>, slots[i].live, ~ slots'[i].live
    PROVE  \A k \in ToSet(children[i]) : ~ slots[k].live
<1>1. ~ Elsewhere /\ ~ BatchCollect /\ ~ Collect
  BY ElsewhereCall, BatchCollectCall, CollectCall
<1>2. ~ UNCHANGED vars
  BY DEF vars
<1> QED BY <1>1, <1>2, RecursiveSteps, PlanStepCall

\* A recursive drop frees a resource only when everything listed under it is gone,
\* after any history of nesting, re-parenting and failed drops.
THEOREM DescendantsFirstAlways == Spec => DescendantsFirst
<1>1. Init => TableTypeOK /\ CallTypeOK /\ PlanOrdered
  BY InitTypes, CallInit
<1>2. TableTypeOK /\ CallTypeOK /\ PlanOrdered /\ [Next]_vars
          => (TableTypeOK /\ CallTypeOK /\ PlanOrdered)'
  BY NextTypes, PlanNext
<1>3. TableTypeOK /\ CallTypeOK /\ PlanOrdered /\ [Next]_vars
          => [\A i \in Index : call.plan # <<>> /\ slots[i].live /\ ~ slots'[i].live
                  => \A k \in ToSet(children[i]) : ~ slots[k].live]_vars
  BY PlanFrees
<1> QED BY <1>1, <1>2, <1>3, PTL DEF Spec, DescendantsFirst
=============================================================================
