----------------------------- MODULE Workspace ------------------------------
(***************************************************************************)
(* WorkspaceConfig of src/composition.rs: a workspace of component targets *)
(* that depend on each other by name, its validation, and the order in     *)
(* which its members are built.                                            *)
(*                                                                         *)
(* detect_cycle is recursive: each of its calls is a frame here, a loop's  *)
(* position the number of the next element it looks at.  build_order       *)
(* validates and then sorts; validate alone is its first half.             *)
(***************************************************************************)
EXTENDS Integers, Sequences, FiniteSets

CONSTANTS
    Target,      \* the names members and dependencies have
    MaxMembers,  \* bound: members of the workspace
    MaxDeps      \* bound: entries of a depends_on list

ASSUME WorkspaceAssumption == MaxMembers \in Nat /\ MaxDeps \in Nat

VARIABLES
    members,     \* the workspace's members, in the order they were added
    phase,       \* what build_order is at, or how it ended
    cursor,      \* the position of the loop over members
    frames,      \* the calls of detect_cycle that have not returned
    visited,     \* detect_cycle: every name it entered
    stack,       \* detect_cycle: the names whose calls have not returned
    round,       \* the pass of the sort
    order,       \* the names placed so far
    built        \* the set of them

workspaceVars == <<members, phase, cursor, frames, visited, stack, round, order, built>>

search == <<frames, visited, stack>>
sort == <<round, order, built>>

Ended == {"duplicate", "missing", "cyclic", "ordered", "unordered"}

Member == [name : Target, dependsOn : Seq(Target)]
MemberNames == {members[k].name : k \in DOMAIN members}

\* The depends_on list of the member a search by name finds.
DependsOn(n) == members[CHOOSE k \in DOMAIN members : members[k].name = n].dependsOn
Dependencies(n) == {DependsOn(n)[j] : j \in DOMAIN DependsOn(n)}

WorkspaceInit ==
    /\ members = <<>>
    /\ phase = "editing"
    /\ cursor = 1
    /\ frames = <<>> /\ visited = {} /\ stack = {}
    /\ round = 1 /\ order = <<>> /\ built = {}

-----------------------------------------------------------------------------
(***************************************************************************)
(* The caller: a member is added, before or after an order was asked for.  *)
(***************************************************************************)

AddMember(m) ==
    /\ phase \in Ended \union {"editing"}
    /\ Len(members) < MaxMembers
    /\ members' = Append(members, m)
    /\ phase' = "editing"
    /\ cursor' = 1
    /\ frames' = <<>> /\ visited' = {} /\ stack' = {}
    /\ round' = 1 /\ order' = <<>> /\ built' = {}

-----------------------------------------------------------------------------
(***************************************************************************)
(* validate, before its search: names are distinct, dependencies exist.    *)
(***************************************************************************)

Duplicates == \E j, k \in DOMAIN members : j # k /\ members[j].name = members[k].name

MissingDependency ==
    \E k \in DOMAIN members : \E j \in DOMAIN members[k].dependsOn :
        members[k].dependsOn[j] \notin MemberNames

Validate ==
    /\ phase = "editing"
    /\ phase' = IF Duplicates THEN "duplicate"
                ELSE IF MissingDependency THEN "missing"
                ELSE "searching"
    /\ UNCHANGED <<members, cursor, search, sort>>

-----------------------------------------------------------------------------
(***************************************************************************)
(* validate's search for a cycle.                                          *)
(***************************************************************************)

Top == frames[Len(frames)]
TopDeps == DependsOn(Top.name)
Callers == SubSeq(frames, 1, Len(frames) - 1)

\* The top frame once its loop moved on.
MovedOn == [Top EXCEPT !.at = @ + 1]

Enter(n, callers) ==
    /\ frames' = Append(callers, [name |-> n, at |-> 1])
    /\ visited' = visited \union {n}
    /\ stack' = stack \union {n}

\* validate's loop: it enters each member no call visited yet.
NextRoot ==
    /\ phase = "searching"
    /\ frames = <<>>
    /\ cursor <= Len(members)
    /\ IF members[cursor].name \in visited THEN UNCHANGED search
       ELSE Enter(members[cursor].name, <<>>)
    /\ cursor' = cursor + 1
    /\ UNCHANGED <<members, phase, sort>>

AtDependency(d) ==
    /\ phase = "searching"
    /\ frames # <<>>
    /\ Top.at <= Len(TopDeps)
    /\ d = TopDeps[Top.at]

Descend(d) ==
    /\ AtDependency(d)
    /\ d \notin visited
    /\ Enter(d, Append(Callers, MovedOn))
    /\ UNCHANGED <<members, phase, cursor, sort>>

\* Slip: a name on the stack is taken for one whose call has returned.
FindNoCycle(d) ==
    /\ AtDependency(d)
    /\ d \in visited /\ d \in stack
    /\ frames' = Append(Callers, MovedOn)
    /\ UNCHANGED <<members, phase, cursor, visited, stack, sort>>

FindCycle(d) ==
    /\ AtDependency(d)
    /\ d \in visited /\ d \in stack
    /\ phase' = "cyclic"
    /\ UNCHANGED <<members, cursor, search, sort>>

\* Slip: the loop does not move on.
PassStill(d) ==
    /\ AtDependency(d)
    /\ d \in visited /\ d \notin stack
    /\ UNCHANGED workspaceVars

Pass(d) ==
    /\ AtDependency(d)
    /\ d \in visited /\ d \notin stack
    /\ frames' = Append(Callers, MovedOn)
    /\ UNCHANGED <<members, phase, cursor, visited, stack, sort>>

\* Slip: the name stays on the stack when its call returns.
ReturnOnStack ==
    /\ phase = "searching"
    /\ frames # <<>>
    /\ Top.at > Len(TopDeps)
    /\ frames' = Callers
    /\ UNCHANGED <<members, phase, cursor, visited, stack, sort>>

Return ==
    /\ phase = "searching"
    /\ frames # <<>>
    /\ Top.at > Len(TopDeps)
    /\ frames' = Callers
    /\ stack' = stack \ {Top.name}
    /\ UNCHANGED <<members, phase, cursor, visited, sort>>

SearchEnds ==
    /\ phase = "searching"
    /\ frames = <<>>
    /\ cursor > Len(members)
    /\ phase' = "sorting"
    /\ cursor' = 1
    /\ UNCHANGED <<members, search, sort>>

-----------------------------------------------------------------------------
(***************************************************************************)
(* build_order's sort: as many passes over the members as there are        *)
(* members, each placing those whose dependencies are placed.              *)
(***************************************************************************)

\* Slip: one dependency placed is enough.
AnyMet(m) == m.dependsOn = <<>> \/ \E j \in DOMAIN m.dependsOn : m.dependsOn[j] \in built

DepsMet(m) == \A j \in DOMAIN m.dependsOn : m.dependsOn[j] \in built

Place(m) ==
    IF m.name \notin built /\ DepsMet(m)
    THEN order' = Append(order, m.name) /\ built' = built \union {m.name}
    ELSE UNCHANGED <<order, built>>

Visit ==
    /\ phase = "sorting"
    /\ round <= Len(members)
    /\ cursor <= Len(members)
    /\ Place(members[cursor])
    /\ cursor' = cursor + 1
    /\ UNCHANGED <<members, phase, search, round>>

NextRound ==
    /\ phase = "sorting"
    /\ round <= Len(members)
    /\ cursor > Len(members)
    /\ round' = round + 1
    /\ cursor' = 1
    /\ UNCHANGED <<members, phase, search, order, built>>

\* Slip: one pass is enough.
SortOnce ==
    /\ phase = "sorting"
    /\ round > 1 \/ members = <<>>
    /\ phase' = IF Len(order) = Len(members) THEN "ordered" ELSE "unordered"
    /\ UNCHANGED <<members, cursor, search, sort>>

SortEnds ==
    /\ phase = "sorting"
    /\ round > Len(members)
    /\ phase' = IF Len(order) = Len(members) THEN "ordered" ELSE "unordered"
    /\ UNCHANGED <<members, cursor, search, sort>>

-----------------------------------------------------------------------------
Work ==
    \/ NextRoot
    \/ \E d \in Target : Descend(d) \/ FindCycle(d) \/ Pass(d)
    \/ Return
    \/ SearchEnds
    \/ Visit
    \/ NextRound
    \/ SortEnds

DepLists == UNION {[1 .. n -> Target] : n \in 0 .. MaxDeps}

WorkspaceNext ==
    \/ \E m \in [name : Target, dependsOn : DepLists] : AddMember(m)
    \/ Validate
    \/ Work

\* Once called, build_order runs: nothing of it waits for anybody.
WorkspaceSpec == WorkspaceInit /\ [][WorkspaceNext]_workspaceVars /\ WF_workspaceVars(Work)

-----------------------------------------------------------------------------
(***************************************************************************)
(* Properties.                                                             *)
(***************************************************************************)

WorkspaceTypeOK ==
    /\ members \in Seq(Member)
    /\ phase \in Ended \union {"editing", "searching", "sorting"}
    /\ cursor \in 1 .. Len(members) + 1
    /\ frames \in Seq([name : MemberNames, at : Nat \ {0}])
    /\ visited \subseteq MemberNames
    /\ stack = {frames[k].name : k \in DOMAIN frames}
    /\ round \in 1 .. Len(members) + 1
    /\ order \in Seq(MemberNames)
    /\ built = {order[k] : k \in DOMAIN order}

\* Names that would wait for each other for ever.
Knot(names) == names # {} /\ \A n \in names : \E d \in Dependencies(n) : d \in names

\* What passes the search has no cycle: when the sort runs, no set of members
\* has all its members depend on one of the set.
ValidatedIsAcyclic ==
    phase \in {"sorting", "ordered", "unordered"} =>
        \A names \in SUBSET MemberNames : ~ Knot(names)

\* A cycle is reported only where there is one: some set of members the
\* search entered, the reported name's among them, is a knot.
CycleIsReal == phase = "cyclic" => Knot(stack)

\* In a build order every member comes after all it depends on, and comes once.
OrderIsTopological ==
    /\ \A j, k \in DOMAIN order : j # k => order[j] # order[k]
    /\ \A k \in DOMAIN order : \A d \in Dependencies(order[k]) :
           \E j \in 1 .. k - 1 : order[j] = d

\* As many passes as there are members place them all: of a validated
\* workspace the sort never reports a cycle.
SortFindsAll == phase # "unordered"

\* build_order returns, with an order or an error.
Returns == phase \in {"searching", "sorting"} ~> phase \in Ended
=============================================================================
