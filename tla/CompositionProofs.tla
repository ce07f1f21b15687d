------------------------- MODULE CompositionProofs -------------------------
(***************************************************************************)
(* What holds of the parts of src/composition.rs: of Composition for any   *)
(* components, names, interfaces and bounds, and of Workspace for every    *)
(* set of targets and every workspace: what its search accepts has no      *)
(* cycle, what it reports is one, and the order of the sort is topological.*)
(***************************************************************************)
EXTENDS Composition, Workspace, FiniteSetTheorems, TLAPS

-----------------------------------------------------------------------------
(***************************************************************************)
(* Types.                                                                  *)
(***************************************************************************)

LEMMA InitTypes == Init => TypeOK
BY PathAssumption DEF Init, LinkerInit, RegistryInit, TypeOK, LinkerTypeOK, RegistryTypeOK,
   Registered, Instance

LEMMA RegisterTypes ==
    ASSUME LinkerTypeOK, NEW c \in Component, NEW t \in Template, Register(c, t)
    PROVE  LinkerTypeOK'
<1>1. t \in [imports : SUBSET Name, exports : SUBSET Name]
  BY LinkerAssumption
<1>2. Registered' = Registered \union {c}
  BY DEF Register, Registered
<1> QED BY <1>1, <1>2 DEF LinkerTypeOK, Register, Registered, Instance

LEMMA LinkerTypes == LinkerTypeOK /\ [LinkerNext]_linkerVars => LinkerTypeOK'
<1> SUFFICES ASSUME LinkerTypeOK, [LinkerNext]_linkerVars PROVE LinkerTypeOK'
  OBVIOUS
<1>1. ASSUME NEW c \in Component, NEW t \in Template, Register(c, t) PROVE LinkerTypeOK'
  BY <1>1, RegisterTypes
<1>2. ASSUME NEW p \in Component, NEW c \in Component, NEW e \in Name, NEW i \in Name,
             LinkTo(p, e, c, i)
      PROVE  LinkerTypeOK'
  <2>1. [provider |-> p, export |-> e, consumer |-> c, import |-> i] \in Link
    BY DEF Link
  <2> QED BY <1>2, <2>1 DEF LinkerTypeOK, LinkTo, Registered
<1>3. ASSUME NEW c \in Registered, Run(c) PROVE LinkerTypeOK'
  BY <1>3 DEF LinkerTypeOK, Run, Registered, Instance
<1>4. ASSUME NEW c \in Registered, NEW e \in Name, AddExport(c, e) PROVE LinkerTypeOK'
  BY <1>4 DEF LinkerTypeOK, AddExport, Registered, Instance
<1>5. CASE UNCHANGED linkerVars
  BY <1>5 DEF linkerVars, LinkerTypeOK, Registered
<1> QED BY <1>1, <1>2, <1>3, <1>4, <1>5 DEF LinkerNext

RegistryStep ==
    \/ \E p \in Path : RegisterPath(p)
    \/ \E p \in Checked, optional \in BOOLEAN : Require(p, optional)
    \/ \E p \in Checked : Provide(p)
    \/ UNCHANGED <<registryVars, checkerVars>>

LEMMA RegistryTypes == RegistryTypeOK /\ RegistryStep => RegistryTypeOK'
<1> SUFFICES ASSUME RegistryTypeOK, RegistryStep PROVE RegistryTypeOK'
  OBVIOUS
<1> USE PathAssumption DEF RegistryTypeOK, registryVars, checkerVars
<1>1. ASSUME NEW p \in Path, RegisterPath(p) PROVE RegistryTypeOK'
  <2>1. interfaces' = interfaces \/ preferred' \in Preferences(interfaces')
    BY <1>1 DEF RegisterPath
  <2> QED BY <1>1, <2>1 DEF RegisterPath
<1>2. ASSUME NEW p \in Checked, NEW optional \in BOOLEAN, Require(p, optional) PROVE RegistryTypeOK'
  BY <1>2 DEF Require
<1>3. ASSUME NEW p \in Checked, Provide(p) PROVE RegistryTypeOK'
  BY <1>3 DEF Provide
<1> QED BY <1>1, <1>2, <1>3 DEF RegistryStep

LEMMA StepKinds == [Next]_vars => [LinkerNext]_linkerVars /\ RegistryStep
BY DEF Next, vars, RegistryStep

LEMMA NextTypes == TypeOK /\ [Next]_vars => TypeOK'
BY LinkerTypes, RegistryTypes, StepKinds DEF TypeOK

\* Every variable of the linker, the registry and the checker keeps its type.
THEOREM CompositionTyped == Spec => []TypeOK
BY InitTypes, NextTypes, PTL DEF Spec

-----------------------------------------------------------------------------
(***************************************************************************)
(* Links.                                                                  *)
(***************************************************************************)

\* Some call registers an instance of the name.
Registers(c) == \E t \in Template : Register(c, t)

\* What OnlyRegisterUnsettles says of a step.
Settled ==
    /\ \A k \in 1 .. Len(links') :
           \/ Sound(k)'
           \/ /\ k <= Len(links)
              /\ ~ Sound(k) \/ Registers(links[k].provider) \/ Registers(links[k].consumer)
    /\ \A ci \in Unsatisfied' \ Unsatisfied : Registers(ci[1])
    /\ \A ci \in Unsatisfied \ Unsatisfied' :
           \/ Registers(ci[1])
           \/ \E k \in LinkedTo(ci[1], ci[2])' : k > Len(links) /\ Sound(k)'

\* What a component has, unless the step registers it.
LEMMA InstancesKept ==
    ASSUME LinkerTypeOK, LinkerNext, NEW c, ~ Registers(c)
    PROVE  /\ c \in Registered' <=> c \in Registered
           /\ \A e : Exports(c, e) => Exports(c, e)'
           /\ \A i : Imports(c, i)' <=> Imports(c, i)
<1> USE DEF Exports, Imports, Registered, LinkerTypeOK
<1>1. ASSUME NEW d \in Component, NEW t \in Template, Register(d, t)
      PROVE  /\ c # d /\ DOMAIN instances' = DOMAIN instances \union {d}
             /\ \A x \in DOMAIN instances : x # d => instances'[x] = instances[x]
  BY <1>1 DEF Register, Registers
<1>2. CASE \E d \in Component, t \in Template : Register(d, t)
  BY <1>1, <1>2
<1>3. ASSUME NEW p \in Component, NEW d \in Component, NEW e \in Name, NEW i \in Name,
             LinkTo(p, e, d, i)
      PROVE  UNCHANGED instances
  BY <1>3 DEF LinkTo
<1>4. CASE UNCHANGED instances
  BY <1>4
<1>5. ASSUME NEW d \in Registered, Run(d)
      PROVE  /\ Registered' = Registered
             /\ \A x \in Registered : /\ instances'[x].exports = instances[x].exports
                                      /\ instances'[x].imports = instances[x].imports
  BY <1>5 DEF Run, Instance
<1>6. ASSUME NEW d \in Registered, NEW e \in Name, AddExport(d, e)
      PROVE  /\ Registered' = Registered
             /\ \A x \in Registered : /\ instances[x].exports \subseteq instances'[x].exports
                                      /\ instances'[x].imports = instances[x].imports
  BY <1>6 DEF AddExport, Instance
<1> QED BY <1>2, <1>3, <1>4, <1>5, <1>6 DEF LinkerNext

\* A step that makes no link.
LEMMA UnlinkedSettled ==
    ASSUME LinkerTypeOK, LinkerNext, UNCHANGED links
    PROVE  Settled
<1>1. ASSUME NEW k \in 1 .. Len(links), Sound(k),
             ~ Registers(links[k].provider), ~ Registers(links[k].consumer)
      PROVE  Sound(k)'
  <2>1. Exports(links[k].provider, links[k].export) /\ Imports(links[k].consumer, links[k].import)
    BY <1>1 DEF Sound
  <2> DEFINE p == links[k].provider  e == links[k].export
             c == links[k].consumer  i == links[k].import
  <2>2. p' = p /\ e' = e /\ c' = c /\ i' = i
    OBVIOUS
  <2> HIDE DEF p, e, c, i
  <2>3. Exports(p, e) /\ Imports(c, i) /\ ~ Registers(p) /\ ~ Registers(c)
    BY <1>1, <2>1 DEF p, e, c, i
  <2>4. Exports(p, e)' /\ Imports(c, i)'
    BY <2>2, <2>3, InstancesKept DEF Exports, Imports, Registered
  <2> QED BY <2>4 DEF Sound, p, e, c, i
<1>2. ASSUME NEW c, NEW i PROVE LinkedTo(c, i)' = LinkedTo(c, i)
  BY DEF LinkedTo
<1>3. ASSUME NEW c, NEW i, ~ Registers(c)
      PROVE  <<c, i>> \in Unsatisfied' <=> <<c, i>> \in Unsatisfied
  <2>1. <<c, i>> \in Unsatisfied <=>
            c \in Registered /\ i \in Name /\ Imports(c, i) /\ LinkedTo(c, i) = {}
    BY DEF Unsatisfied
  <2>2. <<c, i>> \in Unsatisfied' <=>
            c \in Registered' /\ i \in Name /\ Imports(c, i)' /\ LinkedTo(c, i)' = {}
    BY DEF Unsatisfied, Imports, LinkedTo, Registered
  <2> QED BY <1>2, <1>3, <2>1, <2>2, InstancesKept
<1>4. \A ci \in Unsatisfied \union Unsatisfied' : ci = <<ci[1], ci[2]>>
  BY DEF Unsatisfied
<1>5. \A ci \in Unsatisfied' \ Unsatisfied : Registers(ci[1])
  BY <1>3, <1>4
<1>6. \A ci \in Unsatisfied \ Unsatisfied' : Registers(ci[1])
  BY <1>3, <1>4
<1>7. Len(links) \in Nat /\ Len(links') = Len(links)
  BY DEF LinkerTypeOK
<1> QED BY <1>1, <1>5, <1>6, <1>7 DEF Settled

LEMMA LinkSettled ==
    ASSUME LinkerTypeOK, NEW p \in Component, NEW e \in Name, NEW c \in Component, NEW i \in Name,
           LinkTo(p, e, c, i)
    PROVE  Settled
<1> DEFINE new == [provider |-> p, export |-> e, consumer |-> c, import |-> i]
           n == Len(links)
<1>1. /\ UNCHANGED instances /\ links' = Append(links, new)
      /\ Exports(p, e) /\ Imports(c, i)
  BY DEF LinkTo
<1>2. /\ n \in Nat /\ Len(links') = n + 1 /\ links'[n + 1] = new
      /\ \A k \in 1 .. n : links'[k] = links[k]
  BY <1>1 DEF LinkerTypeOK
<1>3. new.provider = p /\ new.export = e /\ new.consumer = c /\ new.import = i
  OBVIOUS
<1> HIDE DEF new, n
<1>4. ASSUME NEW k \in 1 .. Len(links'), ~ (k <= n) PROVE Sound(k)'
  <2>1. links'[k] = new
    BY <1>2, <1>4
  <2> QED BY <1>1, <1>3, <2>1 DEF Sound, Exports, Imports, Registered
<1>5. ASSUME NEW k \in 1 .. n, Sound(k) PROVE Sound(k)'
  BY <1>1, <1>2, <1>5 DEF Sound, Exports, Imports, Registered
<1>6. ASSUME NEW d, NEW j
      PROVE  /\ LinkedTo(d, j) \subseteq LinkedTo(d, j)'
             /\ LinkedTo(d, j)' \subseteq LinkedTo(d, j) \union {n + 1}
  BY <1>2 DEF LinkedTo, n
<1>7. ASSUME NEW d, NEW j
      PROVE  /\ <<d, j>> \in Unsatisfied <=>
                   d \in Registered /\ j \in Name /\ Imports(d, j) /\ LinkedTo(d, j) = {}
             /\ <<d, j>> \in Unsatisfied' <=>
                   d \in Registered /\ j \in Name /\ Imports(d, j) /\ LinkedTo(d, j)' = {}
  BY <1>1 DEF Unsatisfied, Imports, LinkedTo, Registered
<1>8. \A ci \in Unsatisfied \union Unsatisfied' : ci = <<ci[1], ci[2]>>
  BY DEF Unsatisfied
<1>9. Unsatisfied' \subseteq Unsatisfied
  BY <1>6, <1>7, <1>8
<1>10. ASSUME NEW ci \in Unsatisfied \ Unsatisfied'
       PROVE  n + 1 \in LinkedTo(ci[1], ci[2])' /\ n + 1 > n
  BY <1>2, <1>6, <1>7, <1>8
<1>11. ASSUME NEW ci \in Unsatisfied \ Unsatisfied'
       PROVE  \E k \in LinkedTo(ci[1], ci[2])' : k > Len(links) /\ Sound(k)'
  <2>1. PICK k \in LinkedTo(ci[1], ci[2])' : k = n + 1
    BY <1>10
  <2>2. k \in 1 .. Len(links') /\ k > n /\ ~ (k <= n)
    BY <1>2, <2>1
  <2> QED BY <1>4, <2>1, <2>2 DEF n
<1>12. \A k \in 1 .. Len(links') : Sound(k)' \/ (k <= Len(links) /\ ~ Sound(k))
  <2> SUFFICES ASSUME NEW k \in 1 .. Len(links'), ~ (k <= n /\ ~ Sound(k))
               PROVE  Sound(k)'
    BY DEF n
  <2> QED BY <1>2, <1>4, <1>5
<1> QED BY <1>9, <1>11, <1>12 DEF Settled

LEMMA StepSettled == LinkerTypeOK /\ LinkerNext => Settled
<1> SUFFICES ASSUME LinkerTypeOK, LinkerNext PROVE Settled
  OBVIOUS
<1>1. CASE \E p, c \in Component, e, i \in Name : LinkTo(p, e, c, i)
  BY <1>1, LinkSettled
<1>2. CASE UNCHANGED links
  BY <1>2, UnlinkedSettled
<1> QED BY <1>1, <1>2 DEF LinkerNext, Register, Run, AddExport

\* Of what link and check_all_imports of src/composition.rs have found, only the
\* registration of an instance makes anything untrue.
THEOREM OnlyRegisterUnsettlesAlways == Spec => OnlyRegisterUnsettles
<1>1. TypeOK /\ [Next]_vars => [linkerVars' # linkerVars => Settled]_linkerVars
  BY StepSettled, StepKinds DEF TypeOK
<1>2. Spec => [][linkerVars' # linkerVars => Settled]_linkerVars
  BY CompositionTyped, <1>1, PTL DEF Spec
<1> QED BY <1>2 DEF Settled, Registers, OnlyRegisterUnsettles

-----------------------------------------------------------------------------
(***************************************************************************)
(* Resolution.                                                             *)
(***************************************************************************)

\* What a path resolves to is a registered path of its base, and a base that has
\* one resolves.
LEMMA Resolves ==
    ASSUME RegistryTypeOK, NEW p \in Path
    PROVE  /\ Resolve(p) # None => Resolve(p) \in interfaces /\ Base(Resolve(p)) = Base(p)
           /\ Resolve(p) = None <=> Versions(interfaces, Base(p)) = {}
<1>1. Base(p) \in Bases
  BY DEF Bases
<1>2. None \notin interfaces
  BY PathAssumption DEF RegistryTypeOK
<1>3. IF Versions(interfaces, Base(p)) = {} THEN preferred[Base(p)] = None
      ELSE preferred[Base(p)] \in Versions(interfaces, Base(p))
  BY <1>1 DEF RegistryTypeOK, Preferences
<1> QED BY <1>2, <1>3 DEF Resolve, Versions

\* A path that resolves goes on resolving, to what it did unless a new path was
\* registered and it has no entry of its own.
THEOREM ResolutionMovesAlways == Spec => ResolutionMoves
<1>1. TypeOK /\ TypeOK' /\ [Next]_vars =>
          [\A p \in Path : Resolve(p) # None /\ Resolve(p)' # Resolve(p) =>
               /\ Resolve(p)' # None /\ Base(Resolve(p)') = Base(p)
               /\ p \notin interfaces
               /\ interfaces' # interfaces]_<<registryVars, checkerVars>>
  <2> SUFFICES ASSUME TypeOK, TypeOK', RegistryStep, NEW p \in Path,
                      Resolve(p) # None, Resolve(p)' # Resolve(p)
               PROVE  /\ Resolve(p)' # None /\ Base(Resolve(p)') = Base(p)
                      /\ p \notin interfaces
                      /\ interfaces' # interfaces
    BY StepKinds
  <2>1. RegistryTypeOK /\ RegistryTypeOK'
    BY DEF TypeOK
  <2>2. interfaces \subseteq interfaces'
    BY DEF RegistryStep, RegisterPath, Require, Provide, registryVars
  <2>3. interfaces' # interfaces
    <3>1. interfaces' = interfaces => preferred' = preferred
      BY DEF RegistryStep, RegisterPath, Require, Provide, registryVars
    <3> QED BY <3>1 DEF Resolve
  <2>4. p \notin interfaces
    BY <2>2 DEF Resolve
  <2>5. Versions(interfaces, Base(p)) # {}
    BY <2>1, Resolves
  <2>6. Versions(interfaces', Base(p)) # {}
    BY <2>2, <2>5 DEF Versions
  <2>7. /\ Resolve(p)' # None => Base(Resolve(p)') = Base(p)
        /\ Resolve(p)' # None
    <3>1. (/\ Resolve(p) # None => Resolve(p) \in interfaces /\ Base(Resolve(p)) = Base(p)
           /\ Resolve(p) = None <=> Versions(interfaces, Base(p)) = {})'
      BY <2>1, Resolves, PTL
    <3> QED BY <2>6, <3>1 DEF Versions, Base
  <2> QED BY <2>3, <2>4, <2>7
<1> QED BY <1>1, CompositionTyped, PTL DEF Spec, ResolutionMoves

-----------------------------------------------------------------------------
(***************************************************************************)
(* The workspace.                                                          *)
(***************************************************************************)

Frame == [name : MemberNames, at : Nat \ {0}]

\* The names whose calls have returned.
Finished == visited \ stack

Accepted == {"searching", "cyclic", "sorting", "ordered", "unordered"}
Searched == {"sorting", "ordered", "unordered"}

-----------------------------------------------------------------------------
(***************************************************************************)
(* The invariant, in parts.                                                *)
(***************************************************************************)

\* Past its first checks, the workspace's names are distinct and known.
Validated == phase \in Accepted => ~ Duplicates /\ ~ MissingDependency

\* Nothing was entered before the search, nothing placed before the sort, and
\* no call is left when the search is over.
Phased ==
    /\ phase \notin Accepted => frames = <<>> /\ visited = {} /\ cursor = 1
    /\ phase \notin Searched => order = <<>> /\ round = 1
    /\ phase \in Searched => frames = <<>>

\* The frames are the calls of a path: each called the next for the dependency
\* before the one it looks at next, and the calls for the others returned.
Nested ==
    /\ stack \subseteq visited
    /\ \A j, k \in DOMAIN frames : j # k => frames[j].name # frames[k].name
    /\ \A k \in DOMAIN frames :
           LET deps == DependsOn(frames[k].name)
               at == frames[k].at
           IN /\ at - 1 <= Len(deps)
              /\ k < Len(frames) => at > 1 /\ deps[at - 1] = frames[k + 1].name
              /\ \A j \in 1 .. at - 1 :
                     (k < Len(frames) /\ j = at - 1) \/ deps[j] \in Finished

\* Whose calls returned depend on such only, and on each other without a cycle.
FinishedClosed == \A n \in Finished : Dependencies(n) \subseteq Finished
FinishedAcyclic == \A names \in SUBSET Finished : ~ Knot(names)

\* validate's loop leaves no member behind it unvisited.
Seen ==
    /\ phase = "searching" => \A k \in 1 .. cursor - 1 : members[k].name \in visited
    /\ phase \in Searched => MemberNames \subseteq Finished

SearchInv ==
    /\ WorkspaceTypeOK /\ Validated /\ Phased /\ Nested
    /\ FinishedClosed /\ FinishedAcyclic /\ Seen /\ CycleIsReal

-----------------------------------------------------------------------------
(***************************************************************************)
(* Members and their dependencies.                                         *)
(***************************************************************************)

\* A search by name finds the member of that name.
LEMMA Found ==
    ASSUME WorkspaceTypeOK, ~ Duplicates, NEW k \in DOMAIN members
    PROVE  DependsOn(members[k].name) = members[k].dependsOn
  <1> DEFINE P(j) == j \in DOMAIN members /\ members[j].name = members[k].name
             c == CHOOSE j \in DOMAIN members : members[j].name = members[k].name
  <1>1. c \in DOMAIN members /\ members[c].name = members[k].name
    OBVIOUS
  <1>2. c = k
    BY <1>1 DEF Duplicates
  <1> QED
    BY <1>2 DEF DependsOn

\* The dependencies of a member of an accepted workspace are members.
LEMMA Known ==
    ASSUME WorkspaceTypeOK, ~ Duplicates, ~ MissingDependency, NEW n \in MemberNames
    PROVE  /\ DependsOn(n) \in Seq(MemberNames)
           /\ Len(DependsOn(n)) \in Nat
           /\ Dependencies(n) \subseteq MemberNames
  <1>1. PICK k \in DOMAIN members : members[k].name = n
    BY DEF MemberNames
  <1>2. DependsOn(n) = members[k].dependsOn
    BY <1>1, Found
  <1>3. members[k] \in Member
    BY DEF WorkspaceTypeOK
  <1>4. members[k].dependsOn \in Seq(Target)
    BY <1>3 DEF Member
  <1>5. \A j \in DOMAIN members[k].dependsOn : members[k].dependsOn[j] \in MemberNames
    BY DEF MissingDependency
  <1>6. DependsOn(n) \in Seq(MemberNames)
    BY <1>2, <1>4, <1>5
  <1> QED
    BY <1>6 DEF Dependencies

\* What is known of the members does not change while they do not.
LEMMA SameMembers ==
    ASSUME members' = members
    PROVE  /\ MemberNames' = MemberNames
           /\ Duplicates' = Duplicates /\ MissingDependency' = MissingDependency
           /\ \A n : DependsOn(n)' = DependsOn(n)
           /\ \A n : Dependencies(n)' = Dependencies(n)
           /\ \A names : Knot(names)' = Knot(names)
  BY DEF MemberNames, Duplicates, MissingDependency, DependsOn, Dependencies, Knot

\* What a sequence is with one more at its end.
LEMMA Appended ==
    ASSUME NEW S, NEW s \in Seq(S), NEW e \in S
    PROVE  /\ Append(s, e) \in Seq(S)
           /\ Len(Append(s, e)) = Len(s) + 1 /\ Len(s) \in Nat
           /\ DOMAIN Append(s, e) = 1 .. Len(s) + 1
           /\ \A k \in 1 .. Len(s) : Append(s, e)[k] = s[k]
           /\ Append(s, e)[Len(s) + 1] = e
  OBVIOUS

\* The frames below the top one, and those with another on them.
LEMMA CallersAre ==
    ASSUME WorkspaceTypeOK, frames # <<>>
    PROVE  /\ Len(frames) \in Nat \ {0} /\ DOMAIN frames = 1 .. Len(frames)
           /\ \A k \in DOMAIN frames : frames[k] \in Frame
           /\ Callers \in Seq(Frame)
           /\ Len(Callers) = Len(frames) - 1
           /\ \A k \in 1 .. Len(frames) - 1 : Callers[k] = frames[k]
           /\ Top \in Frame /\ Top = frames[Len(frames)]
           /\ MovedOn = [name |-> Top.name, at |-> Top.at + 1] /\ MovedOn \in Frame
  <1>1. frames \in Seq(Frame)
    BY DEF WorkspaceTypeOK, Frame
  <1>2. Len(frames) \in Nat \ {0} /\ DOMAIN frames = 1 .. Len(frames)
    BY <1>1
  <1>3. /\ Top \in Frame /\ Top = frames[Len(frames)]
        /\ \A k \in DOMAIN frames : frames[k] \in Frame
    BY <1>1, <1>2 DEF Top
  <1>4. MovedOn = [name |-> Top.name, at |-> Top.at + 1] /\ MovedOn \in Frame
    BY <1>3 DEF MovedOn, Frame
  <1>5. /\ Callers \in Seq(Frame)
        /\ Len(Callers) = Len(frames) - 1
        /\ \A k \in 1 .. Len(frames) - 1 : Callers[k] = frames[k]
    BY <1>1, <1>2 DEF Callers
  <1> QED
    BY <1>2, <1>3, <1>4, <1>5

-----------------------------------------------------------------------------
(***************************************************************************)
(* The search keeps the invariant.                                         *)
(***************************************************************************)

\* At a dependency: it is a member, and the one the top frame looks at.
LEMMA AtMember ==
    ASSUME SearchInv, NEW d, AtDependency(d)
    PROVE  /\ phase = "searching" /\ frames # <<>>
           /\ ~ Duplicates /\ ~ MissingDependency
           /\ Top.name \in MemberNames
           /\ Top.at \in 1 .. Len(TopDeps) /\ TopDeps = DependsOn(Top.name)
           /\ d = TopDeps[Top.at] /\ d \in MemberNames /\ d \in Dependencies(Top.name)
  <1>1. phase = "searching" /\ frames # <<>> /\ ~ Duplicates /\ ~ MissingDependency
    BY DEF AtDependency, SearchInv, Validated, Accepted
  <1>2. Top \in Frame
    BY <1>1, CallersAre DEF SearchInv
  <1>3. Top.name \in MemberNames /\ Top.at \in Nat \ {0}
    BY <1>2 DEF Frame
  <1>4. DependsOn(Top.name) \in Seq(MemberNames) /\ Len(DependsOn(Top.name)) \in Nat
    BY <1>1, <1>3, Known DEF SearchInv
  <1>5. Top.at \in 1 .. Len(TopDeps) /\ TopDeps = DependsOn(Top.name) /\ d = TopDeps[Top.at]
    BY <1>3, <1>4 DEF AtDependency, TopDeps
  <1> QED
    BY <1>1, <1>3, <1>4, <1>5 DEF Dependencies

\* The search stays well typed when its path does.
LEMMA TypeKept ==
    ASSUME SearchInv, members' = members, phase' = phase, UNCHANGED sort,
           cursor' \in 1 .. Len(members) + 1,
           frames' \in Seq(Frame), visited' \subseteq MemberNames,
           stack' = {frames'[k].name : k \in DOMAIN frames'}
    PROVE  WorkspaceTypeOK'
  <1>1. MemberNames' = MemberNames
    BY SameMembers
  <1> QED
    BY <1>1 DEF SearchInv, WorkspaceTypeOK, sort, Frame

LEMMA DescendKeeps ==
    ASSUME SearchInv, NEW d, Descend(d)
    PROVE  SearchInv'
  <1> DEFINE L == Len(frames)
             new == [name |-> d, at |-> 1]
  <1>0. /\ AtDependency(d) /\ d \notin visited
        /\ frames' = Append(Append(Callers, MovedOn), new)
        /\ visited' = visited \union {d} /\ stack' = stack \union {d}
        /\ UNCHANGED <<members, phase, cursor, sort>>
    BY DEF Descend, Enter
  <1>1. /\ phase = "searching" /\ frames # <<>> /\ ~ Duplicates /\ ~ MissingDependency
        /\ Top.name \in MemberNames
        /\ Top.at \in 1 .. Len(TopDeps) /\ TopDeps = DependsOn(Top.name)
        /\ d = TopDeps[Top.at] /\ d \in MemberNames
    BY <1>0, AtMember
  <1>2. /\ L \in Nat \ {0} /\ DOMAIN frames = 1 .. L
        /\ Callers \in Seq(Frame) /\ Len(Callers) = L - 1
        /\ \A k \in 1 .. L - 1 : Callers[k] = frames[k]
        /\ Top \in Frame /\ Top = frames[L]
        /\ MovedOn = [name |-> Top.name, at |-> Top.at + 1] /\ MovedOn \in Frame
    BY <1>1, CallersAre DEF SearchInv
  <1>3. new \in Frame
    BY <1>1 DEF Frame
  <1>4. /\ frames' \in Seq(Frame) /\ DOMAIN frames' = 1 .. L + 1 /\ Len(frames') = L + 1
        /\ \A k \in 1 .. L - 1 : frames'[k] = frames[k]
        /\ frames'[L] = MovedOn /\ frames'[L + 1] = new
    <2> DEFINE calls == Append(Callers, MovedOn)
    <2>1. /\ calls \in Seq(Frame) /\ Len(calls) = L
          /\ \A k \in 1 .. L - 1 : calls[k] = frames[k]
          /\ calls[L] = MovedOn
      <3>1. L - 1 + 1 = L /\ L - 1 \in Nat
        BY <1>2
      <3> HIDE DEF L
      <3> QED
        BY <1>2, <3>1, Appended
    <2> HIDE DEF calls, L, new
    <2>2. /\ frames' \in Seq(Frame) /\ DOMAIN frames' = 1 .. L + 1 /\ Len(frames') = L + 1
          /\ \A k \in 1 .. L : frames'[k] = calls[k]
          /\ frames'[L + 1] = new
      BY <1>0, <1>3, <2>1, Appended DEF calls
    <2> QED
      BY <1>2, <2>1, <2>2
  <1>5. /\ \A k \in 1 .. L : frames'[k].name = frames[k].name
        /\ frames'[L + 1].name = d
    <2>1. ASSUME NEW k \in 1 .. L PROVE frames'[k].name = frames[k].name
      <3> HIDE DEF L, new
      <3>1. CASE k = L
        BY <1>2, <1>4, <3>1
      <3>2. CASE k \in 1 .. L - 1
        BY <1>4, <3>2
      <3> QED
        BY <1>2, <3>1, <3>2
    <2>2. frames'[L + 1].name = d
      BY <1>4
    <2> QED
      BY <2>1, <2>2
  <1>6. /\ stack = {frames[k].name : k \in 1 .. L} /\ stack \subseteq visited
        /\ visited \subseteq MemberNames
    BY <1>2 DEF SearchInv, WorkspaceTypeOK, Nested
  <1>7. Finished' = Finished
    BY <1>0, <1>6 DEF Finished
  <1>8. /\ MemberNames' = MemberNames
        /\ Duplicates' = Duplicates /\ MissingDependency' = MissingDependency
        /\ \A n : DependsOn(n)' = DependsOn(n)
        /\ \A n : Dependencies(n)' = Dependencies(n)
        /\ \A names : Knot(names)' = Knot(names)
    BY <1>0, SameMembers
  <1> HIDE DEF L, new
  <1>9. WorkspaceTypeOK'
    <2>1. stack' = {frames'[k].name : k \in DOMAIN frames'}
      BY <1>0, <1>2, <1>4, <1>5, <1>6
    <2> QED
      BY <1>0, <1>1, <1>4, <1>6, <2>1, TypeKept DEF SearchInv, WorkspaceTypeOK
  <1>10. Nested'
    <2>1. stack' \subseteq visited'
      BY <1>0, <1>6
    <2>2. \A j, k \in DOMAIN frames' : j # k => frames'[j].name # frames'[k].name
      <3>1. \A j, k \in 1 .. L : j # k => frames[j].name # frames[k].name
        BY <1>2 DEF SearchInv, Nested
      <3>2. \A j \in 1 .. L : frames[j].name # d
        BY <1>0, <1>6
      <3> QED
        BY <1>2, <1>4, <1>5, <3>1, <3>2
    <2>3. ASSUME NEW k \in DOMAIN frames'
          PROVE  LET deps == DependsOn(frames'[k].name)
                     at == frames'[k].at
                 IN /\ at - 1 <= Len(deps)
                    /\ k < Len(frames') => at > 1 /\ deps[at - 1] = frames'[k + 1].name
                    /\ \A j \in 1 .. at - 1 :
                           (k < Len(frames') /\ j = at - 1) \/ deps[j] \in Finished
      <3>1. CASE k \in 1 .. L - 1
        <4>1. frames'[k] = frames[k] /\ frames'[k + 1].name = frames[k + 1].name
          BY <1>2, <1>4, <1>5, <3>1
        <4>2. k \in DOMAIN frames /\ k < L /\ k < Len(frames')
          BY <1>2, <1>4, <3>1
        <4> QED
          BY <4>1, <4>2 DEF SearchInv, Nested, L
      <3>2. CASE k = L
        <4>1. /\ frames'[k].name = Top.name /\ frames'[k].at = Top.at + 1
              /\ frames'[k + 1].name = d /\ k < Len(frames')
          BY <1>2, <1>4, <1>5, <3>2
        <4>2. \A j \in 1 .. Top.at - 1 : DependsOn(Top.name)[j] \in Finished
          BY <1>2 DEF SearchInv, Nested, L
        <4> QED
          BY <1>1, <1>2, <4>1, <4>2 DEF Frame
      <3>3. CASE k = L + 1
        <4>1. frames'[k].name = d /\ frames'[k].at = 1 /\ ~ (k < Len(frames'))
          BY <1>2, <1>4, <1>5, <3>3 DEF new
        <4>2. Len(DependsOn(d)) \in Nat
          BY <1>1, Known DEF SearchInv
        <4> QED
          BY <4>1, <4>2
      <3> QED
        BY <1>2, <1>4, <3>1, <3>2, <3>3
    <2> QED
      BY <1>7, <1>8, <2>1, <2>2, <2>3 DEF Nested
  <1>11. Validated' /\ Phased' /\ CycleIsReal'
    BY <1>0, <1>1, <1>8 DEF SearchInv, Validated, Phased, CycleIsReal, Accepted, Searched, sort
  <1>12. FinishedClosed' /\ FinishedAcyclic'
    BY <1>7, <1>8 DEF SearchInv, FinishedClosed, FinishedAcyclic
  <1>13. Seen'
    BY <1>0, <1>1 DEF SearchInv, Seen, Searched
  <1> QED
    BY <1>9, <1>10, <1>11, <1>12, <1>13 DEF SearchInv

LEMMA PassKeeps ==
    ASSUME SearchInv, NEW d, Pass(d)
    PROVE  SearchInv'
  <1> DEFINE L == Len(frames)
  <1>0. /\ AtDependency(d) /\ d \in visited /\ d \notin stack
        /\ frames' = Append(Callers, MovedOn)
        /\ UNCHANGED <<members, phase, cursor, visited, stack, sort>>
    BY DEF Pass
  <1>1. /\ phase = "searching" /\ frames # <<>> /\ ~ Duplicates /\ ~ MissingDependency
        /\ Top.name \in MemberNames
        /\ Top.at \in 1 .. Len(TopDeps) /\ TopDeps = DependsOn(Top.name)
        /\ d = TopDeps[Top.at] /\ d \in MemberNames
    BY <1>0, AtMember
  <1>2. /\ L \in Nat \ {0} /\ DOMAIN frames = 1 .. L
        /\ Callers \in Seq(Frame) /\ Len(Callers) = L - 1
        /\ \A k \in 1 .. L - 1 : Callers[k] = frames[k]
        /\ Top \in Frame /\ Top = frames[L]
        /\ MovedOn = [name |-> Top.name, at |-> Top.at + 1] /\ MovedOn \in Frame
    BY <1>1, CallersAre DEF SearchInv
  <1>3. L - 1 + 1 = L
    BY <1>2
  <1> HIDE DEF L
  <1>4. /\ frames' \in Seq(Frame) /\ DOMAIN frames' = 1 .. L /\ Len(frames') = L
        /\ \A k \in 1 .. L - 1 : frames'[k] = frames[k]
        /\ frames'[L] = MovedOn
    BY <1>0, <1>2, <1>3, Appended
  <1>5. \A k \in 1 .. L : frames'[k].name = frames[k].name
    BY <1>2, <1>4
  <1>6. Finished' = Finished
    BY <1>0 DEF Finished
  <1>7. /\ MemberNames' = MemberNames
        /\ Duplicates' = Duplicates /\ MissingDependency' = MissingDependency
        /\ \A n : DependsOn(n)' = DependsOn(n)
        /\ \A n : Dependencies(n)' = Dependencies(n)
        /\ \A names : Knot(names)' = Knot(names)
    BY <1>0, SameMembers
  <1>8. WorkspaceTypeOK'
    <2>1. stack' = {frames'[k].name : k \in DOMAIN frames'}
      <3>1. stack = {frames[k].name : k \in 1 .. L}
        BY <1>2 DEF SearchInv, WorkspaceTypeOK
      <3>2. \A x : x \in stack <=> \E k \in 1 .. L : x = frames'[k].name
        BY <1>5, <3>1
      <3>3. DOMAIN frames' = 1 .. L /\ stack' = stack
        BY <1>0, <1>4
      <3> QED
        BY <3>2, <3>3
    <2> QED
      BY <1>0, <1>4, <2>1, TypeKept DEF SearchInv, WorkspaceTypeOK
  <1>9. Nested'
    <2>1. stack' \subseteq visited'
      BY <1>0 DEF SearchInv, Nested
    <2>2. \A j, k \in DOMAIN frames' : j # k => frames'[j].name # frames'[k].name
      BY <1>2, <1>4, <1>5 DEF SearchInv, Nested
    <2>3. ASSUME NEW k \in DOMAIN frames'
          PROVE  LET deps == DependsOn(frames'[k].name)
                     at == frames'[k].at
                 IN /\ at - 1 <= Len(deps)
                    /\ k < Len(frames') => at > 1 /\ deps[at - 1] = frames'[k + 1].name
                    /\ \A j \in 1 .. at - 1 :
                           (k < Len(frames') /\ j = at - 1) \/ deps[j] \in Finished
      <3>1. CASE k \in 1 .. L - 1
        <4>1. frames'[k] = frames[k] /\ frames'[k + 1].name = frames[k + 1].name
          BY <1>2, <1>4, <1>5, <3>1
        <4>2. k \in DOMAIN frames /\ k < L /\ k < Len(frames')
          BY <1>2, <1>4, <3>1
        <4> QED
          BY <4>1, <4>2 DEF SearchInv, Nested, L
      <3>2. CASE k = L
        <4>1. /\ frames'[k].name = Top.name /\ frames'[k].at = Top.at + 1
              /\ ~ (k < Len(frames'))
          BY <1>2, <1>4, <1>5, <3>2
        <4>2. \A j \in 1 .. Top.at - 1 : DependsOn(Top.name)[j] \in Finished
          BY <1>2 DEF SearchInv, Nested, L
        <4>3. DependsOn(Top.name)[Top.at] \in Finished
          BY <1>0, <1>1 DEF Finished
        <4>4. Top.at \in Nat /\ Len(DependsOn(Top.name)) \in Nat
          BY <1>1, <1>2, Known DEF Frame, SearchInv
        <4> QED
          BY <1>1, <4>1, <4>2, <4>3, <4>4
      <3> QED
        BY <1>2, <1>4, <3>1, <3>2
    <2> QED
      BY <1>6, <1>7, <2>1, <2>2, <2>3 DEF Nested
  <1>10. Validated' /\ Phased' /\ CycleIsReal'
    BY <1>0, <1>1, <1>7 DEF SearchInv, Validated, Phased, CycleIsReal, Accepted, Searched, sort
  <1>11. FinishedClosed' /\ FinishedAcyclic' /\ Seen'
    BY <1>0, <1>1, <1>6, <1>7 DEF SearchInv, FinishedClosed, FinishedAcyclic, Seen, Searched
  <1> QED
    BY <1>8, <1>9, <1>10, <1>11 DEF SearchInv

\* The calls on the path depend on each other in a ring.
LEMMA FindCycleKeeps ==
    ASSUME SearchInv, NEW d, FindCycle(d)
    PROVE  SearchInv'
  <1> DEFINE L == Len(frames)
  <1>0. /\ AtDependency(d) /\ d \in stack
        /\ phase' = "cyclic"
        /\ UNCHANGED <<members, cursor, frames, visited, stack, round, order, built>>
    BY DEF FindCycle, search, sort
  <1>1. /\ phase = "searching" /\ frames # <<>> /\ ~ Duplicates /\ ~ MissingDependency
        /\ Top.name \in MemberNames /\ d \in Dependencies(Top.name)
    BY <1>0, AtMember
  <1>2. /\ L \in Nat \ {0} /\ DOMAIN frames = 1 .. L /\ Top = frames[L]
        /\ \A k \in DOMAIN frames : frames[k] \in Frame
    BY <1>1, CallersAre DEF SearchInv
  <1>3. /\ MemberNames' = MemberNames
        /\ Duplicates' = Duplicates /\ MissingDependency' = MissingDependency
        /\ \A n : DependsOn(n)' = DependsOn(n)
        /\ \A n : Dependencies(n)' = Dependencies(n)
        /\ \A names : Knot(names)' = Knot(names)
    BY <1>0, SameMembers
  <1>4. Knot(stack)
    <2>1. stack = {frames[k].name : k \in DOMAIN frames} /\ stack \subseteq MemberNames
      BY DEF SearchInv, WorkspaceTypeOK, Nested
    <2>2. stack # {}
      BY <1>0
    <2>3. ASSUME NEW n \in stack PROVE \E e \in Dependencies(n) : e \in stack
      <3>1. PICK k \in DOMAIN frames : n = frames[k].name
        BY <2>1
      <3>2. CASE k = L
        BY <1>0, <1>1, <1>2, <3>1, <3>2
      <3>3. CASE k < L
        <4>1. /\ frames[k].at - 1 <= Len(DependsOn(n)) /\ frames[k].at > 1
              /\ DependsOn(n)[frames[k].at - 1] = frames[k + 1].name
          BY <3>1, <3>3 DEF SearchInv, Nested
        <4>2. frames[k].at \in Nat
          BY <1>2 DEF Frame
        <4>3. DependsOn(n) \in Seq(MemberNames)
          BY <1>1, <2>1, Known DEF SearchInv
        <4>4. frames[k].at - 1 \in DOMAIN DependsOn(n)
          BY <4>1, <4>2, <4>3
        <4>5. frames[k + 1].name \in stack
          BY <1>2, <2>1, <3>1, <3>3
        <4> QED
          BY <4>1, <4>4, <4>5 DEF Dependencies
      <3> QED
        BY <1>2, <3>1, <3>2, <3>3
    <2> QED
      BY <2>2, <2>3 DEF Knot
  <1>5. WorkspaceTypeOK'
    BY <1>0, <1>3 DEF SearchInv, WorkspaceTypeOK, Ended
  <1>6. Validated' /\ Phased' /\ CycleIsReal' /\ Seen'
    BY <1>0, <1>1, <1>3, <1>4
    DEF SearchInv, Validated, Phased, CycleIsReal, Accepted, Searched, Seen
  <1>7. Finished' = Finished
    BY <1>0 DEF Finished
  <1>8. Nested' /\ FinishedClosed' /\ FinishedAcyclic'
    BY <1>0, <1>3, <1>7 DEF SearchInv, Nested, FinishedClosed, FinishedAcyclic
  <1> QED
    BY <1>5, <1>6, <1>8 DEF SearchInv

\* A call that returns adds its name to those that have: all it depends on has,
\* and nothing that has depends on it.
LEMMA ReturnKeeps ==
    ASSUME SearchInv, Return
    PROVE  SearchInv'
  <1> DEFINE L == Len(frames)
             n == Top.name
  <1>0. /\ phase = "searching" /\ frames # <<>>
        /\ Top.at > Len(DependsOn(n))
        /\ frames' = Callers /\ stack' = stack \ {n}
        /\ UNCHANGED <<members, phase, cursor, visited, sort>>
    BY DEF Return, TopDeps
  <1>1. ~ Duplicates /\ ~ MissingDependency
    BY <1>0 DEF SearchInv, Validated, Accepted
  <1>2. /\ L \in Nat \ {0} /\ DOMAIN frames = 1 .. L
        /\ \A k \in DOMAIN frames : frames[k] \in Frame
        /\ Callers \in Seq(Frame) /\ Len(Callers) = L - 1
        /\ \A k \in 1 .. L - 1 : Callers[k] = frames[k]
        /\ Top \in Frame /\ Top = frames[L]
    BY <1>0, CallersAre DEF SearchInv
  <1>3. n \in MemberNames /\ Top.at \in Nat
    BY <1>2 DEF Frame
  <1>4. DependsOn(n) \in Seq(MemberNames) /\ Len(DependsOn(n)) \in Nat
    BY <1>1, <1>3, Known DEF SearchInv
  <1>5. /\ DOMAIN frames' = 1 .. L - 1 /\ Len(frames') = L - 1
        /\ \A k \in 1 .. L - 1 : frames'[k] = frames[k]
    BY <1>0, <1>2
  <1>6. /\ stack = {frames[k].name : k \in 1 .. L} /\ stack \subseteq visited
        /\ \A j, k \in 1 .. L : j # k => frames[j].name # frames[k].name
    BY <1>2 DEF SearchInv, WorkspaceTypeOK, Nested
  <1>7. n \in stack /\ n = frames[L].name
    BY <1>2, <1>6
  <1>8. /\ MemberNames' = MemberNames
        /\ Duplicates' = Duplicates /\ MissingDependency' = MissingDependency
        /\ \A x : DependsOn(x)' = DependsOn(x)
        /\ \A x : Dependencies(x)' = Dependencies(x)
        /\ \A names : Knot(names)' = Knot(names)
    BY <1>0, SameMembers
  <1>9. Dependencies(n) \subseteq Finished
    <2>0. L \in DOMAIN frames /\ L = Len(frames) /\ frames[L].name = n /\ frames[L].at = Top.at
      BY <1>2
    <2> HIDE DEF L, n
    <2>1. \A j \in 1 .. Top.at - 1 : DependsOn(n)[j] \in Finished
      BY <1>2, <2>0 DEF SearchInv, Nested
    <2>2. \A j \in 1 .. Len(DependsOn(n)) : j \in 1 .. Top.at - 1
      BY <1>0, <1>3, <1>4
    <2>3. DOMAIN DependsOn(n) = 1 .. Len(DependsOn(n))
      BY <1>4
    <2> QED
      BY <2>1, <2>2, <2>3 DEF Dependencies
  <1>10. Finished' = Finished \union {n} /\ n \notin Finished
    BY <1>0, <1>6, <1>7 DEF Finished
  <1> HIDE DEF L, n
  <1>11. WorkspaceTypeOK'
    <2>1. \A x : x \in stack' <=> \E k \in 1 .. L - 1 : x = frames'[k].name
      <3>1. \A x : x \in stack \ {n} <=> \E k \in 1 .. L - 1 : x = frames[k].name
        <4>1. \A k \in 1 .. L - 1 : k \in 1 .. L /\ frames[k].name # n
          BY <1>2, <1>6, <1>7
        <4>2. \A k \in 1 .. L : k = L \/ k \in 1 .. L - 1
          BY <1>2
        <4> QED
          BY <1>6, <1>7, <4>1, <4>2
      <3> QED
        BY <1>0, <1>5, <3>1
    <2>2. stack' = {frames'[k].name : k \in DOMAIN frames'}
      BY <1>5, <2>1
    <2> QED
      BY <1>0, <1>2, <2>2, TypeKept DEF SearchInv, WorkspaceTypeOK
  <1>12. Nested'
    <2>1. stack' \subseteq visited'
      BY <1>0, <1>6
    <2>2. \A j, k \in DOMAIN frames' : j # k => frames'[j].name # frames'[k].name
      BY <1>2, <1>5, <1>6
    <2>3. ASSUME NEW k \in DOMAIN frames'
          PROVE  LET deps == DependsOn(frames'[k].name)
                     at == frames'[k].at
                 IN /\ at - 1 <= Len(deps)
                    /\ k < Len(frames') => at > 1 /\ deps[at - 1] = frames'[k + 1].name
                    /\ \A j \in 1 .. at - 1 :
                           (k < Len(frames') /\ j = at - 1) \/ deps[j] \in Finished'
      <3>1. /\ frames'[k] = frames[k] /\ k \in DOMAIN frames /\ k < L
            /\ k < Len(frames') => frames'[k + 1] = frames[k + 1]
        BY <1>2, <1>5
      <3>2. /\ frames[k].at - 1 <= Len(DependsOn(frames[k].name)) /\ frames[k].at > 1
            /\ DependsOn(frames[k].name)[frames[k].at - 1] = frames[k + 1].name
            /\ \A j \in 1 .. frames[k].at - 1 :
                   j = frames[k].at - 1 \/ DependsOn(frames[k].name)[j] \in Finished
        BY <3>1 DEF SearchInv, Nested, L
      <3>3. CASE k = L - 1
        <4>1. DependsOn(frames[k].name)[frames[k].at - 1] = n
          BY <1>2, <1>7, <3>2, <3>3
        <4> QED
          BY <1>2, <1>5, <1>10, <3>1, <3>2, <3>3, <4>1
      <3>4. CASE k < L - 1
        BY <1>5, <1>10, <3>1, <3>2, <3>4
      <3> QED
        BY <1>2, <1>5, <3>3, <3>4
    <2> QED
      BY <1>8, <2>1, <2>2, <2>3 DEF Nested
  <1>13. Validated' /\ Phased' /\ CycleIsReal'
    BY <1>0, <1>1, <1>8 DEF SearchInv, Validated, Phased, CycleIsReal, Accepted, Searched, sort
  <1>14. FinishedClosed'
    BY <1>8, <1>9, <1>10 DEF SearchInv, FinishedClosed
  <1>15. FinishedAcyclic'
    <2> SUFFICES ASSUME NEW names \in SUBSET Finished', Knot(names)
                 PROVE  FALSE
      BY <1>8 DEF FinishedAcyclic
    <2> DEFINE rest == names \ {n}
    <2>1. rest \subseteq Finished
      BY <1>10
    <2>2. ASSUME NEW x \in rest PROVE \E e \in Dependencies(x) : e \in rest
      <3>1. PICK e \in Dependencies(x) : e \in names
        BY DEF Knot
      <3>2. e \in Finished
        BY <2>1 DEF SearchInv, FinishedClosed
      <3> QED
        BY <1>10, <3>1, <3>2
    <2>3. rest # {}
      <3>1. CASE n \in names
        <4>1. PICK e \in Dependencies(n) : e \in names
          BY <3>1 DEF Knot
        <4> QED
          BY <1>9, <1>10, <4>1
      <3>2. CASE n \notin names
        BY <3>2 DEF Knot
      <3> QED
        BY <3>1, <3>2
    <2> QED
      BY <2>1, <2>2, <2>3 DEF SearchInv, FinishedAcyclic, Knot
  <1>16. Seen'
    BY <1>0 DEF SearchInv, Seen, Searched
  <1> QED
    BY <1>11, <1>12, <1>13, <1>14, <1>15, <1>16 DEF SearchInv

LEMMA NextRootKeeps ==
    ASSUME SearchInv, NextRoot
    PROVE  SearchInv'
  <1> DEFINE n == members[cursor].name
             new == [name |-> n, at |-> 1]
  <1>0. /\ phase = "searching" /\ frames = <<>> /\ cursor <= Len(members)
        /\ cursor' = cursor + 1
        /\ UNCHANGED <<members, phase, sort>>
    BY DEF NextRoot
  <1>1. ~ Duplicates /\ ~ MissingDependency
    BY <1>0 DEF SearchInv, Validated, Accepted
  <1>2. /\ cursor \in 1 .. Len(members) /\ DOMAIN members = 1 .. Len(members)
        /\ Len(members) \in Nat
        /\ cursor' \in 1 .. Len(members) + 1
    BY <1>0 DEF SearchInv, WorkspaceTypeOK
  <1>3. n \in MemberNames
    BY <1>2 DEF MemberNames
  <1>4. stack = {} /\ visited \subseteq MemberNames
    BY <1>0 DEF SearchInv, WorkspaceTypeOK
  <1>5. /\ MemberNames' = MemberNames
        /\ Duplicates' = Duplicates /\ MissingDependency' = MissingDependency
        /\ \A x : DependsOn(x)' = DependsOn(x)
        /\ \A x : Dependencies(x)' = Dependencies(x)
        /\ \A names : Knot(names)' = Knot(names)
    BY <1>0, SameMembers
  <1>6. Validated' /\ Phased' /\ CycleIsReal'
    BY <1>0, <1>1, <1>5 DEF SearchInv, Validated, Phased, CycleIsReal, Accepted, Searched, sort
  <1>7. CASE n \in visited
    <2>1. UNCHANGED <<frames, visited, stack>>
      BY <1>0, <1>7 DEF NextRoot, search
    <2>2. Finished' = Finished
      BY <2>1 DEF Finished
    <2>3. WorkspaceTypeOK'
      BY <1>0, <1>2, <2>1, TypeKept DEF SearchInv, WorkspaceTypeOK, Frame
    <2>4. Nested'
      BY <1>0, <1>4, <2>1 DEF Nested
    <2>5. FinishedClosed' /\ FinishedAcyclic'
      BY <1>5, <2>2 DEF SearchInv, FinishedClosed, FinishedAcyclic
    <2>6. Seen'
      <3>1. \A k \in 1 .. cursor - 1 : members[k].name \in visited
        BY <1>0 DEF SearchInv, Seen
      <3>2. \A k \in 1 .. cursor : members[k].name \in visited
        BY <1>2, <1>7, <3>1
      <3> QED
        BY <1>0, <1>2, <2>1, <3>2 DEF Seen, Searched
    <2> QED
      BY <1>6, <2>3, <2>4, <2>5, <2>6 DEF SearchInv
  <1>8. CASE n \notin visited
    <2>1. /\ frames' = Append(<<>>, new)
          /\ visited' = visited \union {n} /\ stack' = stack \union {n}
      BY <1>0, <1>8 DEF NextRoot, Enter
    <2>2. new \in Frame
      BY <1>3 DEF Frame
    <2>3. new.name = n /\ new.at = 1
      OBVIOUS
    <2> HIDE DEF n, new
    <2>4. /\ frames' \in Seq(Frame) /\ DOMAIN frames' = {1} /\ Len(frames') = 1
          /\ frames'[1] = new
      BY <2>1, <2>2
    <2>5. Finished' = Finished
      BY <1>4, <1>8, <2>1 DEF Finished
    <2>6. WorkspaceTypeOK'
      <3>1. stack' = {frames'[k].name : k \in DOMAIN frames'}
        BY <1>4, <2>1, <2>3, <2>4
      <3> QED
        BY <1>0, <1>2, <1>3, <1>4, <2>1, <2>4, <3>1, TypeKept DEF SearchInv
    <2>7. Nested'
      <3>1. stack' \subseteq visited'
        BY <1>4, <2>1
      <3>2. Len(DependsOn(n)) \in Nat
        BY <1>1, <1>3, Known DEF SearchInv
      <3>3. \A k \in DOMAIN frames' : k = 1 /\ frames'[k].name = n /\ frames'[k].at = 1
        BY <2>3, <2>4
      <3> QED
        BY <1>5, <2>4, <3>1, <3>2, <3>3 DEF Nested
    <2>8. FinishedClosed' /\ FinishedAcyclic'
      BY <1>5, <2>5 DEF SearchInv, FinishedClosed, FinishedAcyclic
    <2>9. Seen'
      <3>1. \A k \in 1 .. cursor - 1 : members[k].name \in visited
        BY <1>0 DEF SearchInv, Seen
      <3>2. \A k \in 1 .. cursor : members[k].name \in visited'
        BY <1>2, <2>1, <3>1 DEF n
      <3> QED
        BY <1>0, <1>2, <3>2 DEF Seen, Searched
    <2> QED
      BY <1>6, <2>6, <2>7, <2>8, <2>9 DEF SearchInv
  <1> QED
    BY <1>7, <1>8

\* When the loop is through, every member's call has returned.
LEMMA SearchEndsKeeps ==
    ASSUME SearchInv, SearchEnds
    PROVE  SearchInv'
  <1>0. /\ phase = "searching" /\ frames = <<>> /\ cursor > Len(members)
        /\ phase' = "sorting" /\ cursor' = 1
        /\ UNCHANGED <<members, frames, visited, stack, round, order, built>>
    BY DEF SearchEnds, search, sort
  <1>1. /\ MemberNames' = MemberNames
        /\ Duplicates' = Duplicates /\ MissingDependency' = MissingDependency
        /\ \A x : DependsOn(x)' = DependsOn(x)
        /\ \A x : Dependencies(x)' = Dependencies(x)
        /\ \A names : Knot(names)' = Knot(names)
    BY <1>0, SameMembers
  <1>2. Finished' = Finished /\ Finished = visited
    BY <1>0 DEF Finished, SearchInv, WorkspaceTypeOK
  <1>3. MemberNames \subseteq visited
    <2>1. Len(members) \in Nat /\ DOMAIN members = 1 .. Len(members) /\ cursor \in Nat
      BY DEF SearchInv, WorkspaceTypeOK
    <2>2. \A k \in 1 .. Len(members) : members[k].name \in visited
      BY <1>0, <2>1 DEF SearchInv, Seen
    <2> QED
      BY <2>1, <2>2 DEF MemberNames
  <1>4. WorkspaceTypeOK'
    BY <1>0, <1>1 DEF SearchInv, WorkspaceTypeOK
  <1>5. Validated' /\ Phased' /\ CycleIsReal' /\ Seen'
    BY <1>0, <1>1, <1>2, <1>3
    DEF SearchInv, Validated, Phased, CycleIsReal, Seen, Accepted, Searched
  <1>6. Nested' /\ FinishedClosed' /\ FinishedAcyclic'
    BY <1>0, <1>1, <1>2 DEF SearchInv, Nested, FinishedClosed, FinishedAcyclic
  <1> QED
    BY <1>4, <1>5, <1>6 DEF SearchInv

-----------------------------------------------------------------------------
(***************************************************************************)
(* What happens outside the search keeps its invariant.                    *)
(***************************************************************************)

LEMMA AddMemberKeeps ==
    ASSUME SearchInv, NEW m \in [name : Target, dependsOn : DepLists], AddMember(m)
    PROVE  SearchInv'
  <1>0. /\ members' = Append(members, m)
        /\ phase' = "editing" /\ cursor' = 1
        /\ frames' = <<>> /\ visited' = {} /\ stack' = {}
        /\ round' = 1 /\ order' = <<>> /\ built' = {}
    BY DEF AddMember
  <1>1. m \in Member
    BY WorkspaceAssumption DEF Member, DepLists
  <1>2. members' \in Seq(Member)
    BY <1>0, <1>1 DEF SearchInv, WorkspaceTypeOK
  <1>3. Len(members') \in Nat
    BY <1>2
  <1>4. WorkspaceTypeOK'
    BY <1>0, <1>2, <1>3 DEF WorkspaceTypeOK
  <1>5. Nested' /\ Validated' /\ Phased' /\ CycleIsReal' /\ Seen'
    BY <1>0 DEF Nested, Validated, Phased, CycleIsReal, Seen, Accepted, Searched
  <1>6. FinishedClosed' /\ FinishedAcyclic'
    <2>1. Finished' = {}
      BY <1>0 DEF Finished
    <2> QED
      BY <2>1 DEF FinishedClosed, FinishedAcyclic, Knot
  <1> QED
    BY <1>4, <1>5, <1>6 DEF SearchInv

LEMMA ValidateKeeps ==
    ASSUME SearchInv, Validate
    PROVE  SearchInv'
  <1>0. /\ phase = "editing"
        /\ phase' = IF Duplicates THEN "duplicate"
                    ELSE IF MissingDependency THEN "missing"
                    ELSE "searching"
        /\ UNCHANGED <<members, cursor, frames, visited, stack, round, order, built>>
    BY DEF Validate, search, sort
  <1>1. /\ frames = <<>> /\ visited = {} /\ stack = {}
        /\ order = <<>> /\ round = 1 /\ built = {} /\ cursor = 1
    BY <1>0 DEF SearchInv, Phased, WorkspaceTypeOK, Accepted, Searched
  <1>2. Finished' = {}
    BY <1>0, <1>1 DEF Finished
  <1>3. /\ Duplicates' = Duplicates /\ MissingDependency' = MissingDependency
        /\ MemberNames' = MemberNames
    BY <1>0, SameMembers
  <1>4. WorkspaceTypeOK'
    BY <1>0, <1>3 DEF SearchInv, WorkspaceTypeOK, Ended
  <1>5. Nested' /\ Validated' /\ Phased' /\ CycleIsReal'
    BY <1>0, <1>1, <1>3 DEF Nested, Validated, Phased, CycleIsReal, Accepted, Searched
  <1>6. FinishedClosed' /\ FinishedAcyclic'
    BY <1>2 DEF FinishedClosed, FinishedAcyclic, Knot
  <1>7. Seen'
    BY <1>0, <1>1 DEF Seen, Searched
  <1> QED
    BY <1>4, <1>5, <1>6, <1>7 DEF SearchInv

\* A step that touches neither the members nor the search, and stays within the
\* sort or ends it.
LEMMA SortingKeeps ==
    ASSUME SearchInv, WorkspaceTypeOK', phase = "sorting", phase' \in Searched,
           UNCHANGED <<members, frames, visited, stack>>
    PROVE  SearchInv'
  <1>1. /\ MemberNames' = MemberNames
        /\ Duplicates' = Duplicates /\ MissingDependency' = MissingDependency
        /\ \A x : DependsOn(x)' = DependsOn(x)
        /\ \A x : Dependencies(x)' = Dependencies(x)
        /\ \A names : Knot(names)' = Knot(names)
    BY SameMembers
  <1>2. Finished' = Finished
    BY DEF Finished
  <1>3. Nested' /\ FinishedClosed' /\ FinishedAcyclic'
    BY <1>1, <1>2 DEF SearchInv, Nested, FinishedClosed, FinishedAcyclic
  <1>4. Validated' /\ Phased' /\ CycleIsReal' /\ Seen'
    BY <1>1, <1>2 DEF SearchInv, Validated, Phased, CycleIsReal, Seen, Accepted, Searched
  <1> QED
    BY <1>3, <1>4 DEF SearchInv

\* What a turn of the sort's inner loop does: nothing, or it places the member.
LEMMA VisitEffect ==
    ASSUME SearchInv, Visit
    PROVE  /\ cursor \in DOMAIN members /\ members[cursor].name \in MemberNames
           /\ cursor' = cursor + 1 /\ cursor' \in 1 .. Len(members) + 1
           /\ UNCHANGED <<members, phase, frames, visited, stack, round>>
           /\ \/ /\ members[cursor].name \notin built /\ DepsMet(members[cursor])
                 /\ order' = Append(order, members[cursor].name)
                 /\ built' = built \union {members[cursor].name}
              \/ /\ members[cursor].name \in built \/ ~ DepsMet(members[cursor])
                 /\ order' = order /\ built' = built
           /\ WorkspaceTypeOK'
  <1>1. /\ cursor \in DOMAIN members
        /\ cursor' = cursor + 1 /\ cursor' \in 1 .. Len(members) + 1
        /\ UNCHANGED <<members, phase, frames, visited, stack, round>>
    BY DEF Visit, SearchInv, WorkspaceTypeOK, search
  <1>2. members[cursor].name \in MemberNames
    BY <1>1 DEF MemberNames
  <1>3. \/ /\ members[cursor].name \notin built /\ DepsMet(members[cursor])
           /\ order' = Append(order, members[cursor].name)
           /\ built' = built \union {members[cursor].name}
        \/ /\ members[cursor].name \in built \/ ~ DepsMet(members[cursor])
           /\ order' = order /\ built' = built
    BY DEF Visit, Place
  <1>4. order' \in Seq(MemberNames) /\ built' = {order'[k] : k \in DOMAIN order'}
    <2>1. order \in Seq(MemberNames) /\ built = {order[k] : k \in DOMAIN order}
      BY DEF SearchInv, WorkspaceTypeOK
    <2>2. CASE order' = order /\ built' = built
      BY <2>1, <2>2
    <2>3. CASE /\ order' = Append(order, members[cursor].name)
               /\ built' = built \union {members[cursor].name}
      BY <1>2, <2>1, <2>3, Appended
    <2> QED
      BY <1>3, <2>2, <2>3
  <1>5. MemberNames' = MemberNames
    BY <1>1, SameMembers
  <1>6. WorkspaceTypeOK'
    BY <1>1, <1>4, <1>5 DEF SearchInv, WorkspaceTypeOK
  <1> QED
    BY <1>1, <1>2, <1>3, <1>6

LEMMA SearchInvNext ==
    ASSUME SearchInv, [WorkspaceNext]_workspaceVars
    PROVE  SearchInv'
  <1>1. ASSUME NEW m \in [name : Target, dependsOn : DepLists], AddMember(m) PROVE SearchInv'
    BY <1>1, AddMemberKeeps
  <1>2. CASE Validate
    BY <1>2, ValidateKeeps
  <1>3. CASE NextRoot
    BY <1>3, NextRootKeeps
  <1>4. ASSUME NEW d \in Target, Descend(d) PROVE SearchInv'
    BY <1>4, DescendKeeps
  <1>5. ASSUME NEW d \in Target, FindCycle(d) PROVE SearchInv'
    BY <1>5, FindCycleKeeps
  <1>6. ASSUME NEW d \in Target, Pass(d) PROVE SearchInv'
    BY <1>6, PassKeeps
  <1>7. CASE Return
    BY <1>7, ReturnKeeps
  <1>8. CASE SearchEnds
    BY <1>8, SearchEndsKeeps
  <1>9. CASE Visit
    BY <1>9, VisitEffect, SortingKeeps DEF Visit, Searched
  <1>10. CASE NextRound
    <2>1. MemberNames' = MemberNames
      BY <1>10, SameMembers DEF NextRound
    <2>2. WorkspaceTypeOK'
      BY <1>10, <2>1 DEF NextRound, SearchInv, WorkspaceTypeOK, search
    <2> QED
      BY <1>10, <2>2, SortingKeeps DEF NextRound, Searched, search
  <1>11. CASE SortEnds
    <2>1. MemberNames' = MemberNames
      BY <1>11, SameMembers DEF SortEnds
    <2>2. WorkspaceTypeOK'
      BY <1>11, <2>1 DEF SortEnds, SearchInv, WorkspaceTypeOK, search, sort, Ended
    <2> QED
      BY <1>11, <2>2, SortingKeeps DEF SortEnds, Searched, search
  <1>12. CASE UNCHANGED workspaceVars
    <2>1. /\ MemberNames' = MemberNames
          /\ Duplicates' = Duplicates /\ MissingDependency' = MissingDependency
          /\ \A x : DependsOn(x)' = DependsOn(x)
          /\ \A x : Dependencies(x)' = Dependencies(x)
          /\ \A names : Knot(names)' = Knot(names)
      BY <1>12, SameMembers DEF workspaceVars
    <2>2. Finished' = Finished
      BY <1>12 DEF workspaceVars, Finished
    <2>3. WorkspaceTypeOK' /\ Validated' /\ Phased' /\ CycleIsReal' /\ Seen'
      BY <1>12, <2>1, <2>2 DEF workspaceVars, SearchInv, WorkspaceTypeOK,
         Validated, Phased, CycleIsReal, Seen
    <2>4. Nested' /\ FinishedClosed' /\ FinishedAcyclic'
      BY <1>12, <2>1, <2>2 DEF workspaceVars, SearchInv, Nested, FinishedClosed, FinishedAcyclic
    <2> QED
      BY <2>3, <2>4 DEF SearchInv
  <1> QED
    BY <1>1, <1>2, <1>3, <1>4, <1>5, <1>6, <1>7, <1>8, <1>9, <1>10, <1>11, <1>12
       DEF WorkspaceNext, Work

-----------------------------------------------------------------------------
(***************************************************************************)
(* The sort.                                                               *)
(***************************************************************************)

\* By the end of a pass either a member more is placed than passes were over
\* before it, or all are: otherwise those left would form a knot.
Progress ==
    phase = "sorting" =>
        \/ built = MemberNames
        \/ Len(order) >= round
        \/ /\ Len(order) >= round - 1
           /\ \A k \in 1 .. cursor - 1 :
                  members[k].name \in built \/ ~ DepsMet(members[k])

SortInv == SearchInv /\ OrderIsTopological /\ Progress /\ SortFindsAll

\* A sequence without repetitions has as many elements as it is long.
LEMMA CountDistinct ==
    ASSUME NEW S, NEW s \in Seq(S), \A j, k \in DOMAIN s : j # k => s[j] # s[k]
    PROVE  /\ IsFiniteSet({s[k] : k \in DOMAIN s})
           /\ Cardinality({s[k] : k \in DOMAIN s}) = Len(s)
  <1> DEFINE R == {s[k] : k \in DOMAIN s}
             f == [k \in 1 .. Len(s) |-> s[k]]
  <1>1. Len(s) \in Nat /\ DOMAIN s = 1 .. Len(s)
    OBVIOUS
  <1>2. f \in Bijection(1 .. Len(s), R)
    <2>1. f \in [1 .. Len(s) -> R]
      BY <1>1
    <2>2. \A x, y \in 1 .. Len(s) : x # y => f[x] # f[y]
      BY <1>1
    <2>3. \A t \in R : \E x \in 1 .. Len(s) : f[x] = t
      BY <1>1
    <2> QED
      BY <2>1, <2>2, <2>3 DEF Bijection, Injection, Surjection, IsInjective
  <1>3. ExistsBijection(1 .. Len(s), R)
    BY <1>2 DEF ExistsBijection
  <1> QED
    BY <1>1, <1>3, FS_CountingElements, FS_NatBijection

\* An accepted workspace has as many names as members, the order no more entries
\* than that, and as many only when it has all.
LEMMA OrderCounts ==
    ASSUME WorkspaceTypeOK, ~ Duplicates, OrderIsTopological
    PROVE  /\ Len(order) <= Len(members)
           /\ Len(order) = Len(members) <=> built = MemberNames
  <1> DEFINE names == [k \in 1 .. Len(members) |-> members[k].name]
  <1>1. members \in Seq(Member) /\ Len(members) \in Nat /\ DOMAIN members = 1 .. Len(members)
    BY DEF WorkspaceTypeOK
  <1>2. names \in Seq(MemberNames) /\ DOMAIN names = 1 .. Len(members) /\ Len(names) = Len(members)
    BY <1>1 DEF MemberNames
  <1>3. \A j, k \in DOMAIN names : j # k => names[j] # names[k]
    BY <1>1, <1>2 DEF Duplicates
  <1>4. MemberNames = {names[k] : k \in DOMAIN names}
    BY <1>1, <1>2 DEF MemberNames
  <1> HIDE DEF names
  <1>5. IsFiniteSet(MemberNames) /\ Cardinality(MemberNames) = Len(members)
    BY <1>2, <1>3, <1>4, CountDistinct
  <1>6. /\ order \in Seq(MemberNames) /\ built = {order[k] : k \in DOMAIN order}
        /\ \A j, k \in DOMAIN order : j # k => order[j] # order[k]
    BY DEF WorkspaceTypeOK, OrderIsTopological
  <1>7. Cardinality(built) = Len(order)
    BY <1>6, CountDistinct
  <1>8. built \in SUBSET MemberNames
    BY <1>6
  <1>9. Len(order) \in Nat
    BY <1>6
  <1>10. Cardinality(built) <= Cardinality(MemberNames)
    BY <1>5, <1>8, FS_Subset
  <1>11. Cardinality(MemberNames) = Cardinality(built) => MemberNames = built
    BY <1>5, <1>8, FS_Subset
  <1> QED
    BY <1>1, <1>5, <1>7, <1>9, <1>10, <1>11

LEMMA OrderNext ==
    ASSUME SortInv, SearchInv', [WorkspaceNext]_workspaceVars
    PROVE  OrderIsTopological'
  <1>1. CASE members' = members /\ order' = order
    <2>1. \A n : Dependencies(n)' = Dependencies(n)
      BY <1>1, SameMembers
    <2> QED
      BY <1>1, <2>1 DEF SortInv, OrderIsTopological
  <1>2. CASE order' = <<>>
    BY <1>2 DEF OrderIsTopological
  <1>3. CASE Visit
    <2> DEFINE m == members[cursor]
               L == Len(order)
    <2>1. /\ cursor \in DOMAIN members /\ m.name \in MemberNames
          /\ members' = members
          /\ \/ /\ m.name \notin built /\ DepsMet(m)
                /\ order' = Append(order, m.name)
             \/ order' = order
      BY <1>3, VisitEffect DEF SortInv
    <2>2. ~ Duplicates
      BY <1>3 DEF SortInv, SearchInv, Validated, Accepted, Visit
    <2>3. CASE m.name \notin built /\ DepsMet(m) /\ order' = Append(order, m.name)
      <3>1. /\ order \in Seq(MemberNames) /\ built = {order[k] : k \in DOMAIN order}
            /\ DOMAIN order = 1 .. L /\ L \in Nat
        BY DEF SortInv, SearchInv, WorkspaceTypeOK
      <3>2. /\ DOMAIN order' = 1 .. L + 1
            /\ \A k \in 1 .. L : order'[k] = order[k]
            /\ order'[L + 1] = m.name
        <4>1. m.name \in MemberNames /\ order' = Append(order, m.name)
          BY <2>1, <2>3
        <4> HIDE DEF m
        <4> QED
          BY <3>1, <4>1, Appended
      <3>3. \A n : Dependencies(n)' = Dependencies(n)
        BY <2>1, SameMembers
      <3>4. DependsOn(m.name) = m.dependsOn
        BY <2>1, <2>2, Found DEF SortInv, SearchInv
      <3>5. Dependencies(m.name) \subseteq built
        BY <2>3, <3>4 DEF Dependencies, DepsMet
      <3> HIDE DEF m, L
      <3>6. \A j, k \in DOMAIN order' : j # k => order'[j] # order'[k]
        <4>1. \A j, k \in 1 .. L : j # k => order[j] # order[k]
          BY <3>1 DEF SortInv, OrderIsTopological
        <4>2. \A k \in 1 .. L : order[k] # m.name
          BY <2>3, <3>1
        <4> QED
          BY <3>1, <3>2, <4>1, <4>2
      <3>7. ASSUME NEW k \in DOMAIN order', NEW d \in Dependencies(order'[k])
            PROVE  \E j \in 1 .. k - 1 : order'[j] = d
        <4>1. CASE k \in 1 .. L
          <5>1. PICK j \in 1 .. k - 1 : order[j] = d
            BY <3>1, <3>2, <4>1 DEF SortInv, OrderIsTopological
          <5> QED
            BY <3>1, <3>2, <4>1, <5>1
        <4>2. CASE k = L + 1
          <5>1. PICK j \in 1 .. L : order[j] = d
            BY <3>1, <3>2, <3>5, <4>2
          <5> QED
            BY <3>1, <3>2, <4>2, <5>1
        <4> QED
          BY <3>1, <3>2, <4>1, <4>2
      <3> QED
        BY <3>3, <3>6, <3>7 DEF OrderIsTopological
    <2> QED
      BY <1>1, <2>1, <2>3
  <1> QED
    BY <1>1, <1>2, <1>3
    DEF WorkspaceNext, Work, workspaceVars, search, sort, AddMember, Validate, NextRoot, Descend, FindCycle,
        Pass, Return, SearchEnds, NextRound, SortEnds

LEMMA ProgressNext ==
    ASSUME SortInv, SearchInv', [WorkspaceNext]_workspaceVars
    PROVE  Progress'
  <1>1. CASE Visit
    <2>1. /\ cursor \in DOMAIN members /\ cursor' = cursor + 1
          /\ members' = members /\ round' = round /\ phase = "sorting"
          /\ \/ /\ members[cursor].name \notin built /\ DepsMet(members[cursor])
                /\ order' = Append(order, members[cursor].name)
                /\ built' = built \union {members[cursor].name}
             \/ /\ members[cursor].name \in built \/ ~ DepsMet(members[cursor])
                /\ order' = order /\ built' = built
      BY <1>1, VisitEffect DEF SortInv, Visit
    <2>2. /\ MemberNames' = MemberNames /\ built' \subseteq MemberNames
          /\ order \in Seq(MemberNames) /\ Len(order) \in Nat /\ round \in Nat /\ cursor \in Nat
      BY <2>1, SameMembers DEF SortInv, SearchInv, WorkspaceTypeOK
    <2>3. CASE order' = Append(order, members[cursor].name) /\ built \subseteq built'
      <3>1. Len(order') = Len(order) + 1
        BY <2>2, <2>3
      <3> QED
        BY <2>1, <2>2, <2>3, <3>1 DEF SortInv, Progress
    <2>4. CASE /\ members[cursor].name \in built \/ ~ DepsMet(members[cursor])
               /\ order' = order /\ built' = built
      <3>1. \A m : DepsMet(m)' = DepsMet(m)
        BY <2>4 DEF DepsMet
      <3> QED
        BY <2>1, <2>2, <2>4, <3>1 DEF SortInv, Progress
    <2> QED
      BY <2>1, <2>3, <2>4
  <1>2. CASE NextRound
    <2>1. /\ phase = "sorting" /\ cursor > Len(members)
          /\ round' = round + 1 /\ cursor' = 1
          /\ UNCHANGED <<members, order, built>>
      BY <1>2 DEF NextRound
    <2>2. /\ ~ Duplicates /\ ~ MissingDependency /\ MemberNames \subseteq Finished
          /\ Len(members) \in Nat /\ DOMAIN members = 1 .. Len(members)
          /\ cursor \in Nat /\ round \in Nat /\ Len(order) \in Nat
          /\ built \subseteq MemberNames
      BY <2>1 DEF SortInv, SearchInv, Validated, Seen, WorkspaceTypeOK, Accepted, Searched
    <2>3. CASE Len(order) >= round
      BY <2>1, <2>2, <2>3 DEF Progress
    <2>4. CASE \A k \in 1 .. cursor - 1 : members[k].name \in built \/ ~ DepsMet(members[k])
      <3> DEFINE left == MemberNames \ built
      <3>1. ASSUME NEW n \in left PROVE \E d \in Dependencies(n) : d \in left
        <4>1. PICK k \in DOMAIN members : members[k].name = n
          BY DEF MemberNames
        <4>2. ~ DepsMet(members[k])
          BY <2>1, <2>2, <2>4, <4>1
        <4>3. PICK j \in DOMAIN members[k].dependsOn : members[k].dependsOn[j] \notin built
          BY <4>2 DEF DepsMet
        <4>4. DependsOn(n) = members[k].dependsOn
          BY <2>2, <4>1, Found DEF SortInv, SearchInv
        <4>5. members[k].dependsOn[j] \in MemberNames
          BY <2>2 DEF MissingDependency
        <4> QED
          BY <4>3, <4>4, <4>5 DEF Dependencies
      <3>2. left \in SUBSET Finished
        BY <2>2
      <3>3. left = {}
        BY <3>1, <3>2 DEF SortInv, SearchInv, FinishedAcyclic, Knot
      <3>4. built = MemberNames
        BY <2>2, <3>3
      <3> QED
        BY <2>1, <3>4, SameMembers DEF Progress
    <2>5. CASE built = MemberNames
      BY <2>1, <2>5, SameMembers DEF Progress
    <2> QED
      BY <2>1, <2>3, <2>4, <2>5 DEF SortInv, Progress
  <1>3. CASE SearchEnds
    <2>1. phase' = "sorting" /\ cursor' = 1 /\ round' = round /\ order' = order
      BY <1>3 DEF SearchEnds, sort
    <2>2. round = 1 /\ Len(order) = 0
      BY <1>3 DEF SearchEnds, SortInv, SearchInv, Phased, Searched
    <2> QED
      BY <2>1, <2>2 DEF Progress
  <1>4. CASE phase' # "sorting"
    BY <1>4 DEF Progress
  <1>5. CASE UNCHANGED workspaceVars
    BY <1>5 DEF workspaceVars, SortInv, Progress, MemberNames, DepsMet
  <1>6. ASSUME NEW m \in [name : Target, dependsOn : DepLists], AddMember(m)
        PROVE  phase' # "sorting"
    BY <1>6 DEF AddMember
  <1>7. CASE Validate
    BY <1>4, <1>7 DEF Validate
  <1>8. CASE NextRoot \/ Return
    BY <1>4, <1>8 DEF NextRoot, Return
  <1>9. ASSUME NEW d \in Target, Descend(d) \/ FindCycle(d) \/ Pass(d)
        PROVE  phase' # "sorting"
    BY <1>9 DEF Descend, FindCycle, Pass, AtDependency
  <1>10. CASE SortEnds
    BY <1>4, <1>10 DEF SortEnds
  <1> QED
    BY <1>1, <1>2, <1>3, <1>4, <1>5, <1>6, <1>7, <1>8, <1>9, <1>10 DEF WorkspaceNext, Work

LEMMA SortFindsAllNext ==
    ASSUME SortInv, [WorkspaceNext]_workspaceVars
    PROVE  SortFindsAll'
  <1>1. CASE SortEnds
    <2>1. /\ phase = "sorting" /\ round > Len(members)
          /\ phase' = IF Len(order) = Len(members) THEN "ordered" ELSE "unordered"
      BY <1>1 DEF SortEnds
    <2>2. /\ ~ Duplicates /\ cursor \in 1 .. Len(members) + 1
          /\ Len(members) \in Nat /\ round \in 1 .. Len(members) + 1 /\ Len(order) \in Nat
      BY <2>1 DEF SortInv, SearchInv, Validated, WorkspaceTypeOK, Accepted
    <2>3. /\ Len(order) <= Len(members)
          /\ Len(order) = Len(members) <=> built = MemberNames
      BY <2>2, OrderCounts DEF SortInv, SearchInv
    <2>4. built = MemberNames \/ Len(order) >= round - 1
      BY <2>1, <2>2 DEF SortInv, Progress
    <2>5. Len(order) = Len(members)
      BY <2>1, <2>2, <2>3, <2>4
    <2> QED
      BY <2>1, <2>5 DEF SortFindsAll
  <1>2. CASE phase' # "unordered"
    BY <1>2 DEF SortFindsAll
  <1>3. CASE phase' = phase
    BY <1>3 DEF SortInv, SortFindsAll
  <1> QED
    BY <1>1, <1>2, <1>3
    DEF WorkspaceNext, Work, workspaceVars, AddMember, Validate, NextRoot, Descend, FindCycle,
        Pass, Return, SearchEnds, Visit, NextRound

LEMMA SortInvInit ==
    ASSUME WorkspaceInit
    PROVE  SortInv
  <1>1. WorkspaceTypeOK
    BY DEF WorkspaceInit, WorkspaceTypeOK
  <1>2. Validated /\ Phased /\ Nested /\ Seen /\ CycleIsReal
    BY DEF WorkspaceInit, Validated, Phased, Nested, Seen, CycleIsReal, Accepted, Searched
  <1>3. FinishedClosed /\ FinishedAcyclic
    BY DEF WorkspaceInit, Finished, FinishedClosed, FinishedAcyclic, Knot
  <1>4. OrderIsTopological /\ Progress /\ SortFindsAll
    BY DEF WorkspaceInit, OrderIsTopological, Progress, SortFindsAll
  <1> QED
    BY <1>1, <1>2, <1>3, <1>4 DEF SortInv, SearchInv

LEMMA SortInvNext ==
    ASSUME SortInv, [WorkspaceNext]_workspaceVars
    PROVE  SortInv'
  <1>1. SearchInv'
    BY SearchInvNext DEF SortInv
  <1> QED
    BY <1>1, OrderNext, ProgressNext, SortFindsAllNext DEF SortInv

\* The invariant holds throughout.
LEMMA Invariant == WorkspaceSpec => []SortInv
  <1>1. WorkspaceInit => SortInv
    BY SortInvInit
  <1>2. SortInv /\ [WorkspaceNext]_workspaceVars => SortInv'
    BY SortInvNext
  <1> QED
    BY <1>1, <1>2, PTL DEF WorkspaceSpec

-----------------------------------------------------------------------------
\* Every workspace, of any number of members, keeps its search and sort typed.
THEOREM WorkspaceTyped == WorkspaceSpec => []WorkspaceTypeOK
  <1>1. SortInv => WorkspaceTypeOK
    BY DEF SortInv, SearchInv
  <1> QED
    BY <1>1, Invariant, PTL

\* What WorkspaceConfig::validate accepts has no cycle, whatever its size.
THEOREM ValidatedIsAcyclicAlways == WorkspaceSpec => []ValidatedIsAcyclic
  <1>1. SortInv => ValidatedIsAcyclic
    BY DEF SortInv, SearchInv, Seen, FinishedAcyclic, ValidatedIsAcyclic, Searched
  <1> QED
    BY <1>1, Invariant, PTL

\* A cycle detect_cycle reports is one: the names on its stack are a knot.
THEOREM CycleIsRealAlways == WorkspaceSpec => []CycleIsReal
  <1>1. SortInv => CycleIsReal
    BY DEF SortInv, SearchInv
  <1> QED
    BY <1>1, Invariant, PTL

\* The order build_order makes has every member after its dependencies, once.
THEOREM OrderIsTopologicalAlways == WorkspaceSpec => []OrderIsTopological
  <1>1. SortInv => OrderIsTopological
    BY DEF SortInv
  <1> QED
    BY <1>1, Invariant, PTL

\* The sort's passes place all members of a validated workspace: build_order's
\* second error return is never taken.
THEOREM SortFindsAllAlways == WorkspaceSpec => []SortFindsAll
  <1>1. SortInv => SortFindsAll
    BY DEF SortInv
  <1> QED
    BY <1>1, Invariant, PTL
=============================================================================
