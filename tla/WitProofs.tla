----------------------------- MODULE WitProofs ------------------------------
(***************************************************************************)
(* What holds of WitTypes for any names, items, member lists and widths,   *)
(* and of WitParser for any documents.                                     *)
(***************************************************************************)
EXTENDS WitTypes, WitParser, WellFoundedInduction, SequenceTheorems, TLAPS

-----------------------------------------------------------------------------
(***************************************************************************)
(* Flag sets: positions of members.                                        *)
(***************************************************************************)

Less == {ij \in Nat \X Nat : ij[1] < ij[2]}

LEMMA LeastIndex ==
    ASSUME NEW S \in SUBSET Nat, S # {}
    PROVE  \E i \in S : \A j \in S : i <= j
<1>1. IsWellFoundedOn(Less, Nat)
  BY NatLessThanWellFounded DEF Less, OpToRel
<1>2. PICK i \in S : \A j \in S : ~ (<<j, i>> \in Less)
  BY <1>1, WFMin, Zenon
<1>3. ASSUME NEW j \in S PROVE i <= j
  <2>1. <<j, i>> \in Nat \X Nat /\ ~ (<<j, i>>[1] < <<j, i>>[2])
    BY <1>2 DEF Less
  <2> QED BY <2>1
<1> QED BY <1>3

\* The position of a member is that of an index at which it is, less one.
LEMMA PositionIs ==
    ASSUME NEW s, s.members \in Seq(Flag), NEW f \in ToMembers(s)
    PROVE  /\ Position(s, f) \in 0 .. Len(s.members) - 1
           /\ s.members[Position(s, f) + 1] = f
<1> DEFINE S == {k \in DOMAIN s.members : s.members[k] = f}
<1>1. S # {} /\ S \subseteq Nat
  BY DEF ToMembers
<1>2. PICK k \in S : \A j \in S : k <= j
  BY <1>1, LeastIndex
<1>3. k \in DOMAIN s.members /\ s.members[k] = f
      /\ \A j \in DOMAIN s.members : s.members[j] = f => k <= j
  BY <1>2
<1> DEFINE p == CHOOSE i \in DOMAIN s.members :
                    s.members[i] = f /\ \A j \in DOMAIN s.members : s.members[j] = f => i <= j
<1>4. p \in DOMAIN s.members /\ s.members[p] = f
  BY <1>3
<1>5. Position(s, f) = p - 1
  BY DEF Position
<1> HIDE DEF p
<1>6. DOMAIN s.members = 1 .. Len(s.members)
  OBVIOUS
<1>7. p \in Nat /\ p >= 1 /\ p <= Len(s.members)
  BY <1>4, <1>6
<1> QED BY <1>4, <1>5, <1>7

\* The sets FlagsAreNames speaks of.
Fits(s) == OverflowChecks \/ Len(s.members) <= Width

\* Two members have one bit only if they are one, unless one of them panics.
LEMMA BitsApart ==
    ASSUME NEW s, s.members \in Seq(Flag), Fits(s),
           NEW f \in ToMembers(s), NEW g \in ToMembers(s),
           ~ Panics(s, f), ~ Panics(s, g), Bit(s, f) = Bit(s, g)
    PROVE  f = g
<1> DEFINE p == Position(s, f)
           q == Position(s, g)
<1>1. /\ p \in 0 .. Len(s.members) - 1 /\ s.members[p + 1] = f
      /\ q \in 0 .. Len(s.members) - 1 /\ s.members[q + 1] = g
  BY PositionIs
<1>2. p % Width = q % Width /\ Width \in Nat \ {0} /\ OverflowChecks \in BOOLEAN
  BY FlagAssumption DEF Bit
<1>3. OverflowChecks => p < Width /\ q < Width
  BY <1>1, <1>2 DEF Panics
<1>4. ~ OverflowChecks => Len(s.members) <= Width
  BY DEF Fits
<1> HIDE DEF p, q
<1>5. Len(s.members) \in Nat
  OBVIOUS
<1>6. p \in Nat /\ q \in Nat /\ p < Width /\ q < Width
  BY <1>1, <1>2, <1>3, <1>4, <1>5
<1>7. p % Width = p /\ q % Width = q
  BY <1>2, <1>6
<1> QED BY <1>1, <1>2, <1>7

-----------------------------------------------------------------------------
(***************************************************************************)
(* Flag sets: masks stand for names.                                       *)
(***************************************************************************)

\* Programs make flag sets with any lists of members.
FlagsStep ==
    \/ FlagsNext
    \/ \E x \in Variable, list \in Seq(Flag) : NewFlags(x, list)

FlagsSpec == FlagsInit /\ [][FlagsStep]_sets

Exact(s) ==
    s.known /\ Fits(s) =>
        \A f \in ToMembers(s) : Panics(s, f) \/ (Contains(s, f) <=> f \in s.names)
FlagsInv == FlagsTypeOK /\ \A x \in DOMAIN sets : Exact(sets[x])

\* A step that puts one set that is right into a variable keeps the invariant.
LEMMA BitsStay ==
    ASSUME FlagsInv, NEW x \in Variable, NEW s \in FlagSets, Exact(s), Assign(x, s)
    PROVE  FlagsInv'
<1>1. DOMAIN sets' = DOMAIN sets \union {x}
  BY DEF Assign
<1>2. \A y \in DOMAIN sets' : sets'[y] = IF y = x THEN s ELSE sets[y]
  BY DEF Assign
<1>3. \A y \in DOMAIN sets : sets[y] \in FlagSets /\ Exact(sets[y])
  BY DEF FlagsInv, FlagsTypeOK
<1>4. sets' = [y \in DOMAIN sets' |-> sets'[y]]
  BY DEF Assign
<1>5. FlagsTypeOK'
  BY <1>1, <1>2, <1>3, <1>4 DEF FlagsInv, FlagsTypeOK
<1>6. \A y \in DOMAIN sets' : Exact(sets'[y])
  BY <1>1, <1>2, <1>3
<1> QED BY <1>5, <1>6 DEF FlagsInv

LEMMA BitInMask ==
    ASSUME NEW s, s.members \in Seq(Flag), NEW f \in ToMembers(s)
    PROVE  Bit(s, f) \in 0 .. Width - 1
<1>1. Position(s, f) \in Nat
  BY PositionIs
<1> QED BY <1>1, FlagAssumption DEF Bit

\* set puts in the bit of f and of no other member.
LEMMA SetKeeps ==
    ASSUME FlagsInv, NEW x \in DOMAIN sets, NEW f \in Flag, SetFlag(x, f)
    PROVE  FlagsInv'
<1> DEFINE s == sets[x]
           t == [s EXCEPT !.value = @ \union {Bit(s, f)}, !.names = @ \union {f}]
<1>1. s \in FlagSets /\ Exact(s) /\ x \in Variable
  BY DEF FlagsInv, FlagsTypeOK
<1>2. f \in ToMembers(s) /\ ~ Panics(s, f) /\ Assign(x, t)
  BY DEF SetFlag
<1>3. Bit(s, f) \in 0 .. Width - 1
  BY <1>1, <1>2, BitInMask DEF FlagSets
<1>4. t \in FlagSets
  BY <1>1, <1>3 DEF FlagSets
<1>5. /\ t.members = s.members /\ t.known = s.known
      /\ t.value = s.value \union {Bit(s, f)} /\ t.names = s.names \union {f}
  BY <1>1 DEF FlagSets
<1> HIDE DEF t
<1>6. /\ ToMembers(t) = ToMembers(s) /\ (Fits(t) <=> Fits(s))
      /\ \A g : Position(t, g) = Position(s, g)
  BY <1>5 DEF ToMembers, Fits, Position
<1>7. \A g : Bit(t, g) = Bit(s, g) /\ (Panics(t, g) <=> Panics(s, g))
  BY <1>6 DEF Bit, Panics
<1>8. ASSUME t.known, Fits(t), NEW g \in ToMembers(t), ~ Panics(t, g)
      PROVE  Contains(t, g) <=> g \in t.names
  <2>1. g \in ToMembers(s) /\ ~ Panics(s, g) /\ Fits(s) /\ s.known
    BY <1>5, <1>6, <1>7, <1>8
  <2>2. Contains(s, g) <=> g \in s.names
    BY <1>1, <2>1 DEF Exact
  <2>3. Bit(s, g) = Bit(s, f) => g = f
    BY <1>1, <1>2, <2>1, BitsApart DEF FlagSets
  <2> HIDE DEF s
  <2> QED BY <1>5, <1>7, <2>2, <2>3 DEF Contains
<1>9. Exact(t)
  BY <1>8 DEF Exact
<1> QED BY <1>1, <1>2, <1>4, <1>9, BitsStay

\* clear takes out the bit of f and of no other member.
LEMMA ClearKeeps ==
    ASSUME FlagsInv, NEW x \in DOMAIN sets, NEW f \in Flag, ClearFlag(x, f)
    PROVE  FlagsInv'
<1> DEFINE s == sets[x]
           t == [s EXCEPT !.value = @ \ {Bit(s, f)}, !.names = @ \ {f}]
<1>1. s \in FlagSets /\ Exact(s) /\ x \in Variable
  BY DEF FlagsInv, FlagsTypeOK
<1>2. f \in ToMembers(s) /\ ~ Panics(s, f) /\ Assign(x, t)
  BY DEF ClearFlag
<1>4. t \in FlagSets
  BY <1>1 DEF FlagSets
<1>5. /\ t.members = s.members /\ t.known = s.known
      /\ t.value = s.value \ {Bit(s, f)} /\ t.names = s.names \ {f}
  BY <1>1 DEF FlagSets
<1> HIDE DEF t
<1>6. /\ ToMembers(t) = ToMembers(s) /\ (Fits(t) <=> Fits(s))
      /\ \A g : Position(t, g) = Position(s, g)
  BY <1>5 DEF ToMembers, Fits, Position
<1>7. \A g : Bit(t, g) = Bit(s, g) /\ (Panics(t, g) <=> Panics(s, g))
  BY <1>6 DEF Bit, Panics
<1>8. ASSUME t.known, Fits(t), NEW g \in ToMembers(t), ~ Panics(t, g)
      PROVE  Contains(t, g) <=> g \in t.names
  <2>1. g \in ToMembers(s) /\ ~ Panics(s, g) /\ Fits(s) /\ s.known
    BY <1>5, <1>6, <1>7, <1>8
  <2>2. Contains(s, g) <=> g \in s.names
    BY <1>1, <2>1 DEF Exact
  <2>3. Bit(s, g) = Bit(s, f) => g = f
    BY <1>1, <1>2, <2>1, BitsApart DEF FlagSets
  <2> HIDE DEF s
  <2> QED BY <1>5, <1>7, <2>2, <2>3 DEF Contains
<1>9. Exact(t)
  BY <1>8 DEF Exact
<1> QED BY <1>1, <1>2, <1>4, <1>9, BitsStay

\* What a union or an intersection yields has the members of the first set, so its
\* positions and bits are those of both sets when they have one member list.
LEMMA CombinedKeep ==
    ASSUME FlagsInv, NEW x \in Variable, NEW y \in DOMAIN sets, NEW z \in DOMAIN sets,
           UnionTo(x, y, z) \/ IntersectionTo(x, y, z)
    PROVE  FlagsInv'
<1> DEFINE s == sets[y]
           t == sets[z]
           both == [members |-> s.members, value |-> s.value \union t.value,
                    names |-> s.names \union t.names, known |-> Together(s, t)]
           common == [members |-> s.members, value |-> s.value \intersect t.value,
                      names |-> s.names \intersect t.names, known |-> Together(s, t)]
<1>1. s \in FlagSets /\ Exact(s) /\ t \in FlagSets /\ Exact(t)
  BY DEF FlagsInv, FlagsTypeOK
<1>2. Together(s, t) \in BOOLEAN
  BY <1>1 DEF Together, FlagSets
<1>3. both \in FlagSets /\ common \in FlagSets
  BY <1>1, <1>2 DEF FlagSets
<1>4. ASSUME NEW u \in {both, common} PROVE Exact(u)
  <2>1. u.members = s.members /\ u.known = Together(s, t)
    OBVIOUS
  <2>2. \A g : Position(u, g) = Position(s, g)
    BY <2>1 DEF Position
  <2>3. \A g : Bit(u, g) = Bit(s, g) /\ (Panics(u, g) <=> Panics(s, g))
    BY <2>2 DEF Bit, Panics
  <2>4. ASSUME u.known, Fits(u), NEW g \in ToMembers(u), ~ Panics(u, g)
        PROVE  Contains(u, g) <=> g \in u.names
    <3>1. s.known /\ t.known /\ s.members = t.members
      BY <2>1, <2>4 DEF Together
    <3>2. /\ g \in ToMembers(s) /\ ~ Panics(s, g) /\ Fits(s)
      BY <2>1, <2>3, <2>4 DEF ToMembers, Fits
    <3>3. Position(t, g) = Position(s, g)
      BY <3>1 DEF Position
    <3>4. g \in ToMembers(t) /\ ~ Panics(t, g) /\ Fits(t) /\ Bit(t, g) = Bit(s, g)
      BY <3>1, <3>2, <3>3 DEF ToMembers, Fits, Panics, Bit
    <3>5. Contains(s, g) <=> g \in s.names
      BY <1>1, <3>1, <3>2 DEF Exact
    <3>6. Contains(t, g) <=> g \in t.names
      BY <1>1, <3>1, <3>4 DEF Exact
    <3>7. \/ u.value = s.value \union t.value /\ u.names = s.names \union t.names
          \/ u.value = s.value \intersect t.value /\ u.names = s.names \intersect t.names
      OBVIOUS
    <3> HIDE DEF s, t
    <3> QED BY <2>3, <3>4, <3>5, <3>6, <3>7 DEF Contains
  <2> QED BY <2>4 DEF Exact
<1>5. Assign(x, both) \/ Assign(x, common)
  BY DEF UnionTo, IntersectionTo
<1> HIDE DEF both, common
<1> QED BY <1>3, <1>4, <1>5, BitsStay

LEMMA NewKeeps ==
    ASSUME FlagsInv, NEW x \in Variable, NEW list \in Seq(Flag), NewFlags(x, list)
    PROVE  FlagsInv'
<1> DEFINE s == [members |-> list, value |-> {}, names |-> {}, known |-> TRUE]
<1>1. s \in FlagSets
  BY DEF FlagSets
<1>2. Exact(s)
  BY DEF Exact, Contains
<1>3. Assign(x, s)
  BY DEF NewFlags
<1> HIDE DEF s
<1> QED BY <1>1, <1>2, <1>3, BitsStay

\* For any lists of members and any width, the mask of a flag set stands for the
\* names that were set and not cleared.
THEOREM FlagsAreNamesAlways == FlagsSpec => []FlagsAreNames
<1>1. FlagsInit => FlagsInv
  BY DEF FlagsInit, FlagsInv, FlagsTypeOK
<1>2. FlagsInv /\ [FlagsStep]_sets => FlagsInv'
  <2> SUFFICES ASSUME FlagsInv, [FlagsStep]_sets PROVE FlagsInv'
    OBVIOUS
  <2>1. DOMAIN sets \subseteq Variable
    BY DEF FlagsInv, FlagsTypeOK
  <2>2. CASE \E x \in DOMAIN sets, f \in Flag : SetFlag(x, f) \/ ClearFlag(x, f)
    BY <2>2, SetKeeps, ClearKeeps
  <2>3. CASE \E x \in Variable, y, z \in DOMAIN sets : UnionTo(x, y, z) \/ IntersectionTo(x, y, z)
    BY <2>3, CombinedKeep
  <2>4. CASE \E x \in Variable, list \in Seq(Flag) : NewFlags(x, list)
    BY <2>4, NewKeeps
  <2>5. CASE UNCHANGED sets
    BY <2>5 DEF FlagsInv, FlagsTypeOK
  <2> QED BY <2>2, <2>3, <2>4, <2>5 DEF FlagsStep, FlagsNext
<1>3. FlagsInv => FlagsAreNames
  BY DEF FlagsInv, FlagsAreNames, Exact, Fits
<1> QED BY <1>1, <1>2, <1>3, PTL DEF FlagsSpec

-----------------------------------------------------------------------------
(***************************************************************************)
(* References.                                                             *)
(***************************************************************************)

\* Every import was brought in by an item that is done.
ImportsDone ==
    /\ done \in Seq(Item)
    /\ \A n \in DOMAIN imports : \E j \in DOMAIN done :
           Brings(done[j], n) /\ done[j].name = imports[n]

LEMMA ItemsMove ==
    ASSUME ImportsDone, NEW item \in Item, Register(item)
    PROVE  /\ ImportsDone'
           /\ \A n \in Name : Named(n)' # Named(n) =>
                  Defines(item, n) \/ (n \notin DOMAIN typeDefs /\ Touches(item, n))
<1>1. /\ done' = Append(done, item) /\ done' \in Seq(Item)
      /\ \A j \in DOMAIN done : j \in DOMAIN done' /\ done'[j] = done[j]
      /\ Len(done) + 1 \in DOMAIN done' /\ done'[Len(done) + 1] = item
  BY DEF ImportsDone, Register
<1>2. CASE RegisterUse(item)
  <2>1. /\ item.kind = "use" /\ typeDefs' = typeDefs
        /\ DOMAIN imports' = DOMAIN imports \union {item.as}
        /\ \A n \in DOMAIN imports' : imports'[n] = IF n = item.as THEN item.name ELSE imports[n]
    BY <1>2 DEF RegisterUse, Set
  <2>2. ImportsDone'
    BY <1>1, <2>1 DEF ImportsDone, Brings
  <2>3. ASSUME NEW n \in Name, Named(n)' # Named(n), n # item.as PROVE FALSE
    BY <2>1, <2>3 DEF Named
  <2>4. ASSUME NEW n \in Name, Named(n)' # Named(n) PROVE n \notin DOMAIN typeDefs
    BY <2>1, <2>4 DEF Named
  <2> QED BY <2>1, <2>2, <2>3, <2>4 DEF Touches, Brings
<1>3. CASE RegisterTypeDef(item)
  <2>1. /\ item.kind # "use" /\ imports' = imports
        /\ DOMAIN typeDefs' = DOMAIN typeDefs \union {item.name}
        /\ \A n \in DOMAIN typeDefs : n # item.name => typeDefs'[n] = typeDefs[n]
    BY <1>3 DEF RegisterTypeDef, Set
  <2>2. ImportsDone'
    BY <1>1, <2>1 DEF ImportsDone, Brings
  <2>3. ASSUME NEW n \in Name, Named(n)' # Named(n), n # item.name
        PROVE  n \notin DOMAIN typeDefs /\ n \in DOMAIN imports /\ imports[n] = item.name
    BY <2>1, <2>3 DEF Named
  <2>4. ASSUME NEW n \in DOMAIN imports, imports[n] = item.name
        PROVE  Touches(item, n)
    BY <2>1, <2>4 DEF Touches, ImportsDone, Defines, Brings
  <2> QED BY <2>1, <2>2, <2>3, <2>4 DEF Defines
<1> QED BY <1>2, <1>3 DEF Register

\* What a name maps to moves only with its definition, its import or its original,
\* whatever the items.
THEOREM ReferencesMoveAlways == Spec => ReferencesMove
<1>1. Init => ImportsDone
  BY DEF Init, MapperInit, ImportsDone
<1>2. ImportsDone /\ [Next]_vars => ImportsDone'
  <2> SUFFICES ASSUME ImportsDone, [Next]_vars PROVE ImportsDone'
    OBVIOUS
  <2>1. CASE MapperNext
    BY <2>1, ItemsMove DEF MapperNext
  <2>2. CASE UNCHANGED mapperVars
    BY <2>2 DEF mapperVars, ImportsDone, Brings
  <2> QED BY <2>1, <2>2 DEF Next, vars
<1>3. ImportsDone /\ [Next]_vars =>
        [\A n \in Name : Named(n)' # Named(n) =>
            \E item \in Item :
                /\ done' = Append(done, item)
                /\ \/ Defines(item, n)
                   \/ n \notin DOMAIN typeDefs /\ Touches(item, n)]_mapperVars
  <2> SUFFICES ASSUME ImportsDone, [Next]_vars, ~ UNCHANGED mapperVars,
                      NEW n \in Name, Named(n)' # Named(n)
               PROVE  \E item \in Item :
                          /\ done' = Append(done, item)
                          /\ \/ Defines(item, n)
                             \/ n \notin DOMAIN typeDefs /\ Touches(item, n)
    OBVIOUS
  <2>1. PICK item \in Item : Register(item)
    BY DEF Next, vars, MapperNext
  <2>2. done' = Append(done, item)
    BY <2>1 DEF Register
  <2> QED BY <2>1, <2>2, ItemsMove
<1> QED BY <1>1, <1>2, <1>3, PTL DEF Spec, ReferencesMove

-----------------------------------------------------------------------------
(***************************************************************************)
(* What a reference maps to.  map_type_ref is recursive, so that there is  *)
(* a function it computes has to be shown first: on the references whose   *)
(* arguments it is already known for there is one and only one, and since  *)
(* references are finite these are all.                                    *)
(***************************************************************************)

\* What r maps to when f is what references map to and N what names stand for.
Step(N, f, r) ==
    IF r.kind = "named" THEN N[r.name]
    ELSE IF r.kind \in Handle THEN f[r.args[1]]
    ELSE IF r.kind \in DOMAIN Generic
         THEN Type(Generic[r.kind], None, [i \in DOMAIN r.args |-> f[r.args[i]]])
    ELSE Type(r.kind, r.name, <<>>)

\* f is the mapping of the references in D.
Maps(N, D, f) ==
    /\ D \in SUBSET Ref /\ Closed(D)
    /\ f = [r \in D |-> Step(N, f, r)]

\* A step looks at nothing but the name, when the reference is one, and at what
\* the arguments map to.
LEMMA StepDepends ==
    ASSUME NEW N, NEW M, NEW f, NEW g, NEW r \in Ref,
           r.kind = "named" => N[r.name] = M[r.name],
           \A i \in DOMAIN r.args : f[r.args[i]] = g[r.args[i]]
    PROVE  Step(N, f, r) = Step(M, g, r)
<1>1. RefShape(r)
  BY MapperAssumption
<1>2. CASE r.kind = "named"
  BY <1>2 DEF Step
<1>3. CASE r.kind # "named" /\ r.kind \in Handle
  <2>1. 1 \in DOMAIN r.args
    BY <1>1, <1>3 DEF RefShape
  <2> QED BY <1>3, <2>1 DEF Step
<1>4. CASE r.kind # "named" /\ r.kind \notin Handle
  <2>1. [i \in DOMAIN r.args |-> f[r.args[i]]] = [i \in DOMAIN r.args |-> g[r.args[i]]]
    OBVIOUS
  <2> QED BY <1>4, <2>1 DEF Step
<1> QED BY <1>2, <1>3, <1>4

LEMMA MapsEquation ==
    ASSUME NEW N, NEW D, NEW f, Maps(N, D, f), NEW r \in D
    PROVE  /\ f[r] = Step(N, f, r) /\ r \in Ref
           /\ \A i \in DOMAIN r.args : r.args[i] \in D
<1> DEFINE h == [q \in D |-> Step(N, f, q)]
<1>1. f = h
  BY DEF Maps
<1>2. h[r] = Step(N, f, r)
  OBVIOUS
<1> HIDE DEF h
<1>3. f[r] = h[r]
  BY <1>1
<1> QED BY <1>2, <1>3 DEF Maps, Closed

\* In a set of references that is not empty, one has no argument in it.
LEMMA Minimal ==
    ASSUME NEW S \in SUBSET Ref, S # {}
    PROVE  \E r \in S : \A i \in DOMAIN r.args : r.args[i] \notin S
  BY MapperAssumption DEF Founded

\* Two mappings give one result for a reference both have, when they agree on the
\* names in it.
LEMMA MapsDepend ==
    ASSUME NEW N, NEW M, NEW D, NEW E, NEW f, NEW g, Maps(N, D, f), Maps(M, E, g),
           NEW P \in SUBSET Ref, Closed(P), P \subseteq D, P \subseteq E,
           \A r \in P : r.kind = "named" => N[r.name] = M[r.name]
    PROVE  \A r \in P : f[r] = g[r]
<1> DEFINE S == {r \in P : f[r] # g[r]}
<1> SUFFICES ASSUME S # {} PROVE FALSE
  OBVIOUS
<1>1. PICK r \in S : \A i \in DOMAIN r.args : r.args[i] \notin S
  <2>1. S \in SUBSET Ref
    OBVIOUS
  <2> HIDE DEF S
  <2> QED BY <2>1, Minimal
<1>2. r \in P /\ r \in D /\ r \in E /\ r \in Ref /\ f[r] # g[r]
  OBVIOUS
<1>3. \A i \in DOMAIN r.args : r.args[i] \in P
  BY <1>2 DEF Closed
<1>4. \A i \in DOMAIN r.args : f[r.args[i]] = g[r.args[i]]
  BY <1>1, <1>3
<1>5. f[r] = Step(N, f, r) /\ g[r] = Step(M, g, r)
  BY <1>2, MapsEquation
<1>6. Step(N, f, r) = Step(M, g, r)
  BY <1>2, <1>4, StepDepends
<1> QED BY <1>2, <1>5, <1>6

\* The mapping of two sets of references is one where they overlap.
LEMMA MapsAgree ==
    ASSUME NEW N, NEW D, NEW E, NEW f, NEW g, Maps(N, D, f), Maps(N, E, g)
    PROVE  \A r \in D \cap E : f[r] = g[r]
<1> DEFINE P == D \cap E
<1>1. P \in SUBSET Ref /\ Closed(P) /\ P \subseteq D /\ P \subseteq E
  BY DEF Maps, Closed
<1>2. \A r \in P : r.kind = "named" => N[r.name] = N[r.name]
  OBVIOUS
<1> HIDE DEF P
<1>3. \A r \in P : f[r] = g[r]
  BY <1>1, <1>2, MapsDepend
<1> QED BY <1>3 DEF P

\* There is a mapping of all references.
LEMMA MapsExist ==
    ASSUME NEW N
    PROVE  \E f : Maps(N, Ref, f)
<1> DEFINE Known == {D \in SUBSET Ref : \E f : Maps(N, D, f)}
           U == UNION Known
           value(r) == CHOOSE v : \E D \in SUBSET Ref : \E f :
                           Maps(N, D, f) /\ r \in D /\ v = f[r]
           G == [r \in U |-> value(r)]
<1>1. ASSUME NEW D, NEW f, Maps(N, D, f), NEW r \in D PROVE G[r] = f[r] /\ r \in U
  <2>1. D \in SUBSET Ref
    BY <1>1 DEF Maps
  <2>2. r \in U
    BY <1>1, <2>1
  <2>3. \E C \in SUBSET Ref : \E g : Maps(N, C, g) /\ r \in C /\ value(r) = g[r]
    <3>1. \E v : \E C \in SUBSET Ref : \E g : Maps(N, C, g) /\ r \in C /\ v = g[r]
      BY <1>1, <2>1
    <3> QED BY <3>1
  <2>4. PICK C \in SUBSET Ref : \E g : Maps(N, C, g) /\ r \in C /\ value(r) = g[r]
    BY <2>3
  <2>5. PICK g : Maps(N, C, g) /\ r \in C /\ value(r) = g[r]
    BY <2>4
  <2>6. G[r] = value(r)
    BY <2>2
  <2> HIDE DEF value, G, U
  <2>7. f[r] = g[r]
    BY <1>1, <2>5, MapsAgree
  <2> QED BY <2>2, <2>5, <2>6, <2>7
<1>2. ASSUME NEW r \in U PROVE \E D, f : Maps(N, D, f) /\ r \in D
  OBVIOUS
<1>3. U \in SUBSET Ref
  OBVIOUS
<1>4. G = [r \in U |-> G[r]]
  OBVIOUS
<1> HIDE DEF Known, U, value, G
<1>5. Closed(U)
  <2> SUFFICES ASSUME NEW r \in U, NEW i \in DOMAIN r.args PROVE r.args[i] \in U
    BY DEF Closed
  <2>1. PICK D, f : Maps(N, D, f) /\ r \in D
    BY <1>2
  <2>2. r.args[i] \in D
    BY <2>1, MapsEquation
  <2> QED BY <1>1, <2>1, <2>2
<1>6. ASSUME NEW r \in U PROVE G[r] = Step(N, G, r)
  <2>1. PICK D, f : Maps(N, D, f) /\ r \in D
    BY <1>2
  <2>2. f[r] = Step(N, f, r) /\ r \in Ref /\ \A i \in DOMAIN r.args : r.args[i] \in D
    BY <2>1, MapsEquation
  <2>3. \A i \in DOMAIN r.args : G[r.args[i]] = f[r.args[i]]
    BY <1>1, <2>1, <2>2
  <2>4. Step(N, G, r) = Step(N, f, r)
    BY <2>2, <2>3, StepDepends
  <2> QED BY <1>1, <2>1, <2>2, <2>4
<1>7. [r \in U |-> G[r]] = [r \in U |-> Step(N, G, r)]
  BY <1>6
<1>8. Maps(N, U, G)
  BY <1>3, <1>4, <1>5, <1>7 DEF Maps
<1>9. U = Ref
  <2> SUFFICES ASSUME Ref \ U # {} PROVE FALSE
    BY <1>3
  <2>1. PICK r \in Ref \ U : \A i \in DOMAIN r.args : r.args[i] \notin Ref \ U
    BY Minimal
  <2>2. \A i \in DOMAIN r.args : r.args[i] \in U
    <3>1. RefShape(r)
      BY MapperAssumption
    <3>2. \A i \in DOMAIN r.args : r.args[i] \in Ref
      BY <3>1 DEF RefShape
    <3> QED BY <2>1, <3>2
  <2> DEFINE D == U \union {r}
             last == Step(N, G, r)
             f == [q \in D |-> IF q \in U THEN G[q] ELSE last]
             h == [q \in D |-> Step(N, f, q)]
  <2>3. D \in SUBSET Ref /\ Closed(D)
    BY <1>3, <1>5, <2>2 DEF Closed
  <2>4. (\A q \in U : f[q] = G[q]) /\ f[r] = last
    OBVIOUS
  <2>5. ASSUME NEW q \in D PROVE f[q] = h[q]
    <3> HIDE DEF f
    <3>1. \A i \in DOMAIN q.args : q.args[i] \in U
      BY <1>5, <2>2 DEF Closed
    <3>2. \A i \in DOMAIN q.args : f[q.args[i]] = G[q.args[i]]
      BY <2>4, <3>1
    <3>3. q \in Ref
      BY <2>3
    <3>4. Step(N, f, q) = Step(N, G, q)
      BY <3>2, <3>3, StepDepends
    <3>5. h[q] = Step(N, f, q)
      OBVIOUS
    <3>6. f[q] = Step(N, G, q)
      BY <1>6, <2>4
    <3> QED BY <3>4, <3>5, <3>6
  <2>6. f = h
    BY <2>5
  <2>7. Maps(N, D, f)
    <3> HIDE DEF D
    <3> QED BY <2>3, <2>6 DEF Maps
  <2>8. r \in D
    OBVIOUS
  <2> HIDE DEF D, f
  <2>9. r \in U
    BY <1>1, <2>7, <2>8
  <2> QED BY <2>9
<1> QED BY <1>8, <1>9

\* What a reference maps to is what the mapping of all references has for it.
LEMMA MappedIs ==
    ASSUME NEW N, \A n \in Name : N[n] = Named(n), NEW f, Maps(N, Ref, f), NEW ref \in Ref
    PROVE  Mapped(ref) = f[ref]
<1> DEFINE Is(g) == g = [r \in Ref |->
                            IF r.kind = "named" THEN Named(r.name)
                            ELSE IF r.kind \in Handle THEN g[r.args[1]]
                            ELSE IF r.kind \in DOMAIN Generic
                                 THEN Type(Generic[r.kind], None, [i \in DOMAIN r.args |-> g[r.args[i]]])
                            ELSE Type(r.kind, r.name, <<>>)]
           map == CHOOSE g : Is(g)
<1>1. ASSUME NEW g PROVE Is(g) <=> Maps(N, Ref, g)
  <2> DEFINE body(r) == IF r.kind = "named" THEN Named(r.name)
                        ELSE IF r.kind \in Handle THEN g[r.args[1]]
                        ELSE IF r.kind \in DOMAIN Generic
                             THEN Type(Generic[r.kind], None, [i \in DOMAIN r.args |-> g[r.args[i]]])
                        ELSE Type(r.kind, r.name, <<>>)
  <2>1. ASSUME NEW r \in Ref PROVE body(r) = Step(N, g, r)
    <3>1. r.kind = "named" => Named(r.name) = N[r.name]
      BY MapperAssumption DEF RefShape
    <3> QED BY <3>1 DEF Step
  <2>2. Is(g) <=> g = [r \in Ref |-> body(r)]
    OBVIOUS
  <2>3. Closed(Ref)
    BY MapperAssumption DEF RefShape, Closed
  <2> HIDE DEF body, Is
  <2>4. [r \in Ref |-> body(r)] = [r \in Ref |-> Step(N, g, r)]
    BY <2>1
  <2> QED BY <2>2, <2>3, <2>4 DEF Maps
<1>2. Mapped(ref) = map[ref]
  BY DEF Mapped
<1> HIDE DEF Is
<1>3. Is(f)
  BY <1>1
<1>4. Is(map)
  BY <1>3
<1>5. Maps(N, Ref, map)
  BY <1>1, <1>4
<1> HIDE DEF map
<1>6. map[ref] = f[ref]
  BY <1>5, MapsAgree
<1> QED BY <1>2, <1>6

LEMMA PartsClosed ==
    ASSUME NEW ref \in Ref
    PROVE  Parts(ref) \in SUBSET Ref /\ ref \in Parts(ref) /\ Closed(Parts(ref))
<1>1. ASSUME NEW r \in Parts(ref), NEW i \in DOMAIN r.args PROVE r.args[i] \in Parts(ref)
  <2>1. r \in Ref /\ \A refs \in SUBSET Ref : ref \in refs /\ Closed(refs) => r \in refs
    BY DEF Parts
  <2>2. r.args[i] \in Ref
    BY <2>1, MapperAssumption DEF RefShape
  <2>3. ASSUME NEW refs \in SUBSET Ref, ref \in refs, Closed(refs) PROVE r.args[i] \in refs
    BY <2>1, <2>3 DEF Closed
  <2> QED BY <2>2, <2>3 DEF Parts
<1> QED BY <1>1 DEF Parts, Closed

\* A mapped reference stays what it is while the names it mentions stay what they are.
Stays == \A N, f : (\A n \in Name : N[n] = Named(n)) /\ Maps(N, Ref, f) =>
             \A ref \in Ref : Mapped(ref) = f[ref]

LEMMA MappingStays == Stays
  BY MappedIs DEF Stays

LEMMA MappedStays ==
    ASSUME NEW ref \in Ref, \A n \in Mentions(ref) : Named(n)' = Named(n)
    PROVE  Mapped(ref)' = Mapped(ref)
<1>1. Stays
  BY MappingStays
<1>2. Stays'
  BY MappingStays, PTL
<1>3. PICK N : N = [n \in Name |-> Named(n)]
  OBVIOUS
<1>4. PICK M : M = [n \in Name |-> Named(n)']
  OBVIOUS
<1>5. PICK f : Maps(N, Ref, f)
  BY MapsExist
<1>6. PICK g : Maps(M, Ref, g)
  BY MapsExist
<1>7. (\A n \in Name : N[n] = Named(n)) /\ (\A n \in Name : M[n] = Named(n)')
  BY <1>3, <1>4
<1>8. Mapped(ref) = f[ref]
  BY <1>1, <1>5, <1>7 DEF Stays
<1>9. Mapped(ref)' = g[ref]
  BY <1>2, <1>6, <1>7 DEF Stays
<1>10. ASSUME NEW r \in Parts(ref), r.kind = "named" PROVE N[r.name] = M[r.name]
  <2>1. r \in Ref /\ r.name \in Name
    BY <1>10, MapperAssumption DEF Parts, RefShape
  <2>2. r.name \in Mentions(ref)
    BY <1>10 DEF Mentions
  <2> QED BY <1>7, <2>1, <2>2
<1>11. f[ref] = g[ref]
  BY <1>5, <1>6, <1>10, PartsClosed, MapsDepend
<1> QED BY <1>8, <1>9, <1>11

-----------------------------------------------------------------------------
(***************************************************************************)
(* Aliases.                                                                *)
(***************************************************************************)

\* An item that touches no name a reference mentions leaves what it maps to.
LEMMA UntouchedStays ==
    ASSUME ImportsDone, NEW item \in Item, Register(item), NEW ref \in Ref,
           \A n \in Mentions(ref) : ~ Touches(item, n)
    PROVE  Mapped(ref)' = Mapped(ref)
<1>1. ASSUME NEW n \in Mentions(ref) PROVE Named(n)' = Named(n)
  <2>1. n \in Name
    BY MapperAssumption DEF Mentions, Parts, RefShape
  <2>2. ~ Defines(item, n) /\ ~ Touches(item, n)
    BY DEF Touches
  <2> QED BY <2>1, <2>2, ItemsMove
<1> QED BY <1>1, MappedStays

\* What AliasesAgree says of the k-th item.
Agrees(k, decl) ==
    /\ decl = done[k] /\ decl.kind = "alias"
    /\ \A j \in DOMAIN done : \A item : item = done[j] =>
           /\ j > k => ~ Defines(item, decl.name)
           /\ j >= k => \A n \in Mentions(decl.target) : ~ Touches(item, n)
    => typeDefs[decl.name] = Mapped(decl.target)

\* What is defined has a type.
DefinedTyped == \A j \in DOMAIN done : done[j].kind # "use" => done[j].name \in DOMAIN typeDefs

AliasInv ==
    /\ ImportsDone /\ DefinedTyped
    /\ \A k \in DOMAIN done, decl \in Item : Agrees(k, decl)

LEMMA AliasNext ==
    ASSUME AliasInv, NEW item \in Item, Register(item)
    PROVE  AliasInv'
<1>1. ImportsDone /\ done \in Seq(Item)
  BY DEF AliasInv, ImportsDone
<1>2. PICK last : last = Len(done) + 1
  OBVIOUS
<1>3. /\ DOMAIN done = 1 .. Len(done) /\ DOMAIN done' = 1 .. last
      /\ Len(done) \in Nat /\ last \in Nat /\ last = Len(done) + 1
      /\ \A j \in DOMAIN done : done'[j] = done[j]
      /\ done'[last] = item
  BY <1>1, <1>2 DEF Register
<1>4. ASSUME NEW k \in DOMAIN done', NEW decl \in Item,
             decl = done'[k], decl.kind = "alias",
             \A j \in DOMAIN done' : \A it : it = done'[j] =>
                 /\ j > k => ~ Defines(it, decl.name)
                 /\ j >= k => \A n \in Mentions(decl.target) : ~ Touches(it, n)'
      PROVE  typeDefs'[decl.name] = Mapped(decl.target)'
  <2>1. decl.target \in Ref
    BY <1>4, MapperAssumption DEF ItemShape, Nominal
  <2>2. ASSUME NEW it, NEW n, Touches(it, n) PROVE Touches(it, n)'
    <3>1. CASE Defines(it, n) \/ Brings(it, n)
      BY <3>1 DEF Touches
    <3>2. CASE \E j \in DOMAIN done : Brings(done[j], n) /\ Defines(it, done[j].name)
      <4>1. PICK j \in DOMAIN done : Brings(done[j], n) /\ Defines(it, done[j].name)
        BY <3>2
      <4>2. j \in DOMAIN done' /\ done'[j] = done[j]
        BY <1>3
      <4> QED BY <4>1, <4>2 DEF Touches
    <3> QED BY <2>2, <3>1, <3>2 DEF Touches
  <2>3. last \in DOMAIN done' /\ last >= k
    BY <1>3
  <2>4. \A n \in Mentions(decl.target) : ~ Touches(item, n)
    BY <1>3, <1>4, <2>2, <2>3
  <2>5. Mapped(decl.target)' = Mapped(decl.target)
    BY <1>1, <2>1, <2>4, UntouchedStays
  <2>6. CASE k = last
    <3>1. decl = item
      BY <1>3, <1>4, <2>6
    <3>2. typeDefs' = Set(typeDefs, decl.name, Mapped(decl.target))
      BY <1>4, <3>1 DEF Register, RegisterUse, RegisterTypeDef
    <3>3. typeDefs'[decl.name] = Mapped(decl.target)
      BY <3>2 DEF Set
    <3> QED BY <2>5, <3>3
  <2>7. CASE k \in DOMAIN done
    <3>1. decl = done[k]
      BY <1>3, <1>4, <2>7
    <3>2. ASSUME NEW j \in DOMAIN done, NEW it, it = done[j]
          PROVE  /\ j > k => ~ Defines(it, decl.name)
                 /\ j >= k => \A n \in Mentions(decl.target) : ~ Touches(it, n)
      <4>1. j \in DOMAIN done' /\ it = done'[j]
        BY <1>3, <3>2
      <4> QED BY <1>4, <2>2, <4>1
    <3>3. typeDefs[decl.name] = Mapped(decl.target)
      BY <1>4, <2>7, <3>1, <3>2 DEF AliasInv, Agrees
    <3>4. ~ Defines(item, decl.name)
      <4>1. last > k
        BY <1>3, <2>7
      <4> QED BY <1>3, <1>4, <2>3, <4>1
    <3>5. decl.name \in DOMAIN typeDefs
      BY <1>4, <2>7, <3>1 DEF AliasInv, DefinedTyped
    <3>6. typeDefs'[decl.name] = typeDefs[decl.name]
      BY <3>4, <3>5 DEF Register, RegisterUse, RegisterTypeDef, Set, Defines
    <3> QED BY <2>5, <3>3, <3>6
  <2> QED BY <1>3, <2>6, <2>7
<1>5. \A k \in DOMAIN done', decl \in Item : Agrees(k, decl)'
  BY <1>4 DEF Agrees, Defines
<1>6. ImportsDone'
  BY <1>1, ItemsMove
<1>7. DefinedTyped'
  <2>1. DOMAIN typeDefs \subseteq DOMAIN typeDefs'
    BY DEF Register, RegisterUse, RegisterTypeDef, Set
  <2>2. item.kind # "use" => item.name \in DOMAIN typeDefs'
    BY DEF Register, RegisterUse, RegisterTypeDef, Set
  <2>3. \A j \in DOMAIN done : done[j].kind # "use" => done[j].name \in DOMAIN typeDefs
    BY DEF AliasInv, DefinedTyped
  <2> QED BY <1>3, <2>1, <2>2, <2>3 DEF DefinedTyped
<1> QED BY <1>5, <1>6, <1>7 DEF AliasInv

\* An alias maps to what its target maps to, for any documents: references of any
\* depth, and items in any order.
THEOREM AliasesAgreeAlways == Spec => []AliasesAgree
<1>1. Init => AliasInv
  BY DEF Init, MapperInit, ImportsDone, DefinedTyped, AliasInv
<1>2. AliasInv /\ [Next]_vars => AliasInv'
  <2> SUFFICES ASSUME AliasInv, [Next]_vars PROVE AliasInv'
    OBVIOUS
  <2>1. CASE MapperNext
    BY <2>1, AliasNext DEF MapperNext
  <2>2. CASE UNCHANGED mapperVars
    <3>1. typeDefs' = typeDefs /\ imports' = imports /\ done' = done
      BY <2>2 DEF mapperVars
    <3>2. ASSUME NEW k, NEW decl, Agrees(k, decl) PROVE Agrees(k, decl)'
      BY <3>1, <3>2 DEF Agrees, Mapped, Named, Touches, Defines, Brings
    <3> QED BY <3>1, <3>2 DEF AliasInv, ImportsDone, DefinedTyped, Brings
  <2> QED BY <2>1, <2>2 DEF Next, vars
<1>3. AliasInv => AliasesAgree
  <2> SUFFICES ASSUME AliasInv, NEW k \in DOMAIN done, done[k].kind = "alias",
                      \A j \in DOMAIN done : j > k => ~ Defines(done[j], done[k].name),
                      \A j \in DOMAIN done, n \in Mentions(done[k].target) :
                          j >= k => ~ Touches(done[j], n)
               PROVE  typeDefs[done[k].name] = Mapped(done[k].target)
    BY DEF AliasesAgree
  <2>1. done[k] \in Item
    BY DEF AliasInv, ImportsDone
  <2>2. PICK decl \in Item : decl = done[k]
    BY <2>1
  <2>3. Agrees(k, decl)
    BY DEF AliasInv
  <2>4. typeDefs[decl.name] = Mapped(decl.target)
    BY <2>2, <2>3 DEF Agrees
  <2> QED BY <2>2, <2>4
<1> QED BY <1>1, <1>2, <1>3, PTL DEF Spec

-----------------------------------------------------------------------------
(***************************************************************************)
(* The parser.                                                             *)
(***************************************************************************)

\* What parse functions are made of; no identifier but through "name".
CallKind == (TokenKind \ {"ident"}) \union {"name"} \union DOMAIN Straight
                \union Choosing \union Assignment

ParserTypeOK ==
    /\ source \in Seq(TokenKind)
    /\ ahead \in TokenKind \union {Unseen}
    /\ calls \in Seq(CallKind)
    /\ document \in [names : SUBSET (1 .. Len(source)), package : SUBSET (1 .. Len(source)),
                     constructor : SUBSET (1 .. Len(source)), local : SUBSET (1 .. Len(source))]

\* What types, parameters and the rest of a package declaration are made of.
Quiet == Primitive \union
    {"parse_param_list", "more_params", "parse_type_ref", "result_types", "result_type",
     "result_error", "tuple_types", "more_types", "package_version", "at", "semver",
     "name", "colon", "comma", "lparen", "rparen", "langle", "rangle", "list", "option", "own", "borrow", "result",
     "tuple", "underscore"}

\* What the items of a resource are made of.
ResourceInner == Quiet \union
    {"doc", "keep", "parse_constructor_func", "constructor", "semicolon", "set_constructor",
     "parse_func_item", "func_static", "static", "parse_func_body", "func", "func_result", "arrow"}

-----------------------------------------------------------------------------
(***************************************************************************)
(* What the bodies of parse functions are made of.                         *)
(***************************************************************************)

LEMMA Lists ==
    /\ DOMAIN Member = {"use_names", "fields", "enum_cases", "variant_cases", "flag_names"}
    /\ DOMAIN Separator = DOMAIN Member
    /\ Range(Separator) =
           {"use_comma", "field_comma", "enum_comma", "variant_comma", "flag_comma"}
<1>1. /\ DOMAIN Member = {"use_names", "fields", "enum_cases", "variant_cases", "flag_names"}
      /\ DOMAIN Separator = DOMAIN Member
  BY DEF Member, Separator
<1>2. Range(Separator) =
           {"use_comma", "field_comma", "enum_comma", "variant_comma", "flag_comma"}
  BY <1>1 DEF Separator, Range
<1> QED BY <1>1, <1>2

LEMMA StraightAre ==
    /\ DOMAIN Straight = {"parse_package", "parse_interface", "parse_world", "parse_include",
          "parse_use", "parse_record", "parse_enum", "parse_variant", "parse_flags",
          "parse_resource", "parse_type_alias", "parse_world_import", "parse_world_export",
          "parse_extern_path_rest", "parse_func_item", "parse_constructor_func",
          "parse_func_body"}
    /\ DOMAIN TypeDef = {"record", "enum", "variant", "flags", "type"}
  BY DEF Straight, TypeDef

\* The function that is called is the one of that name.
LEMMA PeekingBodies ==
    ASSUME NEW t
    PROVE  /\ Body("parse_document", t) = parse_document(t)
           /\ Body("package_version", t) = package_version(t)
           /\ Body("interface_items", t) = interface_items(t)
           /\ Body("world_items", t) = world_items(t)
           /\ Body("extern", t) = extern(t)
           /\ Body("extern_item", t) = extern_item(t)
           /\ Body("path_interface", t) = path_interface(t)
           /\ Body("path_version", t) = path_version(t)
           /\ Body("path_semver", t) = path_semver(t)
           /\ Body("use_path", t) = use_path(t)
           /\ Body("alias", t) = alias(t)
           /\ Body("payload", t) = payload(t)
           /\ Body("resource_body", t) = resource_body(t)
           /\ Body("resource_items", t) = resource_items(t)
           /\ Body("func_static", t) = func_static(t)
           /\ Body("func_result", t) = func_result(t)
           /\ Body("parse_param_list", t) = parse_param_list(t)
           /\ Body("more_params", t) = more_params(t)
           /\ Body("parse_type_ref", t) = parse_type_ref(t)
           /\ Body("result_types", t) = result_types(t)
           /\ Body("result_type", t) = result_type(t)
           /\ Body("result_error", t) = result_error(t)
           /\ Body("tuple_types", t) = tuple_types(t)
           /\ Body("more_types", t) = more_types(t)
  BY Lists DEF Body

LEMMA ListBodies ==
    ASSUME NEW t
    PROVE  /\ \A list \in DOMAIN Member : Body(list, t) = members(list, t)
           /\ \A call \in Range(Separator) :
                 \E list \in DOMAIN Member : Body(call, t) = comma(list, t)
<1>1. \A list \in DOMAIN Member : Body(list, t) = members(list, t)
  BY Lists DEF Body
<1>2. ASSUME NEW call \in Range(Separator)
      PROVE  \E list \in DOMAIN Member : Body(call, t) = comma(list, t)
  <2>1. \E list \in DOMAIN Separator : Separator[list] = call
    BY DEF Range
  <2> DEFINE list == CHOOSE list \in DOMAIN Separator : Separator[list] = call
  <2>2. list \in DOMAIN Member
    BY <2>1, Lists
  <2>3. Body(call, t) = comma(list, t)
    BY Lists DEF Body
  <2> QED BY <2>2, <2>3
<1> QED BY <1>1, <1>2

\* The calls whose place on the stack matters.
Marks == {"set_package", "set_constructor", "resource_body", "resource_items"}
Plain == CallKind \ Marks

LEMMA QuietKinds ==
    /\ Quiet \intersect Choosing =
          {"parse_param_list", "more_params", "parse_type_ref", "result_types", "result_type",
           "result_error", "tuple_types", "more_types", "package_version"}
    /\ Quiet \intersect DOMAIN Straight = {}
    /\ Quiet \intersect Assignment = {}
    /\ "semicolon" \notin Quiet /\ "rbrace" \notin Quiet /\ Quiet \intersect Marks = {}
<1> USE DEF Quiet, Primitive
<1>1. Quiet \intersect Choosing =
          {"parse_param_list", "more_params", "parse_type_ref", "result_types", "result_type",
           "result_error", "tuple_types", "more_types", "package_version"}
  BY Lists DEF Choosing, Peeking
<1>2. Quiet \intersect DOMAIN Straight = {}
  BY StraightAre
<1>3. Quiet \intersect Assignment = {}
  BY DEF Assignment
<1>4. "semicolon" \notin Quiet /\ "rbrace" \notin Quiet /\ Quiet \intersect Marks = {}
  BY DEF Marks
<1> QED BY <1>1, <1>2, <1>3, <1>4

LEMMA QuietHas ==
    /\ "parse_param_list" \in Quiet /\ "more_params" \in Quiet /\ "parse_type_ref" \in Quiet
    /\ "result_types" \in Quiet /\ "result_type" \in Quiet /\ "result_error" \in Quiet
    /\ "tuple_types" \in Quiet /\ "more_types" \in Quiet /\ "package_version" \in Quiet
    /\ "at" \in Quiet /\ "semver" \in Quiet /\ "name" \in Quiet /\ "colon" \in Quiet
    /\ "comma" \in Quiet /\ "lparen" \in Quiet /\ "rparen" \in Quiet /\ "langle" \in Quiet /\ "rangle" \in Quiet
    /\ "list" \in Quiet /\ "option" \in Quiet /\ "own" \in Quiet /\ "borrow" \in Quiet
    /\ "result" \in Quiet /\ "tuple" \in Quiet /\ "underscore" \in Quiet
    /\ Primitive \subseteq Quiet
  BY DEF Quiet

LEMMA TypeRefBodies ==
    ASSUME NEW t
    PROVE  \/ t \in Primitive /\ parse_type_ref(t) = <<t>>
           \/ /\ t \in {"list", "option", "own", "borrow"}
              /\ parse_type_ref(t) = <<t, "langle", "parse_type_ref", "rangle">>
           \/ t = "result" /\ parse_type_ref(t) = <<"result", "result_types">>
           \/ t = "tuple" /\ parse_type_ref(t) = <<"tuple", "langle", "tuple_types", "rangle">>
           \/ t \in Ident /\ parse_type_ref(t) = <<"name">>
           \/ parse_type_ref(t) = Error
  BY DEF parse_type_ref, Primitive, Ident

LEMMA QuietParts ==
    ASSUME NEW t
    PROVE  /\ parse_param_list(t) \in Seq(Quiet)
           /\ more_params(t) \in Seq(Quiet)
           /\ result_types(t) \in Seq(Quiet)
           /\ result_type(t) \in Seq(Quiet)
           /\ result_error(t) \in Seq(Quiet)
           /\ tuple_types(t) \in Seq(Quiet)
           /\ more_types(t) \in Seq(Quiet)
           /\ package_version(t) \in Seq(Quiet)
           /\ parse_type_ref(t) # Error => parse_type_ref(t) \in Seq(Quiet)
<1>1. parse_param_list(t) \in Seq(Quiet)
  BY QuietHas DEF parse_param_list
<1>2. more_params(t) \in Seq(Quiet)
  BY QuietHas DEF more_params
<1>3. result_types(t) \in Seq(Quiet)
  BY QuietHas DEF result_types
<1>4. result_type(t) \in Seq(Quiet)
  BY QuietHas DEF result_type
<1>5. result_error(t) \in Seq(Quiet)
  BY QuietHas DEF result_error
<1>6. tuple_types(t) \in Seq(Quiet)
  BY QuietHas DEF tuple_types
<1>7. more_types(t) \in Seq(Quiet)
  BY QuietHas DEF more_types
<1>8. package_version(t) \in Seq(Quiet)
  BY QuietHas DEF package_version
<1>9. ASSUME parse_type_ref(t) # Error PROVE parse_type_ref(t) \in Seq(Quiet)
  <2>1. CASE t \in Primitive /\ parse_type_ref(t) = <<t>>
    BY <2>1, QuietHas
  <2>2. CASE /\ t \in {"list", "option", "own", "borrow"}
             /\ parse_type_ref(t) = <<t, "langle", "parse_type_ref", "rangle">>
    <3>1. t \in Quiet
      BY <2>2, QuietHas
    <3> QED BY <2>2, <3>1, QuietHas
  <2>3. CASE t = "result" /\ parse_type_ref(t) = <<"result", "result_types">>
    BY <2>3, QuietHas
  <2>4. CASE t = "tuple" /\ parse_type_ref(t) = <<"tuple", "langle", "tuple_types", "rangle">>
    <3>1. /\ "tuple" \in Quiet /\ "langle" \in Quiet /\ "tuple_types" \in Quiet
          /\ "rangle" \in Quiet
      BY QuietHas
    <3>2. <<"tuple", "langle", "tuple_types", "rangle">> \in Seq(Quiet)
      BY ONLY <3>1
    <3> QED BY ONLY <2>4, <3>2
  <2>5. CASE t \in Ident /\ parse_type_ref(t) = <<"name">>
    BY <2>5, QuietHas
  <2> QED BY ONLY <1>9, <2>1, <2>2, <2>3, <2>4, <2>5, TypeRefBodies
<1> QED BY <1>1, <1>2, <1>3, <1>4, <1>5, <1>6, <1>7, <1>8, <1>9

LEMMA QuietBodies ==
    ASSUME NEW c \in Quiet \intersect Choosing, NEW t, Body(c, t) # Error
    PROVE  Body(c, t) \in Seq(Quiet)
  BY QuietKinds, QuietParts, PeekingBodies

LEMMA InnerKinds ==
    /\ ResourceInner \intersect Choosing =
           (Quiet \intersect Choosing) \union {"func_static", "func_result"}
    /\ ResourceInner \intersect DOMAIN Straight =
           {"parse_constructor_func", "parse_func_item", "parse_func_body"}
    /\ "rbrace" \notin ResourceInner /\ "lbrace" \notin ResourceInner /\ "resource" \notin ResourceInner
    /\ "set_package" \notin ResourceInner /\ "resource_items" \notin ResourceInner
    /\ "resource_body" \notin ResourceInner /\ "new_resource" \notin ResourceInner
<1>1. ResourceInner \intersect Choosing =
           (Quiet \intersect Choosing) \union {"func_static", "func_result"}
  BY Lists DEF ResourceInner, Choosing, Peeking
<1>2. ResourceInner \intersect DOMAIN Straight =
           {"parse_constructor_func", "parse_func_item", "parse_func_body"}
  BY StraightAre DEF ResourceInner, Quiet, Primitive
<1> QED BY <1>1, <1>2 DEF ResourceInner, Quiet, Primitive

LEMMA InnerHas ==
    /\ Quiet \subseteq ResourceInner
    /\ "doc" \in ResourceInner /\ "keep" \in ResourceInner /\ "semicolon" \in ResourceInner
    /\ "parse_constructor_func" \in ResourceInner /\ "constructor" \in ResourceInner
    /\ "set_constructor" \in ResourceInner /\ "parse_func_item" \in ResourceInner
    /\ "func_static" \in ResourceInner /\ "static" \in ResourceInner
    /\ "parse_func_body" \in ResourceInner /\ "func" \in ResourceInner
    /\ "func_result" \in ResourceInner /\ "arrow" \in ResourceInner
  BY DEF ResourceInner

LEMMA QuietIsInner == Seq(Quiet) \subseteq Seq(ResourceInner)
  BY InnerHas

LEMMA InnerBodies ==
    /\ \A c \in ResourceInner \intersect Choosing : \A t :
          Body(c, t) # Error => Body(c, t) \in Seq(ResourceInner)
    /\ \A c \in ResourceInner \intersect DOMAIN Straight : Straight[c] \in Seq(ResourceInner)
<1>0. /\ "parse_param_list" \in ResourceInner /\ "parse_type_ref" \in ResourceInner
      /\ "name" \in ResourceInner /\ "colon" \in ResourceInner
      /\ "lparen" \in ResourceInner /\ "rparen" \in ResourceInner
  BY QuietHas, InnerHas
<1>1. ASSUME NEW c \in ResourceInner \intersect Choosing, NEW t, Body(c, t) # Error
      PROVE  Body(c, t) \in Seq(ResourceInner)
  <2>1. CASE c \in Quiet
    BY <1>1, <2>1, QuietBodies, QuietIsInner
  <2>2. func_static(t) \in Seq(ResourceInner)
    BY InnerHas DEF func_static
  <2>3. func_result(t) \in Seq(ResourceInner)
    BY InnerHas, <1>0 DEF func_result
  <2> QED BY <2>1, <2>2, <2>3, InnerKinds, PeekingBodies
<1>2. parse_constructor_func \in Seq(ResourceInner)
  BY InnerHas, <1>0 DEF parse_constructor_func
<1>3. parse_func_item \in Seq(ResourceInner)
  BY InnerHas, <1>0 DEF parse_func_item
<1>4. parse_func_body \in Seq(ResourceInner)
  BY InnerHas, <1>0 DEF parse_func_body
<1>5. /\ Straight["parse_constructor_func"] = parse_constructor_func
      /\ Straight["parse_func_item"] = parse_func_item
      /\ Straight["parse_func_body"] = parse_func_body
  BY DEF Straight
<1> QED BY <1>1, <1>2, <1>3, <1>4, <1>5, InnerKinds

LEMMA PlainHas ==
    /\ "package" \in Plain /\ "name" \in Plain /\ "colon" \in Plain
    /\ "package_version" \in Plain /\ "semicolon" \in Plain /\ "keep" \in Plain
    /\ "interface" \in Plain /\ "lbrace" \in Plain /\ "interface_items" \in Plain
    /\ "world" \in Plain /\ "world_items" \in Plain /\ "include" \in Plain
    /\ "use" \in Plain /\ "use_path" \in Plain /\ "dot" \in Plain
    /\ "use_names" \in Plain /\ "record" \in Plain /\ "fields" \in Plain
    /\ "enum" \in Plain /\ "enum_cases" \in Plain /\ "variant" \in Plain
    /\ "variant_cases" \in Plain /\ "flags" \in Plain /\ "flag_names" \in Plain
    /\ "new_resource" \in Plain /\ "resource" \in Plain /\ "type" \in Plain
    /\ "equals" \in Plain /\ "parse_type_ref" \in Plain /\ "import" \in Plain
    /\ "export" \in Plain /\ "extern" \in Plain /\ "path_interface" \in Plain
    /\ "path_version" \in Plain /\ "func_static" \in Plain
    /\ "parse_func_body" \in Plain /\ "constructor" \in Plain /\ "lparen" \in Plain
    /\ "parse_param_list" \in Plain /\ "rparen" \in Plain /\ "func" \in Plain
    /\ "func_result" \in Plain /\ "doc" \in Plain /\ "parse_document" \in Plain
    /\ "parse_package" \in Plain /\ "parse_interface" \in Plain
    /\ "parse_world" \in Plain /\ "parse_use" \in Plain /\ "parse_include" \in Plain
    /\ "parse_record" \in Plain /\ "parse_enum" \in Plain /\ "parse_variant" \in Plain
    /\ "parse_flags" \in Plain /\ "parse_resource" \in Plain
    /\ "parse_type_alias" \in Plain /\ "parse_func_item" \in Plain
    /\ "parse_constructor_func" \in Plain /\ "parse_world_import" \in Plain
    /\ "parse_world_export" \in Plain /\ "rbrace" \in Plain /\ "extern_item" \in Plain
    /\ "parse_extern_path_rest" \in Plain /\ "slash" \in Plain /\ "at" \in Plain
    /\ "path_semver" \in Plain /\ "semver" \in Plain /\ "as" \in Plain
    /\ "comma" \in Plain /\ "alias" \in Plain /\ "payload" \in Plain
    /\ "use_comma" \in Plain /\ "field_comma" \in Plain /\ "enum_comma" \in Plain
    /\ "variant_comma" \in Plain /\ "flag_comma" \in Plain /\ "static" \in Plain
    /\ "arrow" \in Plain
<1> USE DEF Plain, Marks, CallKind
<1>1. /\ "package" \in Plain /\ "colon" \in Plain /\ "semicolon" \in Plain
      /\ "interface" \in Plain /\ "world" \in Plain /\ "include" \in Plain
      /\ "use" \in Plain /\ "dot" \in Plain /\ "record" \in Plain /\ "enum" \in Plain
      /\ "variant" \in Plain /\ "flags" \in Plain /\ "resource" \in Plain
      /\ "type" \in Plain /\ "equals" \in Plain /\ "import" \in Plain
      /\ "export" \in Plain /\ "constructor" \in Plain /\ "lbrace" \in Plain
      /\ "lparen" \in Plain /\ "rparen" \in Plain /\ "rbrace" \in Plain
      /\ "func" \in Plain /\ "doc" \in Plain /\ "slash" \in Plain /\ "at" \in Plain
      /\ "semver" \in Plain /\ "as" \in Plain /\ "comma" \in Plain /\ "static" \in Plain
      /\ "arrow" \in Plain
  BY DEF TokenKind, Ident, Opening, Closing
<1>2. /\ "keep" \in Plain /\ "new_resource" \in Plain /\ "name" \in Plain
  BY DEF Assignment
<1>3. /\ "parse_func_body" \in Plain /\ "parse_package" \in Plain
      /\ "parse_interface" \in Plain /\ "parse_world" \in Plain /\ "parse_use" \in Plain
      /\ "parse_include" \in Plain /\ "parse_record" \in Plain /\ "parse_enum" \in Plain
      /\ "parse_variant" \in Plain /\ "parse_flags" \in Plain
      /\ "parse_resource" \in Plain /\ "parse_type_alias" \in Plain
      /\ "parse_func_item" \in Plain /\ "parse_constructor_func" \in Plain
      /\ "parse_world_import" \in Plain /\ "parse_world_export" \in Plain
      /\ "parse_extern_path_rest" \in Plain
  BY StraightAre
<1>4. /\ "package_version" \in Plain /\ "interface_items" \in Plain
      /\ "world_items" \in Plain /\ "use_path" \in Plain /\ "use_names" \in Plain
      /\ "fields" \in Plain /\ "enum_cases" \in Plain /\ "variant_cases" \in Plain
      /\ "flag_names" \in Plain /\ "parse_type_ref" \in Plain /\ "extern" \in Plain
      /\ "path_interface" \in Plain /\ "path_version" \in Plain
      /\ "func_static" \in Plain /\ "parse_param_list" \in Plain
      /\ "func_result" \in Plain /\ "parse_document" \in Plain
      /\ "extern_item" \in Plain /\ "path_semver" \in Plain /\ "alias" \in Plain
      /\ "payload" \in Plain /\ "use_comma" \in Plain /\ "field_comma" \in Plain
      /\ "enum_comma" \in Plain /\ "variant_comma" \in Plain /\ "flag_comma" \in Plain
  BY Lists DEF Choosing, Peeking
<1> QED BY <1>1, <1>2, <1>3, <1>4

LEMMA TypeDefs ==
    ASSUME NEW t \in DOMAIN TypeDef
    PROVE  TypeDef[t] \in Plain
  BY PlainHas DEF TypeDef

LEMMA PlainParts ==
    ASSUME NEW t
    PROVE  /\ parse_document(t) # Error => parse_document(t) \in Seq(Plain)
           /\ interface_items(t) # Error => interface_items(t) \in Seq(Plain)
           /\ world_items(t) # Error => world_items(t) \in Seq(Plain)
           /\ extern(t) # Error => extern(t) \in Seq(Plain)
           /\ extern_item(t) # Error => extern_item(t) \in Seq(Plain)
           /\ path_interface(t) # Error => path_interface(t) \in Seq(Plain)
           /\ path_version(t) # Error => path_version(t) \in Seq(Plain)
           /\ path_semver(t) # Error => path_semver(t) \in Seq(Plain)
           /\ use_path(t) # Error => use_path(t) \in Seq(Plain)
           /\ alias(t) # Error => alias(t) \in Seq(Plain)
           /\ payload(t) # Error => payload(t) \in Seq(Plain)
           /\ func_static(t) # Error => func_static(t) \in Seq(Plain)
           /\ func_result(t) # Error => func_result(t) \in Seq(Plain)
<1>1. parse_document(t) # Error => parse_document(t) \in Seq(Plain)
  BY PlainHas DEF parse_document
<1>2. interface_items(t) # Error => interface_items(t) \in Seq(Plain)
  <2>1. CASE t \in DOMAIN TypeDef
    <3>1. interface_items(t) = <<TypeDef[t], "interface_items">>
      BY <2>1, StraightAre DEF interface_items, Ident
    <3> QED BY <2>1, <3>1, TypeDefs, PlainHas
  <2>2. CASE t \notin DOMAIN TypeDef
    BY <2>2, PlainHas DEF interface_items
  <2> QED BY <2>1, <2>2
<1>3. world_items(t) # Error => world_items(t) \in Seq(Plain)
  <2>1. CASE t \in DOMAIN TypeDef
    <3>1. world_items(t) = <<TypeDef[t], "world_items">>
      BY <2>1, StraightAre DEF world_items
    <3> QED BY <2>1, <3>1, TypeDefs, PlainHas
  <2>2. CASE t \notin DOMAIN TypeDef
    BY <2>2, PlainHas DEF world_items
  <2> QED BY <2>1, <2>2
<1>4. extern(t) # Error => extern(t) \in Seq(Plain)
  BY PlainHas DEF extern
<1>5. extern_item(t) # Error => extern_item(t) \in Seq(Plain)
  BY PlainHas DEF extern_item
<1>6. path_interface(t) # Error => path_interface(t) \in Seq(Plain)
  BY PlainHas DEF path_interface
<1>7. path_version(t) # Error => path_version(t) \in Seq(Plain)
  BY PlainHas DEF path_version
<1>8. path_semver(t) # Error => path_semver(t) \in Seq(Plain)
  BY PlainHas DEF path_semver
<1>9. use_path(t) # Error => use_path(t) \in Seq(Plain)
  BY PlainHas DEF use_path
<1>10. alias(t) # Error => alias(t) \in Seq(Plain)
  BY PlainHas DEF alias
<1>11. payload(t) # Error => payload(t) \in Seq(Plain)
  BY PlainHas DEF payload
<1>12. func_static(t) # Error => func_static(t) \in Seq(Plain)
  BY PlainHas DEF func_static
<1>13. func_result(t) # Error => func_result(t) \in Seq(Plain)
  BY PlainHas DEF func_result
<1> QED BY <1>1, <1>2, <1>3, <1>4, <1>5, <1>6, <1>7, <1>8, <1>9, <1>10, <1>11, <1>12, <1>13

LEMMA QuietIsPlain == Quiet \subseteq Plain /\ Seq(Quiet) \subseteq Seq(Plain)
<1> DEFINE functions == {"parse_param_list", "more_params", "parse_type_ref", "result_types",
                         "result_type", "result_error", "tuple_types", "more_types",
                         "package_version"}
           tokens == {"at", "semver", "colon", "comma", "lparen", "rparen", "langle",
                      "rangle", "list", "option", "own", "borrow", "result", "tuple",
                      "underscore"}
<1>0. Quiet = Primitive \union functions \union tokens \union {"name"}
  BY DEF Quiet
<1>3. functions \subseteq Choosing
  BY DEF Choosing, Peeking
<1>4. tokens \subseteq TokenKind
  BY DEF TokenKind, Ident, Opening, Closing
<1>1. Quiet \subseteq TokenKind \union {"name"} \union Choosing
  BY ONLY <1>0, <1>3, <1>4 DEF TokenKind
<1>2. "ident" \notin Quiet
  BY DEF Quiet, Primitive
<1>5. Quiet \subseteq Plain
  BY <1>1, <1>2, QuietKinds DEF Plain, CallKind
<1> QED BY <1>5

LEMMA Members ==
    /\ Member["use_names"] = <<"name", "alias">>
    /\ Member["fields"] = <<"name", "colon", "parse_type_ref">>
    /\ Member["enum_cases"] = <<"name">>
    /\ Member["variant_cases"] = <<"name", "payload">>
    /\ Member["flag_names"] = <<"name">>
  BY DEF Member

LEMMA Separators ==
    /\ Separator["use_names"] = "use_comma" /\ Separator["fields"] = "field_comma"
    /\ Separator["enum_cases"] = "enum_comma"
    /\ Separator["variant_cases"] = "variant_comma"
    /\ Separator["flag_names"] = "flag_comma"
  BY DEF Separator

LEMMA ListParts ==
    ASSUME NEW t, NEW list \in DOMAIN Member
    PROVE  members(list, t) \in Seq(Plain) /\ comma(list, t) \in Seq(Plain)
<1>1. list \in Plain
  BY Lists, PlainHas
<1>2. comma(list, t) \in Seq(Plain)
  BY <1>1, PlainHas DEF comma
<1>3. Append(Member[list], Separator[list]) \in Seq(Plain)
  <2>1. Separator[list] \in Plain
    BY Lists, Separators, PlainHas
  <2>2. /\ <<"name">> \in Seq(Plain) /\ <<"name", "alias">> \in Seq(Plain)
        /\ <<"name", "payload">> \in Seq(Plain)
    BY PlainHas
  <2>3. <<"name", "colon", "parse_type_ref">> \in Seq(Plain)
    BY PlainHas
  <2>4. Member[list] \in Seq(Plain)
    BY <2>2, <2>3, Lists, Members
  <2> QED BY <2>1, <2>4
<1>4. members(list, t) \in Seq(Plain)
  <2>1. CASE t = "rbrace"
    BY <2>1, PlainHas DEF members
  <2>2. CASE t = "doc" /\ list # "use_names"
    BY <2>2, <1>1, PlainHas DEF members
  <2>3. CASE t # "rbrace" /\ ~ (t = "doc" /\ list # "use_names")
    BY <2>3, <1>3 DEF members
  <2> QED BY <2>1, <2>2, <2>3
<1> QED BY <1>2, <1>4

\* Only the functions of resources put a mark on the stack, and package does.
LEMMA PlainBodies ==
    /\ \A c \in Choosing \ {"resource_body", "resource_items"} : \A t :
          Body(c, t) # Error => Body(c, t) \in Seq(Plain)
    /\ \A c \in DOMAIN Straight \ {"parse_package", "parse_resource"} :
          Straight[c] \in Seq(Plain)
<1>1. ASSUME NEW c \in Choosing \ {"resource_body", "resource_items"}, NEW t,
             Body(c, t) # Error
      PROVE  Body(c, t) \in Seq(Plain)
  <2>1. CASE c \in Quiet
    <3>1. Body(c, t) \in Seq(Quiet)
      BY <1>1, <2>1, QuietBodies
    <3> QED BY <3>1, QuietIsPlain
  <2>2. CASE c \in DOMAIN Member
    BY <2>2, ListBodies, ListParts
  <2>3. CASE c \in Range(Separator)
    BY <2>3, ListBodies, ListParts
  <2>4. CASE c \in Peeking /\ c \notin Quiet
    BY <1>1, <2>4, PlainParts, PeekingBodies, QuietHas DEF Peeking
  <2> QED BY <2>1, <2>2, <2>3, <2>4 DEF Choosing
<1>2. Straight["parse_func_body"] \in Seq(Plain)
  BY PlainHas DEF Straight, parse_func_body
<1>3. Straight["parse_interface"] \in Seq(Plain)
  BY PlainHas DEF Straight, parse_interface
<1>4. Straight["parse_world"] \in Seq(Plain)
  BY PlainHas DEF Straight, parse_world
<1>5. Straight["parse_use"] \in Seq(Plain)
  BY PlainHas DEF Straight, parse_use
<1>6. Straight["parse_include"] \in Seq(Plain)
  BY PlainHas DEF Straight, parse_include
<1>7. Straight["parse_record"] \in Seq(Plain)
  BY PlainHas DEF Straight, parse_record
<1>8. Straight["parse_enum"] \in Seq(Plain)
  BY PlainHas DEF Straight, parse_enum
<1>9. Straight["parse_variant"] \in Seq(Plain)
  BY PlainHas DEF Straight, parse_variant
<1>10. Straight["parse_flags"] \in Seq(Plain)
  BY PlainHas DEF Straight, parse_flags
<1>11. Straight["parse_type_alias"] \in Seq(Plain)
  BY PlainHas DEF Straight, parse_type_alias
<1>12. Straight["parse_func_item"] \in Seq(Plain)
  BY PlainHas DEF Straight, parse_func_item
<1>13. Straight["parse_constructor_func"] \in Seq(Plain)
  BY PlainHas DEF Straight, parse_constructor_func
<1>14. Straight["parse_world_import"] \in Seq(Plain)
  BY PlainHas DEF Straight, parse_world_import
<1>15. Straight["parse_world_export"] \in Seq(Plain)
  BY PlainHas DEF Straight, parse_world_export
<1>16. Straight["parse_extern_path_rest"] \in Seq(Plain)
  BY PlainHas DEF Straight, parse_extern_path_rest
<1> QED BY <1>1, <1>2, <1>3, <1>4, <1>5, <1>6, <1>7, <1>8, <1>9, <1>10, <1>11, <1>12, <1>13, <1>14, <1>15, <1>16, StraightAre

-----------------------------------------------------------------------------
(***************************************************************************)
(* What the bodies of parse functions do to the brackets that are open.    *)
(***************************************************************************)

Bracketing == Opening \union Closing
Blocks == DOMAIN Member \union Range(Separator)
              \union {"interface_items", "world_items", "resource_items"}
Neutral == {c \in CallKind : Owed(c) \notin Bracketing}

\* The body closes the block of its call, last of all.
Closes(b) ==
    /\ Len(b) # 0 /\ Owed(b[Len(b)]) = "rbrace"
    /\ \A k \in 1 .. Len(b) - 1 : b[k] \in Neutral

\* It opens a bracket and closes it.
Pairs(b) ==
    \E i, j \in 1 .. Len(b) :
        /\ i < j
        /\ b[i] \in Opening /\ Owed(b[i]) = b[i] /\ Owed(b[j]) = Closer[b[i]]
        /\ \A k \in 1 .. Len(b) : k # i /\ k # j => b[k] \in Neutral

LEMMA BlocksOwe ==
    /\ \A c \in Blocks : Owed(c) = "rbrace"
    /\ \A c : c \notin Blocks => Owed(c) = c
  BY DEF Owed, Blocks

LEMMA BlocksAre ==
    Blocks = {"use_names", "fields", "enum_cases", "variant_cases", "flag_names", "use_comma",
              "field_comma", "enum_comma", "variant_comma", "flag_comma", "interface_items",
              "world_items", "resource_items"}
  BY Lists DEF Blocks

LEMMA NeutralIs ==
    ASSUME NEW c \in CallKind, c \notin Blocks, c \notin Bracketing
    PROVE  c \in Neutral
  BY BlocksOwe DEF Neutral

LEMMA NeutralHas ==
    /\ \A c \in Quiet : c \notin {"lparen", "rparen", "langle", "rangle"} => c \in Neutral
    /\ "package" \in Neutral /\ "name" \in Neutral /\ "colon" \in Neutral
    /\ "package_version" \in Neutral /\ "semicolon" \in Neutral /\ "keep" \in Neutral
    /\ "interface" \in Neutral /\ "world" \in Neutral /\ "include" \in Neutral
    /\ "use" \in Neutral /\ "use_path" \in Neutral /\ "dot" \in Neutral
    /\ "record" \in Neutral /\ "enum" \in Neutral /\ "variant" \in Neutral
    /\ "flags" \in Neutral /\ "new_resource" \in Neutral /\ "resource" \in Neutral
    /\ "type" \in Neutral /\ "equals" \in Neutral /\ "parse_type_ref" \in Neutral
    /\ "import" \in Neutral /\ "export" \in Neutral /\ "extern" \in Neutral
    /\ "path_interface" \in Neutral /\ "path_version" \in Neutral
    /\ "func_static" \in Neutral /\ "parse_func_body" \in Neutral
    /\ "constructor" \in Neutral /\ "parse_param_list" \in Neutral /\ "func" \in Neutral
    /\ "func_result" \in Neutral /\ "doc" \in Neutral /\ "parse_document" \in Neutral
    /\ "parse_package" \in Neutral /\ "parse_interface" \in Neutral
    /\ "parse_world" \in Neutral /\ "parse_use" \in Neutral
    /\ "parse_include" \in Neutral /\ "parse_record" \in Neutral
    /\ "parse_enum" \in Neutral /\ "parse_variant" \in Neutral
    /\ "parse_flags" \in Neutral /\ "parse_resource" \in Neutral
    /\ "parse_type_alias" \in Neutral /\ "parse_func_item" \in Neutral
    /\ "parse_constructor_func" \in Neutral /\ "parse_world_import" \in Neutral
    /\ "parse_world_export" \in Neutral /\ "extern_item" \in Neutral
    /\ "parse_extern_path_rest" \in Neutral /\ "slash" \in Neutral /\ "at" \in Neutral
    /\ "path_semver" \in Neutral /\ "semver" \in Neutral /\ "as" \in Neutral
    /\ "comma" \in Neutral /\ "alias" \in Neutral /\ "payload" \in Neutral
    /\ "static" \in Neutral /\ "arrow" \in Neutral
<1>0. Plain \subseteq CallKind
  BY DEF Plain
<1>1. ASSUME NEW c \in Plain,
             c \notin {"lbrace", "rbrace", "lparen", "rparen", "langle", "rangle"},
             c \notin {"use_names", "fields", "enum_cases", "variant_cases", "flag_names",
                       "use_comma", "field_comma", "enum_comma", "variant_comma",
                       "flag_comma", "interface_items", "world_items", "resource_items"}
      PROVE  c \in Neutral
  BY <1>0, <1>1, NeutralIs, BlocksAre DEF Bracketing, Opening, Closing
<1>2. ASSUME NEW c \in Quiet, c \notin {"lparen", "rparen", "langle", "rangle"}
      PROVE  c \in Neutral
  <2>1. c \in Plain
    BY QuietIsPlain
  <2>2. /\ c \notin {"use_names", "fields", "enum_cases", "variant_cases", "flag_names",
                      "use_comma", "field_comma", "enum_comma", "variant_comma",
                      "flag_comma", "interface_items", "world_items", "resource_items"}
        /\ c \notin {"lbrace", "rbrace"}
    BY DEF Quiet, Primitive
  <2> QED BY <1>1, <1>2, <2>1, <2>2
<1>3. /\ "package" \in Neutral /\ "name" \in Neutral /\ "colon" \in Neutral
      /\ "package_version" \in Neutral /\ "semicolon" \in Neutral /\ "keep" \in Neutral
      /\ "interface" \in Neutral /\ "world" \in Neutral /\ "include" \in Neutral
      /\ "use" \in Neutral /\ "use_path" \in Neutral /\ "dot" \in Neutral
      /\ "record" \in Neutral /\ "enum" \in Neutral /\ "variant" \in Neutral
      /\ "flags" \in Neutral /\ "new_resource" \in Neutral /\ "resource" \in Neutral
      /\ "type" \in Neutral /\ "equals" \in Neutral
  BY <1>1, PlainHas
<1>4. /\ "parse_type_ref" \in Neutral /\ "import" \in Neutral /\ "export" \in Neutral
      /\ "extern" \in Neutral /\ "path_interface" \in Neutral
      /\ "path_version" \in Neutral /\ "func_static" \in Neutral
      /\ "parse_func_body" \in Neutral /\ "constructor" \in Neutral
      /\ "parse_param_list" \in Neutral /\ "func" \in Neutral
      /\ "func_result" \in Neutral /\ "doc" \in Neutral /\ "parse_document" \in Neutral
      /\ "parse_package" \in Neutral /\ "parse_interface" \in Neutral
      /\ "parse_world" \in Neutral /\ "parse_use" \in Neutral
      /\ "parse_include" \in Neutral /\ "parse_record" \in Neutral
  BY <1>1, PlainHas
<1>5. /\ "parse_enum" \in Neutral /\ "parse_variant" \in Neutral
      /\ "parse_flags" \in Neutral /\ "parse_resource" \in Neutral
      /\ "parse_type_alias" \in Neutral /\ "parse_func_item" \in Neutral
      /\ "parse_constructor_func" \in Neutral /\ "parse_world_import" \in Neutral
      /\ "parse_world_export" \in Neutral /\ "extern_item" \in Neutral
      /\ "parse_extern_path_rest" \in Neutral /\ "slash" \in Neutral /\ "at" \in Neutral
      /\ "path_semver" \in Neutral /\ "semver" \in Neutral /\ "as" \in Neutral
      /\ "comma" \in Neutral /\ "alias" \in Neutral /\ "payload" \in Neutral
      /\ "static" \in Neutral
  BY <1>1, PlainHas
<1>6. /\ "arrow" \in Neutral
  BY <1>1, PlainHas
<1> QED BY <1>2, <1>3, <1>4, <1>5, <1>6

LEMMA FlatParts ==
    ASSUME NEW t
    PROVE  /\ parse_document(t) # Error => parse_document(t) \in Seq(Neutral)
           /\ package_version(t) # Error => package_version(t) \in Seq(Neutral)
           /\ extern(t) # Error => extern(t) \in Seq(Neutral)
           /\ extern_item(t) # Error => extern_item(t) \in Seq(Neutral)
           /\ path_interface(t) # Error => path_interface(t) \in Seq(Neutral)
           /\ path_version(t) # Error => path_version(t) \in Seq(Neutral)
           /\ path_semver(t) # Error => path_semver(t) \in Seq(Neutral)
           /\ use_path(t) # Error => use_path(t) \in Seq(Neutral)
           /\ alias(t) # Error => alias(t) \in Seq(Neutral)
           /\ func_static(t) # Error => func_static(t) \in Seq(Neutral)
           /\ func_result(t) # Error => func_result(t) \in Seq(Neutral)
           /\ parse_param_list(t) # Error => parse_param_list(t) \in Seq(Neutral)
           /\ more_params(t) # Error => more_params(t) \in Seq(Neutral)
           /\ result_type(t) # Error => result_type(t) \in Seq(Neutral)
           /\ result_error(t) # Error => result_error(t) \in Seq(Neutral)
           /\ tuple_types(t) # Error => tuple_types(t) \in Seq(Neutral)
           /\ more_types(t) # Error => more_types(t) \in Seq(Neutral)
<1>0. /\ "result_type" \in Neutral /\ "result_error" \in Neutral /\ "more_types" \in Neutral
      /\ "more_params" \in Neutral /\ "underscore" \in Neutral
  BY NeutralHas, QuietHas
<1>1. parse_document(t) # Error => parse_document(t) \in Seq(Neutral)
  BY <1>0, NeutralHas DEF parse_document
<1>2. package_version(t) # Error => package_version(t) \in Seq(Neutral)
  BY <1>0, NeutralHas DEF package_version
<1>3. extern(t) # Error => extern(t) \in Seq(Neutral)
  BY <1>0, NeutralHas DEF extern
<1>4. extern_item(t) # Error => extern_item(t) \in Seq(Neutral)
  BY <1>0, NeutralHas DEF extern_item
<1>5. path_interface(t) # Error => path_interface(t) \in Seq(Neutral)
  BY <1>0, NeutralHas DEF path_interface
<1>6. path_version(t) # Error => path_version(t) \in Seq(Neutral)
  BY <1>0, NeutralHas DEF path_version
<1>7. path_semver(t) # Error => path_semver(t) \in Seq(Neutral)
  BY <1>0, NeutralHas DEF path_semver
<1>8. use_path(t) # Error => use_path(t) \in Seq(Neutral)
  BY <1>0, NeutralHas DEF use_path
<1>9. alias(t) # Error => alias(t) \in Seq(Neutral)
  BY <1>0, NeutralHas DEF alias
<1>10. func_static(t) # Error => func_static(t) \in Seq(Neutral)
  BY <1>0, NeutralHas DEF func_static
<1>11. func_result(t) # Error => func_result(t) \in Seq(Neutral)
  BY <1>0, NeutralHas DEF func_result
<1>12. parse_param_list(t) # Error => parse_param_list(t) \in Seq(Neutral)
  BY <1>0, NeutralHas DEF parse_param_list
<1>13. more_params(t) # Error => more_params(t) \in Seq(Neutral)
  BY <1>0, NeutralHas DEF more_params
<1>14. result_type(t) # Error => result_type(t) \in Seq(Neutral)
  BY <1>0, NeutralHas DEF result_type
<1>15. result_error(t) # Error => result_error(t) \in Seq(Neutral)
  BY <1>0, NeutralHas DEF result_error
<1>16. tuple_types(t) # Error => tuple_types(t) \in Seq(Neutral)
  BY <1>0, NeutralHas DEF tuple_types
<1>17. more_types(t) # Error => more_types(t) \in Seq(Neutral)
  BY <1>0, NeutralHas DEF more_types
<1> QED BY <1>1, <1>2, <1>3, <1>4, <1>5, <1>6, <1>7, <1>8, <1>9, <1>10, <1>11, <1>12, <1>13, <1>14, <1>15, <1>16, <1>17

\* What a body does that is given by the place of its brackets.
LEMMA PairAt ==
    ASSUME NEW b, NEW i \in Nat, NEW j \in Nat, Len(b) \in Nat,
           1 <= i, i < j, j <= Len(b),
           b[i] \in Opening, Owed(b[i]) = b[i], Owed(b[j]) = Closer[b[i]],
           \A k \in 1 .. Len(b) : k # i /\ k # j => b[k] \in Neutral
    PROVE  Pairs(b)
  BY DEF Pairs

LEMMA Brackets ==
    /\ "lbrace" \in Opening /\ "lparen" \in Opening /\ "langle" \in Opening
    /\ Closer["lbrace"] = "rbrace" /\ Closer["lparen"] = "rparen"
    /\ Closer["langle"] = "rangle"
    /\ \A c \in Bracketing : Owed(c) = c
    /\ \A c \in Blocks : Owed(c) = "rbrace"
    /\ Bracketing = {"lbrace", "rbrace", "lparen", "rparen", "langle", "rangle"}
  BY BlocksOwe, BlocksAre DEF Bracketing, Opening, Closing, Closer

LEMMA NeutralMarks ==
    /\ "set_package" \in Neutral /\ "set_constructor" \in Neutral
    /\ "resource_body" \in Neutral
<1>1. /\ "set_package" \in CallKind /\ "set_constructor" \in CallKind
      /\ "resource_body" \in CallKind
  BY DEF CallKind, Assignment, Choosing, Peeking
<1> QED BY <1>1, NeutralIs, BlocksAre, Brackets

\* A function that starts alike whatever comes.
LEMMA StraightBrackets ==
    ASSUME NEW c \in DOMAIN Straight
    PROVE  Straight[c] \in Seq(Neutral) \/ Pairs(Straight[c])
<1>1. Straight["parse_package"] \in Seq(Neutral)
  BY NeutralHas, NeutralMarks DEF Straight, parse_package
<1>2. Pairs(Straight["parse_interface"])
  <2> DEFINE b == Straight["parse_interface"]
  <2>1. /\ Len(b) = 4
        /\ b[1] = "interface" /\ b[2] = "name" /\ b[3] = "lbrace"
        /\ b[4] = "interface_items"
    BY DEF Straight, parse_interface
  <2>2. /\ "interface" \in Neutral /\ "name" \in Neutral
    BY NeutralHas
  <2>3. Owed("interface_items") = Closer["lbrace"] /\ Owed("lbrace") = "lbrace"
    BY Brackets, BlocksAre
  <2>4. ASSUME NEW k \in 1 .. 4, k # 3, k # 4 PROVE b[k] \in Neutral
    <3>1. k \in {1, 2}
      BY <2>4
    <3> HIDE DEF b
    <3> QED BY <2>1, <2>2, <3>1
  <2> HIDE DEF b
  <2>5. Pairs(b)
    BY <2>1, <2>3, <2>4, Brackets, PairAt
  <2> QED BY <2>5 DEF b
<1>3. Pairs(Straight["parse_world"])
  <2> DEFINE b == Straight["parse_world"]
  <2>1. /\ Len(b) = 4
        /\ b[1] = "world" /\ b[2] = "name" /\ b[3] = "lbrace" /\ b[4] = "world_items"
    BY DEF Straight, parse_world
  <2>2. /\ "world" \in Neutral /\ "name" \in Neutral
    BY NeutralHas
  <2>3. Owed("world_items") = Closer["lbrace"] /\ Owed("lbrace") = "lbrace"
    BY Brackets, BlocksAre
  <2>4. ASSUME NEW k \in 1 .. 4, k # 3, k # 4 PROVE b[k] \in Neutral
    <3>1. k \in {1, 2}
      BY <2>4
    <3> HIDE DEF b
    <3> QED BY <2>1, <2>2, <3>1
  <2> HIDE DEF b
  <2>5. Pairs(b)
    BY <2>1, <2>3, <2>4, Brackets, PairAt
  <2> QED BY <2>5 DEF b
<1>4. Straight["parse_include"] \in Seq(Neutral)
  BY NeutralHas, NeutralMarks DEF Straight, parse_include
<1>5. Pairs(Straight["parse_use"])
  <2> DEFINE b == Straight["parse_use"]
  <2>1. /\ Len(b) = 7
        /\ b[1] = "use" /\ b[2] = "name" /\ b[3] = "use_path" /\ b[4] = "dot"
        /\ b[5] = "lbrace" /\ b[6] = "use_names" /\ b[7] = "semicolon"
    BY DEF Straight, parse_use
  <2>2. /\ "use" \in Neutral /\ "name" \in Neutral /\ "use_path" \in Neutral /\ "dot" \in Neutral /\ "semicolon" \in Neutral
    BY NeutralHas
  <2>3. Owed("use_names") = Closer["lbrace"] /\ Owed("lbrace") = "lbrace"
    BY Brackets, BlocksAre
  <2>4. ASSUME NEW k \in 1 .. 7, k # 5, k # 6 PROVE b[k] \in Neutral
    <3>1. k \in {1, 2, 3, 4, 7}
      BY <2>4
    <3> HIDE DEF b
    <3> QED BY <2>1, <2>2, <3>1
  <2> HIDE DEF b
  <2>5. \A k \in 1 .. Len(b) : k # 5 /\ k # 6 => b[k] \in Neutral
    BY ONLY <2>1, <2>4
  <2>6. b[5] \in Opening /\ Owed(b[5]) = b[5] /\ Owed(b[6]) = Closer[b[5]]
    BY <2>1, <2>3, Brackets
  <2>7. Pairs(b)
    <3>1. 5 \in 1 .. Len(b) /\ 6 \in 1 .. Len(b) /\ 5 < 6
      BY <2>1
    <3> QED BY ONLY <3>1, <2>5, <2>6 DEF Pairs
  <2> QED BY <2>7 DEF b
<1>6. Pairs(Straight["parse_record"])
  <2> DEFINE b == Straight["parse_record"]
  <2>1. /\ Len(b) = 4
        /\ b[1] = "record" /\ b[2] = "name" /\ b[3] = "lbrace" /\ b[4] = "fields"
    BY DEF Straight, parse_record
  <2>2. /\ "record" \in Neutral /\ "name" \in Neutral
    BY NeutralHas
  <2>3. Owed("fields") = Closer["lbrace"] /\ Owed("lbrace") = "lbrace"
    BY Brackets, BlocksAre
  <2>4. ASSUME NEW k \in 1 .. 4, k # 3, k # 4 PROVE b[k] \in Neutral
    <3>1. k \in {1, 2}
      BY <2>4
    <3> HIDE DEF b
    <3> QED BY <2>1, <2>2, <3>1
  <2> HIDE DEF b
  <2>5. Pairs(b)
    BY <2>1, <2>3, <2>4, Brackets, PairAt
  <2> QED BY <2>5 DEF b
<1>7. Pairs(Straight["parse_enum"])
  <2> DEFINE b == Straight["parse_enum"]
  <2>1. /\ Len(b) = 4
        /\ b[1] = "enum" /\ b[2] = "name" /\ b[3] = "lbrace" /\ b[4] = "enum_cases"
    BY DEF Straight, parse_enum
  <2>2. /\ "enum" \in Neutral /\ "name" \in Neutral
    BY NeutralHas
  <2>3. Owed("enum_cases") = Closer["lbrace"] /\ Owed("lbrace") = "lbrace"
    BY Brackets, BlocksAre
  <2>4. ASSUME NEW k \in 1 .. 4, k # 3, k # 4 PROVE b[k] \in Neutral
    <3>1. k \in {1, 2}
      BY <2>4
    <3> HIDE DEF b
    <3> QED BY <2>1, <2>2, <3>1
  <2> HIDE DEF b
  <2>5. Pairs(b)
    BY <2>1, <2>3, <2>4, Brackets, PairAt
  <2> QED BY <2>5 DEF b
<1>8. Pairs(Straight["parse_variant"])
  <2> DEFINE b == Straight["parse_variant"]
  <2>1. /\ Len(b) = 4
        /\ b[1] = "variant" /\ b[2] = "name" /\ b[3] = "lbrace" /\ b[4] = "variant_cases"
    BY DEF Straight, parse_variant
  <2>2. /\ "variant" \in Neutral /\ "name" \in Neutral
    BY NeutralHas
  <2>3. Owed("variant_cases") = Closer["lbrace"] /\ Owed("lbrace") = "lbrace"
    BY Brackets, BlocksAre
  <2>4. ASSUME NEW k \in 1 .. 4, k # 3, k # 4 PROVE b[k] \in Neutral
    <3>1. k \in {1, 2}
      BY <2>4
    <3> HIDE DEF b
    <3> QED BY <2>1, <2>2, <3>1
  <2> HIDE DEF b
  <2>5. Pairs(b)
    BY <2>1, <2>3, <2>4, Brackets, PairAt
  <2> QED BY <2>5 DEF b
<1>9. Pairs(Straight["parse_flags"])
  <2> DEFINE b == Straight["parse_flags"]
  <2>1. /\ Len(b) = 4
        /\ b[1] = "flags" /\ b[2] = "name" /\ b[3] = "lbrace" /\ b[4] = "flag_names"
    BY DEF Straight, parse_flags
  <2>2. /\ "flags" \in Neutral /\ "name" \in Neutral
    BY NeutralHas
  <2>3. Owed("flag_names") = Closer["lbrace"] /\ Owed("lbrace") = "lbrace"
    BY Brackets, BlocksAre
  <2>4. ASSUME NEW k \in 1 .. 4, k # 3, k # 4 PROVE b[k] \in Neutral
    <3>1. k \in {1, 2}
      BY <2>4
    <3> HIDE DEF b
    <3> QED BY <2>1, <2>2, <3>1
  <2> HIDE DEF b
  <2>5. Pairs(b)
    BY <2>1, <2>3, <2>4, Brackets, PairAt
  <2> QED BY <2>5 DEF b
<1>10. Straight["parse_resource"] \in Seq(Neutral)
  BY NeutralHas, NeutralMarks DEF Straight, parse_resource
<1>11. Straight["parse_type_alias"] \in Seq(Neutral)
  BY NeutralHas, NeutralMarks DEF Straight, parse_type_alias
<1>12. Straight["parse_world_import"] \in Seq(Neutral)
  BY NeutralHas, NeutralMarks DEF Straight, parse_world_import
<1>13. Straight["parse_world_export"] \in Seq(Neutral)
  BY NeutralHas, NeutralMarks DEF Straight, parse_world_export
<1>14. Straight["parse_extern_path_rest"] \in Seq(Neutral)
  BY NeutralHas, NeutralMarks DEF Straight, parse_extern_path_rest
<1>15. Straight["parse_func_item"] \in Seq(Neutral)
  BY NeutralHas, NeutralMarks DEF Straight, parse_func_item
<1>16. Pairs(Straight["parse_constructor_func"])
  <2> DEFINE b == Straight["parse_constructor_func"]
  <2>1. /\ Len(b) = 5
        /\ b[1] = "constructor" /\ b[2] = "lparen" /\ b[3] = "parse_param_list"
        /\ b[4] = "rparen" /\ b[5] = "semicolon"
    BY DEF Straight, parse_constructor_func
  <2>2. /\ "constructor" \in Neutral /\ "parse_param_list" \in Neutral /\ "semicolon" \in Neutral
    BY NeutralHas
  <2>3. Owed("rparen") = Closer["lparen"] /\ Owed("lparen") = "lparen"
    BY Brackets, BlocksAre
  <2>4. ASSUME NEW k \in 1 .. 5, k # 2, k # 4 PROVE b[k] \in Neutral
    <3>1. k \in {1, 3, 5}
      BY <2>4
    <3> HIDE DEF b
    <3> QED BY <2>1, <2>2, <3>1
  <2> HIDE DEF b
  <2>5. Pairs(b)
    BY <2>1, <2>3, <2>4, Brackets, PairAt
  <2> QED BY <2>5 DEF b
<1>17. Pairs(Straight["parse_func_body"])
  <2> DEFINE b == Straight["parse_func_body"]
  <2>1. /\ Len(b) = 5
        /\ b[1] = "func" /\ b[2] = "lparen" /\ b[3] = "parse_param_list"
        /\ b[4] = "rparen" /\ b[5] = "func_result"
    BY DEF Straight, parse_func_body
  <2>2. /\ "func" \in Neutral /\ "parse_param_list" \in Neutral /\ "func_result" \in Neutral
    BY NeutralHas
  <2>3. Owed("rparen") = Closer["lparen"] /\ Owed("lparen") = "lparen"
    BY Brackets, BlocksAre
  <2>4. ASSUME NEW k \in 1 .. 5, k # 2, k # 4 PROVE b[k] \in Neutral
    <3>1. k \in {1, 3, 5}
      BY <2>4
    <3> HIDE DEF b
    <3> QED BY <2>1, <2>2, <3>1
  <2> HIDE DEF b
  <2>5. Pairs(b)
    BY <2>1, <2>3, <2>4, Brackets, PairAt
  <2> QED BY <2>5 DEF b
<1> QED
  BY <1>1, <1>2, <1>3, <1>4, <1>5, <1>6, <1>7, <1>8, <1>9, <1>10, <1>11, <1>12, <1>13, <1>14, <1>15, <1>16, <1>17, StraightAre

LEMMA ClosesShort ==
    ASSUME NEW x, Owed(x) = "rbrace"
    PROVE  /\ Closes(<<x>>)
           /\ \A y \in Neutral : Closes(<<y, x>>)
           /\ \A u, v, w \in Neutral : Closes(<<u, v, w, x>>)
           /\ \A s \in Seq(Neutral) : Closes(Append(s, x))
<1>1. Closes(<<x>>)
  BY DEF Closes
<1>2. ASSUME NEW y \in Neutral PROVE Closes(<<y, x>>)
  BY DEF Closes
<1>3. ASSUME NEW u \in Neutral, NEW v \in Neutral, NEW w \in Neutral
      PROVE  Closes(<<u, v, w, x>>)
  <2> DEFINE b == <<u, v, w, x>>
  <2>1. Len(b) = 4 /\ b[1] = u /\ b[2] = v /\ b[3] = w /\ b[4] = x
    OBVIOUS
  <2> HIDE DEF b
  <2>2. Closes(b)
    BY <2>1 DEF Closes
  <2> QED BY <2>2 DEF b
<1>4. ASSUME NEW s \in Seq(Neutral) PROVE Closes(Append(s, x))
  <2> DEFINE b == Append(s, x)
  <2>1. /\ Len(b) = Len(s) + 1 /\ Len(s) \in Nat /\ b[Len(s) + 1] = x
        /\ \A k \in 1 .. Len(s) : b[k] = s[k] /\ s[k] \in Neutral
    OBVIOUS
  <2> HIDE DEF b
  <2>2. Closes(b)
    BY <2>1 DEF Closes
  <2> QED BY <2>2 DEF b
<1> QED BY <1>1, <1>2, <1>3, <1>4

LEMMA TypeDefNeutral ==
    ASSUME NEW t \in DOMAIN TypeDef
    PROVE  TypeDef[t] \in Neutral
  BY NeutralHas DEF TypeDef

LEMMA ItemsClose ==
    ASSUME NEW t
    PROVE  /\ interface_items(t) # Error => Closes(interface_items(t))
           /\ world_items(t) # Error => Closes(world_items(t))
           /\ resource_items(t) # Error => Closes(resource_items(t))
<1>0. /\ Owed("rbrace") = "rbrace" /\ Owed("interface_items") = "rbrace"
      /\ Owed("world_items") = "rbrace" /\ Owed("resource_items") = "rbrace"
  BY Brackets, BlocksAre
<1>1. ASSUME interface_items(t) # Error PROVE Closes(interface_items(t))
  <2>1. CASE t \in DOMAIN TypeDef
    <3>1. interface_items(t) = <<TypeDef[t], "interface_items">>
      BY <2>1, StraightAre DEF interface_items, Ident
    <3> QED BY <2>1, <3>1, <1>0, TypeDefNeutral, ClosesShort
  <2>2. CASE t \notin DOMAIN TypeDef
    <3>1. \/ interface_items(t) = <<"rbrace">>
          \/ interface_items(t) = <<"doc", "interface_items">>
          \/ interface_items(t) = <<"parse_resource", "interface_items">>
          \/ interface_items(t) = <<"parse_use", "interface_items">>
          \/ interface_items(t) = <<"parse_func_item", "interface_items">>
          \/ interface_items(t) = <<"parse_constructor_func", "interface_items">>
      BY <1>1, <2>2 DEF interface_items
    <3>2. /\ Closes(<<"rbrace">>)
          /\ Closes(<<"doc", "interface_items">>)
          /\ Closes(<<"parse_resource", "interface_items">>)
          /\ Closes(<<"parse_use", "interface_items">>)
          /\ Closes(<<"parse_func_item", "interface_items">>)
          /\ Closes(<<"parse_constructor_func", "interface_items">>)
      BY <1>0, NeutralHas, ClosesShort
    <3> QED BY ONLY <3>1, <3>2
  <2> QED BY <2>1, <2>2
<1>2. ASSUME world_items(t) # Error PROVE Closes(world_items(t))
  <2>1. CASE t \in DOMAIN TypeDef
    <3>1. world_items(t) = <<TypeDef[t], "world_items">>
      BY <2>1, StraightAre DEF world_items
    <3> QED BY <2>1, <3>1, <1>0, TypeDefNeutral, ClosesShort
  <2>2. CASE t \notin DOMAIN TypeDef
    <3>1. \/ world_items(t) = <<"rbrace">>
          \/ world_items(t) = <<"doc", "world_items">>
          \/ world_items(t) = <<"parse_world_import", "world_items">>
          \/ world_items(t) = <<"parse_world_export", "world_items">>
          \/ world_items(t) = <<"parse_include", "world_items">>
          \/ world_items(t) = <<"parse_use", "world_items">>
      BY <1>2, <2>2 DEF world_items
    <3>2. /\ Closes(<<"rbrace">>)
          /\ Closes(<<"doc", "world_items">>)
          /\ Closes(<<"parse_world_import", "world_items">>)
          /\ Closes(<<"parse_world_export", "world_items">>)
          /\ Closes(<<"parse_include", "world_items">>)
          /\ Closes(<<"parse_use", "world_items">>)
      BY <1>0, NeutralHas, ClosesShort
    <3> QED BY ONLY <3>1, <3>2
  <2> QED BY <2>1, <2>2
<1>3. ASSUME resource_items(t) # Error PROVE Closes(resource_items(t))
  <2>1. \/ resource_items(t) = <<"rbrace">>
        \/ resource_items(t) = <<"doc", "resource_items">>
        \/ resource_items(t) = <<"parse_func_item", "resource_items">>
        \/ resource_items(t) =
               <<"keep", "parse_constructor_func", "set_constructor", "resource_items">>
    BY <1>3 DEF resource_items
  <2>2. CASE resource_items(t) =
               <<"keep", "parse_constructor_func", "set_constructor", "resource_items">>
    <3>1. /\ "keep" \in Neutral /\ "parse_constructor_func" \in Neutral
          /\ "set_constructor" \in Neutral
      BY NeutralHas, NeutralMarks
    <3>2. Closes(<<"keep", "parse_constructor_func", "set_constructor", "resource_items">>)
      BY ONLY <3>1, <1>0, ClosesShort
    <3> QED BY ONLY <2>2, <3>2
  <2>3. /\ Closes(<<"rbrace">>) /\ Closes(<<"doc", "resource_items">>)
        /\ Closes(<<"parse_func_item", "resource_items">>)
    BY <1>0, NeutralHas, ClosesShort
  <2> QED BY ONLY <2>1, <2>2, <2>3
<1> QED BY <1>1, <1>2, <1>3

LEMMA ListsClose ==
    ASSUME NEW t, NEW list \in DOMAIN Member
    PROVE  Closes(members(list, t)) /\ Closes(comma(list, t))
<1>0. Owed("rbrace") = "rbrace" /\ Owed(list) = "rbrace" /\ Owed(Separator[list]) = "rbrace"
  <2>1. Separator[list] \in Range(Separator)
    BY Lists, Separators
  <2> QED BY <2>1, Brackets, BlocksOwe DEF Blocks
<1>1. Closes(comma(list, t))
  BY <1>0, NeutralHas, ClosesShort DEF comma
<1>2. Member[list] \in Seq(Neutral)
  <2>1. /\ <<"name">> \in Seq(Neutral) /\ <<"name", "alias">> \in Seq(Neutral)
        /\ <<"name", "payload">> \in Seq(Neutral)
        /\ <<"name", "colon", "parse_type_ref">> \in Seq(Neutral)
    BY NeutralHas
  <2> QED BY <2>1, Lists, Members
<1>3. Closes(members(list, t))
  BY <1>0, <1>2, NeutralHas, ClosesShort DEF members
<1> QED BY <1>1, <1>3

\* A pair of brackets around one call, or two.
LEMMA PairShort ==
    ASSUME NEW u, NEW v, u \in Opening, Owed(u) = u, Owed(v) = Closer[u]
    PROVE  /\ Pairs(<<u, v>>)
           /\ \A x \in Neutral : Pairs(<<u, x, v>>)
           /\ \A x, y \in Neutral : Pairs(<<x, u, y, v>>) /\ Pairs(<<u, x, y, v>>)
<1>1. Pairs(<<u, v>>)
  <2> DEFINE b == <<u, v>>
  <2>1. Len(b) = 2 /\ b[1] = u /\ b[2] = v
    OBVIOUS
  <2> HIDE DEF b
  <2>2. Pairs(b)
    BY <2>1, PairAt
  <2> QED BY <2>2 DEF b
<1>2. ASSUME NEW x \in Neutral PROVE Pairs(<<u, x, v>>)
  <2> DEFINE b == <<u, x, v>>
  <2>1. Len(b) = 3 /\ b[1] = u /\ b[2] = x /\ b[3] = v
    OBVIOUS
  <2> HIDE DEF b
  <2>2. Pairs(b)
    BY <2>1, PairAt
  <2> QED BY <2>2 DEF b
<1>3. ASSUME NEW x \in Neutral, NEW y \in Neutral
      PROVE  Pairs(<<x, u, y, v>>) /\ Pairs(<<u, x, y, v>>)
  <2> DEFINE b == <<x, u, y, v>>
             c == <<u, x, y, v>>
  <2>1. Len(b) = 4 /\ b[1] = x /\ b[2] = u /\ b[3] = y /\ b[4] = v
    OBVIOUS
  <2>2. Len(c) = 4 /\ c[1] = u /\ c[2] = x /\ c[3] = y /\ c[4] = v
    OBVIOUS
  <2> HIDE DEF b, c
  <2>3. Pairs(b)
    BY <2>1, PairAt
  <2>4. Pairs(c)
    BY <2>2, PairAt
  <2> QED BY <2>3, <2>4 DEF b, c
<1> QED BY <1>1, <1>2, <1>3

LEMMA PairParts ==
    ASSUME NEW t
    PROVE  /\ payload(t) \in Seq(Neutral) \/ Pairs(payload(t))
           /\ resource_body(t) \in Seq(Neutral) \/ Pairs(resource_body(t))
           /\ result_types(t) \in Seq(Neutral) \/ Pairs(result_types(t))
           /\ parse_type_ref(t) # Error =>
                 parse_type_ref(t) \in Seq(Neutral) \/ Pairs(parse_type_ref(t))
<1>0. /\ Owed("lbrace") = "lbrace" /\ Owed("lparen") = "lparen" /\ Owed("langle") = "langle"
      /\ Owed("rparen") = Closer["lparen"] /\ Owed("rangle") = Closer["langle"]
      /\ Owed("resource_items") = Closer["lbrace"]
  BY Brackets, BlocksAre
<1>1. payload(t) \in Seq(Neutral) \/ Pairs(payload(t))
  <2>1. "parse_type_ref" \in Neutral
    BY NeutralHas
  <2>2. Pairs(<<"lparen", "parse_type_ref", "rparen">>)
    BY <2>1, <1>0, Brackets, PairShort
  <2>3. <<>> \in Seq(Neutral)
    OBVIOUS
  <2> QED BY ONLY <2>2, <2>3 DEF payload
<1>2. resource_body(t) \in Seq(Neutral) \/ Pairs(resource_body(t))
  BY <1>0, Brackets, NeutralHas, PairShort DEF resource_body
<1>3. result_types(t) \in Seq(Neutral) \/ Pairs(result_types(t))
  <2>1. "result_type" \in Neutral /\ "result_error" \in Neutral
    BY NeutralHas, QuietHas
  <2>2. Pairs(<<"langle", "result_type", "result_error", "rangle">>)
    BY <2>1, <1>0, Brackets, PairShort
  <2>3. <<>> \in Seq(Neutral)
    OBVIOUS
  <2> QED BY ONLY <2>2, <2>3 DEF result_types
<1>4. ASSUME parse_type_ref(t) # Error
      PROVE  parse_type_ref(t) \in Seq(Neutral) \/ Pairs(parse_type_ref(t))
  <2>0. /\ "list" \in Neutral /\ "option" \in Neutral /\ "own" \in Neutral
        /\ "borrow" \in Neutral /\ "result" \in Neutral /\ "result_types" \in Neutral
        /\ "tuple" \in Neutral /\ "tuple_types" \in Neutral
    BY NeutralHas, QuietHas
  <2>1. CASE t \in Primitive /\ parse_type_ref(t) = <<t>>
    <3>1. t \in Quiet /\ t \notin {"lparen", "rparen", "langle", "rangle"}
      BY <2>1, QuietHas DEF Primitive
    <3>2. t \in Neutral
      BY <3>1, NeutralHas
    <3> QED BY <2>1, <3>2
  <2>2. CASE /\ t \in {"list", "option", "own", "borrow"}
             /\ parse_type_ref(t) = <<t, "langle", "parse_type_ref", "rangle">>
    <3>1. t \in Neutral /\ "parse_type_ref" \in Neutral
      BY <2>2, <2>0, NeutralHas
    <3>2. Pairs(<<t, "langle", "parse_type_ref", "rangle">>)
      BY <3>1, <1>0, Brackets, PairShort
    <3> QED BY ONLY <2>2, <3>2
  <2>3. CASE t = "result" /\ parse_type_ref(t) = <<"result", "result_types">>
    <3>1. <<"result", "result_types">> \in Seq(Neutral)
      BY <2>0
    <3> QED BY ONLY <2>3, <3>1
  <2>4. CASE t = "tuple" /\ parse_type_ref(t) = <<"tuple", "langle", "tuple_types", "rangle">>
    <3>1. Pairs(<<"tuple", "langle", "tuple_types", "rangle">>)
      BY <2>0, <1>0, Brackets, PairShort
    <3> QED BY ONLY <2>4, <3>1
  <2>5. CASE t \in Ident /\ parse_type_ref(t) = <<"name">>
    BY <2>5, NeutralHas
  <2> QED BY ONLY <1>4, <2>1, <2>2, <2>3, <2>4, <2>5, TypeRefBodies
<1> QED BY <1>1, <1>2, <1>3, <1>4

LEMMA ChoosingBrackets ==
    ASSUME NEW c \in Choosing, NEW t, Body(c, t) # Error
    PROVE  \/ c \in Blocks /\ Closes(Body(c, t))
           \/ c \in CallKind \ Blocks /\ (Body(c, t) \in Seq(Neutral) \/ Pairs(Body(c, t)))
<1>1. CASE c \in DOMAIN Member
  BY <1>1, ListBodies, ListsClose DEF Blocks
<1>2. CASE c \in Range(Separator)
  BY <1>2, ListBodies, ListsClose DEF Blocks
<1>3. CASE c \in {"interface_items", "world_items", "resource_items"}
  BY <1>3, PeekingBodies, ItemsClose DEF Blocks
<1>4. CASE c \in Peeking \ {"interface_items", "world_items", "resource_items"}
  <2>1. c \in CallKind
    BY DEF CallKind
  <2>2. c \notin Blocks
    BY <1>4, BlocksAre DEF Peeking
  <2>3. CASE c \in {"payload", "resource_body", "result_types", "parse_type_ref"}
    BY <2>1, <2>2, <2>3, PeekingBodies, PairParts
  <2>4. CASE c \notin {"payload", "resource_body", "result_types", "parse_type_ref"}
    BY <1>4, <2>1, <2>2, <2>4, PeekingBodies, FlatParts DEF Peeking
  <2> QED BY <2>3, <2>4
<1> QED BY <1>1, <1>2, <1>3, <1>4 DEF Choosing

-----------------------------------------------------------------------------
(***************************************************************************)
(* The brackets that tokens leave open.                                    *)
(***************************************************************************)

\* Induction over a set of numbers.
LEMMA NatSetInduction ==
    ASSUME NEW P \in SUBSET Nat, 0 \in P, \A n \in P : n + 1 \in P
    PROVE  P = Nat
<1> SUFFICES ASSUME Nat \ P # {} PROVE FALSE
  OBVIOUS
<1>1. IsWellFoundedOn(Less, Nat)
  BY NatLessThanWellFounded DEF Less, OpToRel
<1>2. PICK i \in Nat \ P : \A j \in Nat \ P : ~ (<<j, i>> \in Less)
  BY <1>1, WFMin, Zenon
<1>3. i # 0 /\ i - 1 \in Nat
  OBVIOUS
<1>4. <<i - 1, i>> \in Nat \X Nat /\ <<i - 1, i>>[1] < <<i - 1, i>>[2]
  BY <1>3
<1>5. i - 1 \notin Nat \ P
  BY <1>2, <1>4 DEF Less
<1> QED BY <1>3, <1>5

Meeting(s, n, open) == open = [k \in 0 .. n |-> IF k = 0 THEN <<>> ELSE Meet(open[k - 1], s[k])]
TokenByToken(s, n, open) ==
    open[0] = <<>> /\ \A k \in 1 .. n : open[k] = Meet(open[k - 1], s[k])

LEMMA MeetingEquations ==
    ASSUME NEW s, NEW n \in Nat, NEW open, Meeting(s, n, open)
    PROVE  TokenByToken(s, n, open)
<1> DEFINE h == [k \in 0 .. n |-> IF k = 0 THEN <<>> ELSE Meet(open[k - 1], s[k])]
<1>1. open = h
  BY DEF Meeting
<1>2. h[0] = <<>> /\ \A k \in 1 .. n : h[k] = Meet(open[k - 1], s[k])
  OBVIOUS
<1> HIDE DEF h
<1>3. open[0] = h[0] /\ \A k \in 1 .. n : open[k] = h[k]
  BY <1>1
<1> QED BY <1>2, <1>3 DEF TokenByToken

LEMMA MeetingExists ==
    ASSUME NEW s, NEW n \in Nat
    PROVE  \E open : Meeting(s, n, open)
<1> DEFINE N == {m \in Nat : \E open : Meeting(s, m, open)}
<1>1. 0 \in N
  <2>1. Meeting(s, 0, [k \in 0 .. 0 |-> <<>>])
    BY DEF Meeting
  <2> QED BY <2>1
<1>2. ASSUME NEW m \in N PROVE m + 1 \in N
  <2>1. PICK f : Meeting(s, m, f)
    OBVIOUS
  <2>2. m \in Nat
    OBVIOUS
  <2>3. TokenByToken(s, m, f)
    BY ONLY <2>1, <2>2, MeetingEquations
  <2>4. f[0] = <<>> /\ \A k \in 1 .. m : f[k] = Meet(f[k - 1], s[k])
    BY <2>3 DEF TokenByToken
  <2> DEFINE g == [k \in 0 .. m + 1 |-> IF k <= m THEN f[k] ELSE Meet(f[k - 1], s[k])]
  <2>5. /\ \A k \in 0 .. m : g[k] = f[k]
        /\ g[m + 1] = Meet(f[m], s[m + 1])
    OBVIOUS
  <2> DEFINE h == [k \in 0 .. m + 1 |-> IF k = 0 THEN <<>> ELSE Meet(g[k - 1], s[k])]
  <2>6. ASSUME NEW k \in 0 .. m + 1 PROVE g[k] = h[k]
    <3> HIDE DEF g
    <3>1. CASE k = 0
      BY <2>5, <2>4, <3>1
    <3>2. CASE k \in 1 .. m
      BY <2>5, <2>4, <3>2
    <3>3. CASE k = m + 1
      BY <2>5, <3>3
    <3> QED BY <3>1, <3>2, <3>3
  <2>7. g = h
    BY <2>6
  <2>8. Meeting(s, m + 1, g)
    BY <2>7 DEF Meeting
  <2> QED BY <2>8
<1>3. N = Nat
  BY <1>1, <1>2, NatSetInduction
<1> QED BY <1>3

LEMMA OpenIs ==
    ASSUME NEW s, Len(s) \in Nat
    PROVE  \E open : OpenBrackets(s) = open[Len(s)] /\ TokenByToken(s, Len(s), open)
<1> DEFINE open == CHOOSE f : Meeting(s, Len(s), f)
<1>1. Meeting(s, Len(s), open)
  BY MeetingExists
<1>2. OpenBrackets(s) = open[Len(s)]
  BY DEF OpenBrackets, Meeting
<1> QED BY <1>1, <1>2, MeetingEquations

Open == Seq(Closing \union {"wrong"})

LEMMA OpenTyped ==
    ASSUME NEW s, NEW n \in Nat, NEW open, TokenByToken(s, n, open)
    PROVE  \A k \in 0 .. n : open[k] \in Open
<1> DEFINE N == {m \in Nat : m <= n => open[m] \in Open}
<1>1. 0 \in N
  <2>1. <<>> \in Open
    BY DEF Open
  <2>2. open[0] = <<>>
    BY DEF TokenByToken
  <2> QED BY <2>1, <2>2
<1>2. ASSUME NEW m \in N PROVE m + 1 \in N
  <2> SUFFICES ASSUME m + 1 <= n PROVE open[m + 1] \in Open
    OBVIOUS
  <2>1. open[m] \in Open /\ open[m + 1] = Meet(open[m], s[m + 1])
    BY DEF TokenByToken
  <2>2. ASSUME NEW o \in Open, NEW t PROVE Meet(o, t) \in Open
    <3>1. t \in Opening => Closer[t] \in Closing
      BY DEF Opening, Closing, Closer
    <3>2. o # <<>> => Tail(o) \in Open
      BY DEF Open
    <3>3. ASSUME NEW x \in Closing \union {"wrong"} PROVE <<x>> \o o \in Open
      BY DEF Open
    <3> QED BY <3>1, <3>2, <3>3 DEF Meet
  <2> QED BY <2>1, <2>2
<1>3. N = Nat
  BY <1>1, <1>2, NatSetInduction
<1> QED BY <1>3

\* Nothing but brackets counts.
LEMMA OpenStays ==
    ASSUME NEW s, NEW n \in Nat, NEW open, TokenByToken(s, n, open),
           NEW a \in 0 .. n, NEW b \in a .. n,
           \A k \in a + 1 .. b : s[k] \notin Bracketing
    PROVE  open[b] = open[a]
<1> DEFINE N == {m \in Nat : a + m <= b => open[a + m] = open[a]}
<1>1. 0 \in N
  OBVIOUS
<1>2. ASSUME NEW m \in N PROVE m + 1 \in N
  <2> SUFFICES ASSUME a + (m + 1) <= b PROVE open[a + (m + 1)] = open[a]
    OBVIOUS
  <2>1. a + m + 1 \in 1 .. n /\ (a + m + 1) - 1 = a + m /\ a + m + 1 \in a + 1 .. b
    OBVIOUS
  <2>2. open[a + m + 1] = Meet(open[a + m], s[a + m + 1])
    BY <2>1 DEF TokenByToken
  <2>3. Meet(open[a + m], s[a + m + 1]) = open[a + m]
    BY <2>1 DEF Meet, Bracketing
  <2> QED BY <2>2, <2>3
<1>3. N = Nat
  BY <1>1, <1>2, NatSetInduction
<1> HIDE DEF N
<1>4. b - a \in Nat /\ a + (b - a) = b
  OBVIOUS
<1>5. b - a \in N
  BY <1>3, <1>4
<1> QED BY <1>4, <1>5 DEF N

\* After the first a tokens of s come the d ones that are after the first b of u.
Alike(s, a, u, b, d) == \A k \in 1 .. d : s[a + k] = u[b + k]

\* From the same open brackets the same tokens lead to the same.
LEMMA SameOpen ==
    ASSUME NEW s, NEW n \in Nat, NEW f, TokenByToken(s, n, f), NEW a \in 0 .. n,
           NEW u, NEW m \in Nat, NEW g, TokenByToken(u, m, g), NEW b \in 0 .. m,
           NEW d \in Nat, a + d <= n, b + d <= m,
           f[a] = g[b], Alike(s, a, u, b, d)
    PROVE  f[a + d] = g[b + d]
<1> DEFINE N == {k \in Nat : k <= d => f[a + k] = g[b + k]}
<1>1. 0 \in N
  OBVIOUS
<1>2. ASSUME NEW k \in N PROVE k + 1 \in N
  <2> SUFFICES ASSUME k + 1 <= d PROVE f[a + (k + 1)] = g[b + (k + 1)]
    OBVIOUS
  <2>1. /\ a + k + 1 \in 1 .. n /\ (a + k + 1) - 1 = a + k
        /\ b + k + 1 \in 1 .. m /\ (b + k + 1) - 1 = b + k
        /\ k + 1 \in 1 .. d
    OBVIOUS
  <2>2. f[a + k + 1] = Meet(f[a + k], s[a + k + 1])
    BY <2>1 DEF TokenByToken
  <2>3. g[b + k + 1] = Meet(g[b + k], u[b + k + 1])
    BY <2>1 DEF TokenByToken
  <2>4. s[a + k + 1] = u[b + k + 1]
    BY <2>1 DEF Alike
  <2> QED BY <2>2, <2>3, <2>4
<1>3. N = Nat
  BY <1>1, <1>2, NatSetInduction
<1>4. d \in N
  BY <1>3
<1> QED BY <1>4

\* The tokens read, and the ones the calls owe.
Word(s, cs) == s \o [k \in DOMAIN cs |-> Owed(cs[k])]

LEMMA WordIs ==
    ASSUME NEW s \in Seq(TokenKind), NEW cs \in Seq(CallKind)
    PROVE  /\ Len(Word(s, cs)) = Len(s) + Len(cs)
           /\ \A k \in 1 .. Len(s) : Word(s, cs)[k] = s[k]
           /\ \A k \in 1 .. Len(cs) : Word(s, cs)[Len(s) + k] = Owed(cs[k])
<1> DEFINE owed == [k \in DOMAIN cs |-> Owed(cs[k])]
           O == {Owed(c) : c \in CallKind}
<1>1. owed \in Seq(O) /\ Len(owed) = Len(cs) /\ \A k \in 1 .. Len(cs) : owed[k] = Owed(cs[k])
  <2>1. /\ DOMAIN cs = 1 .. Len(cs) /\ Len(cs) \in Nat
        /\ \A k \in 1 .. Len(cs) : cs[k] \in CallKind
    OBVIOUS
  <2>2. owed \in [1 .. Len(cs) -> O]
    BY <2>1
  <2> QED BY <2>1, <2>2
<1> HIDE DEF owed, O
<1>2. /\ Len(s \o owed) = Len(s) + Len(cs)
      /\ \A k \in 1 .. Len(s) : (s \o owed)[k] = s[k]
      /\ \A k \in 1 .. Len(cs) : (s \o owed)[Len(s) + k] = owed[k]
  <2>1. s \in Seq(TokenKind \union O) /\ owed \in Seq(TokenKind \union O)
    BY <1>1
  <2>2. /\ Len(s) \in Nat /\ Len(owed) \in Nat
        /\ Len(s \o owed) = Len(s) + Len(owed)
        /\ \A k \in 1 .. Len(s) + Len(owed) :
              (s \o owed)[k] = IF k <= Len(s) THEN s[k] ELSE owed[k - Len(s)]
    BY <2>1
  <2> QED BY <1>1, <2>2
<1> QED BY <1>1, <1>2 DEF Word, owed

\* What body b does is what its call c owes.
Acts(c, b) ==
    \/ c \in Blocks /\ Closes(b)
    \/ Owed(c) \notin Bracketing /\ (b \in Seq(Neutral) \/ Pairs(b))

LEMMA MeetPair ==
    ASSUME NEW o \in Open, NEW x \in Opening
    PROVE  Meet(Meet(o, x), Closer[x]) = o
<1>1. Closer[x] \in Closing /\ Closer[x] \notin Opening
  BY DEF Opening, Closing, Closer
<1>2. Meet(o, x) = <<Closer[x]>> \o o
  BY DEF Meet
<1>3. /\ <<Closer[x]>> \o o # <<>> /\ Head(<<Closer[x]>> \o o) = Closer[x]
      /\ Tail(<<Closer[x]>> \o o) = o
  BY <1>1 DEF Open
<1> QED BY <1>1, <1>2, <1>3 DEF Meet

\* After the first a tokens of u come those that b owes.
Spells(u, a, b) == \A k \in 1 .. Len(b) : u[a + k] = Owed(b[k])

LEMMA BodyMeets ==
    ASSUME NEW u, NEW n \in Nat, NEW g, TokenByToken(u, n, g), NEW a \in Nat,
           NEW b \in Seq(CallKind), a + Len(b) <= n,
           Spells(u, a, b), NEW c, Acts(c, b)
    PROVE  g[a + Len(b)] = Meet(g[a], Owed(c))
<1> DEFINE l == Len(b)
<1>0. l \in Nat
  OBVIOUS
<1>1. \A k \in 1 .. l : b[k] \in Neutral => u[a + k] \notin Bracketing
  BY DEF Neutral, Spells
<1>n. ASSUME NEW i \in 0 .. l, NEW j \in i .. l, \A k \in i + 1 .. j : b[k] \in Neutral
      PROVE  g[a + j] = g[a + i]
  <2>1. a + i \in 0 .. n /\ a + j \in (a + i) .. n
    BY <1>0
  <2>2. ASSUME NEW k \in (a + i) + 1 .. a + j PROVE u[k] \notin Bracketing
    <3>1. k - a \in i + 1 .. j /\ k - a \in 1 .. l /\ a + (k - a) = k
      BY <1>0
    <3> QED BY <3>1, <1>n, <1>1
  <2> HIDE DEF l
  <2> QED BY <2>1, <2>2, OpenStays
<1>o. g[a] \in Open /\ a + 0 = a
  <2>1. a \in 0 .. n /\ a + 0 = a
    BY <1>0
  <2>2. \A k \in 0 .. n : g[k] \in Open
    BY OpenTyped
  <2> QED BY ONLY <2>1, <2>2
<1>s. \A k \in 1 .. l : g[a + k] = Meet(g[a + (k - 1)], Owed(b[k]))
  <2> SUFFICES ASSUME NEW k \in 1 .. l PROVE g[a + k] = Meet(g[a + (k - 1)], Owed(b[k]))
    OBVIOUS
  <2>1. a + k \in 1 .. n /\ (a + k) - 1 = a + (k - 1)
    BY <1>0
  <2> QED BY <2>1 DEF TokenByToken, Spells
<1>2. CASE c \in Blocks /\ Closes(b)
  <2>1. l - 1 \in 0 .. l /\ l \in 1 .. l /\ Owed(b[l]) = "rbrace"
    BY <1>0, <1>2 DEF Closes
  <2>2. \A k \in 0 + 1 .. l - 1 : b[k] \in Neutral
    BY <1>2 DEF Closes
  <2>3. 0 \in 0 .. l /\ l - 1 \in 0 .. l
    BY <2>1
  <2> HIDE DEF l
  <2>4. g[a + (l - 1)] = g[a + 0]
    BY <1>n, <2>2, <2>3
  <2>5. g[a + l] = Meet(g[a], "rbrace")
    BY <1>s, <1>o, <2>1, <2>4
  <2> QED BY <1>2, <2>5, BlocksOwe DEF l
<1>3. CASE Owed(c) \notin Bracketing /\ b \in Seq(Neutral)
  <2>1. \A k \in 0 + 1 .. l : b[k] \in Neutral
    BY <1>3
  <2>2. 0 \in 0 .. l /\ l \in 0 .. l
    BY <1>0
  <2> HIDE DEF l
  <2>3. g[a + l] = g[a + 0]
    BY <1>n, <2>1, <2>2
  <2>4. Meet(g[a], Owed(c)) = g[a]
    BY <1>3 DEF Meet, Bracketing
  <2> QED BY <2>3, <2>4, <1>o DEF l
<1>4. CASE Owed(c) \notin Bracketing /\ Pairs(b)
  <2>1. PICK i \in 1 .. l, j \in 1 .. l :
          /\ i < j
          /\ b[i] \in Opening /\ Owed(b[i]) = b[i] /\ Owed(b[j]) = Closer[b[i]]
          /\ \A k \in 1 .. l : k # i /\ k # j => b[k] \in Neutral
    BY <1>4 DEF Pairs
  <2>2. /\ 0 \in 0 .. l /\ i - 1 \in 0 .. l /\ i \in 0 .. l /\ j - 1 \in i .. l
        /\ j \in 0 .. l /\ l \in j .. l
    BY <1>0, <2>1
  <2>3. /\ \A k \in 0 + 1 .. i - 1 : b[k] \in Neutral
        /\ \A k \in i + 1 .. j - 1 : b[k] \in Neutral
        /\ \A k \in j + 1 .. l : b[k] \in Neutral
    BY <1>0, <2>1
  <2> HIDE DEF l
  <2>4. /\ g[a + (i - 1)] = g[a + 0] /\ g[a + (j - 1)] = g[a + i] /\ g[a + l] = g[a + j]
    BY <1>n, <2>2, <2>3
  <2>5. g[a + i] = Meet(g[a], b[i])
    BY <1>s, <1>o, <2>1, <2>4
  <2>6. g[a + j] = Meet(Meet(g[a], b[i]), Closer[b[i]])
    BY <1>s, <2>1, <2>4, <2>5
  <2>7. g[a + j] = g[a]
    BY <2>6, <2>1, <1>o, MeetPair
  <2>8. Meet(g[a], Owed(c)) = g[a]
    BY <1>4 DEF Meet, Bracketing
  <2> QED BY <2>4, <2>7, <2>8 DEF l
<1> QED BY <1>2, <1>3, <1>4 DEF Acts

\* Two sequences alike but for a part that does the same to what is open.
LEMMA AlikeBefore ==
    ASSUME NEW u, NEW v, NEW a \in Nat, NEW n \in Nat, NEW m \in Nat, a <= n, a <= m,
           Alike(u, 0, v, 0, a),
           NEW f, TokenByToken(u, n, f), NEW g, TokenByToken(v, m, g)
    PROVE  f[a] = g[a]
<1>1. f[0] = g[0]
  BY DEF TokenByToken
<1>2. /\ 0 \in 0 .. n /\ 0 \in 0 .. m /\ 0 + a <= n /\ 0 + a <= m
      /\ 0 + a = a /\ 0 \in Nat
  OBVIOUS
<1>3. f[0 + a] = g[0 + a]
  BY <1>1, <1>2, SameOpen
<1> QED BY <1>2, <1>3

LEMMA TailIs ==
    ASSUME NEW C, NEW cs \in Seq(C), cs # <<>>
    PROVE  /\ Len(cs) \in Nat \ {0} /\ Head(cs) = cs[1] /\ Head(cs) \in C
           /\ Tail(cs) \in Seq(C) /\ Len(Tail(cs)) = Len(cs) - 1
           /\ \A k \in 1 .. Len(cs) - 1 : Tail(cs)[k] = cs[k + 1]
  OBVIOUS

LEMMA ConcatIs ==
    ASSUME NEW C, NEW b \in Seq(C), NEW e \in Seq(C)
    PROVE  /\ b \o e \in Seq(C) /\ Len(b \o e) = Len(b) + Len(e)
           /\ \A k \in 1 .. Len(b) : (b \o e)[k] = b[k]
           /\ \A k \in 1 .. Len(e) : (b \o e)[Len(b) + k] = e[k]
  OBVIOUS

\* A call and its body leave the same brackets open, whatever is called after them.
LEMMA BodyReplaces ==
    ASSUME NEW s \in Seq(TokenKind), NEW cs \in Seq(CallKind), cs # <<>>,
           NEW b \in Seq(CallKind), Acts(Head(cs), b)
    PROVE  OpenBrackets(Word(s, b \o Tail(cs))) = OpenBrackets(Word(s, cs))
<1>1. PICK a \in Nat : a = Len(s)
  OBVIOUS
<1>2. PICK l \in Nat : l = Len(b)
  OBVIOUS
<1>3. PICK r \in Nat : Len(cs) = 1 + r
  <2>1. Len(cs) - 1 \in Nat /\ Len(cs) = 1 + (Len(cs) - 1)
    BY TailIs
  <2> QED BY <2>1
<1>4. PICK e \in Seq(CallKind) : e = Tail(cs)
  BY TailIs
<1>5. /\ Len(e) = r /\ Head(cs) = cs[1]
      /\ \A k \in 1 .. r : e[k] = cs[k + 1]
  <2>1. Len(cs) - 1 = r
    BY <1>3
  <2> QED BY <2>1, <1>4, TailIs
<1>6. PICK bs \in Seq(CallKind) :
        /\ bs = b \o e /\ Len(bs) = l + r
        /\ \A k \in 1 .. l : bs[k] = b[k]
        /\ \A k \in 1 .. r : bs[l + k] = e[k]
  <2>1. /\ b \o e \in Seq(CallKind) /\ Len(b \o e) = Len(b) + Len(e)
        /\ \A k \in 1 .. Len(b) : (b \o e)[k] = b[k]
        /\ \A k \in 1 .. Len(e) : (b \o e)[Len(b) + k] = e[k]
    BY ConcatIs
  <2> QED BY ONLY <2>1, <1>2, <1>5
<1>7. PICK u : /\ u = Word(s, cs) /\ Len(u) = a + (1 + r)
               /\ \A k \in 1 .. a : u[k] = s[k]
               /\ \A k \in 1 .. 1 + r : u[a + k] = Owed(cs[k])
  <2>1. /\ Len(Word(s, cs)) = Len(s) + Len(cs)
        /\ \A k \in 1 .. Len(s) : Word(s, cs)[k] = s[k]
        /\ \A k \in 1 .. Len(cs) : Word(s, cs)[Len(s) + k] = Owed(cs[k])
    BY WordIs
  <2> QED BY ONLY <2>1, <1>1, <1>3
<1>8. PICK v : /\ v = Word(s, bs) /\ Len(v) = a + (l + r)
               /\ \A k \in 1 .. a : v[k] = s[k]
               /\ \A k \in 1 .. l + r : v[a + k] = Owed(bs[k])
  <2>1. /\ Len(Word(s, bs)) = Len(s) + Len(bs)
        /\ \A k \in 1 .. Len(s) : Word(s, bs)[k] = s[k]
        /\ \A k \in 1 .. Len(bs) : Word(s, bs)[Len(s) + k] = Owed(bs[k])
    BY WordIs
  <2> QED BY ONLY <2>1, <1>1, <1>6
<1>9. Spells(v, a, b)
  <2> SUFFICES ASSUME NEW k \in 1 .. Len(b) PROVE v[a + k] = Owed(b[k])
    BY DEF Spells
  <2>1. k \in 1 .. l /\ k \in 1 .. l + r
    BY <1>2
  <2> QED BY <2>1, <1>6, <1>8
<1>10. Alike(u, a + 1, v, a + l, r)
  <2> SUFFICES ASSUME NEW k \in 1 .. r PROVE u[(a + 1) + k] = v[(a + l) + k]
    BY DEF Alike
  <2>1. /\ l + k \in 1 .. l + r /\ a + (l + k) = (a + l) + k
        /\ k + 1 \in 1 .. 1 + r /\ a + (k + 1) = (a + 1) + k
    OBVIOUS
  <2>2. u[(a + 1) + k] = Owed(cs[k + 1])
    BY ONLY <2>1, <1>7
  <2>3. v[(a + l) + k] = Owed(bs[l + k])
    BY ONLY <2>1, <1>8
  <2> QED BY <2>2, <2>3, <1>5, <1>6
<1>11. u[a + 1] = Owed(Head(cs))
  <2>1. 1 \in 1 .. 1 + r
    OBVIOUS
  <2> QED BY <2>1, <1>5, <1>7
<1>12. Len(u) = (a + 1) + r /\ Len(v) = (a + l) + r /\ Len(u) \in Nat /\ Len(v) \in Nat
  BY <1>7, <1>8
<1>13. Alike(u, 0, v, 0, a)
  BY <1>7, <1>8 DEF Alike
<1>14. PICK f : OpenBrackets(u) = f[Len(u)] /\ TokenByToken(u, Len(u), f)
  BY <1>12, OpenIs
<1>15. PICK g : OpenBrackets(v) = g[Len(v)] /\ TokenByToken(v, Len(v), g)
  BY <1>12, OpenIs
<1>16. f[a] = g[a]
  <2>1. a <= Len(u) /\ a <= Len(v)
    BY <1>12
  <2> QED BY <2>1, <1>12, <1>13, <1>14, <1>15, AlikeBefore
<1>17. f[a + 1] = g[a + l]
  <2>1. a + 1 \in 1 .. Len(u) /\ (a + 1) - 1 = a /\ a + Len(b) <= Len(v)
    BY <1>2, <1>12
  <2>2. f[a + 1] = Meet(f[a], Owed(Head(cs)))
    BY <2>1, <1>14, <1>15, <1>16, <1>11 DEF TokenByToken
  <2>3. g[a + Len(b)] = Meet(g[a], Owed(Head(cs)))
    BY <2>1, <1>9, <1>12, <1>14, <1>15, <1>16, BodyMeets
  <2> QED BY <2>2, <2>3, <1>2, <1>14, <1>15, <1>16
<1>18. f[Len(u)] = g[Len(v)]
  <2>1. PICK p \in Nat : p = a + 1
    OBVIOUS
  <2>2. PICK q \in Nat : q = a + l
    OBVIOUS
  <2>3. /\ p \in 0 .. Len(u) /\ q \in 0 .. Len(v) /\ p + r <= Len(u) /\ q + r <= Len(v)
        /\ p + r = Len(u) /\ q + r = Len(v)
    BY <2>1, <2>2, <1>12
  <2>4. Alike(u, p, v, q, r) /\ f[p] = g[q]
    BY <2>1, <2>2, <1>10, <1>17
  <2>5. f[p + r] = g[q + r]
    BY <2>3, <2>4, <1>12, <1>14, <1>15, SameOpen
  <2> QED BY <2>3, <2>5
<1> QED BY <1>4, <1>6, <1>7, <1>8, <1>14, <1>15, <1>18

\* A token that is expected is what is owed, or neither is a bracket.
LEMMA AdvanceReplaces ==
    ASSUME NEW s \in Seq(TokenKind), NEW cs \in Seq(CallKind), cs # <<>>, NEW t \in TokenKind,
           Owed(Head(cs)) = t \/ (t \notin Bracketing /\ Owed(Head(cs)) \notin Bracketing)
    PROVE  OpenBrackets(Word(Append(s, t), Tail(cs))) = OpenBrackets(Word(s, cs))
<1>1. PICK a \in Nat : a = Len(s)
  OBVIOUS
<1>3. PICK r \in Nat : Len(cs) = 1 + r
  <2>1. Len(cs) - 1 \in Nat /\ Len(cs) = 1 + (Len(cs) - 1)
    BY TailIs
  <2> QED BY <2>1
<1>4. PICK e \in Seq(CallKind) : e = Tail(cs)
  BY TailIs
<1>5. /\ Len(e) = r /\ Head(cs) = cs[1]
      /\ \A k \in 1 .. r : e[k] = cs[k + 1]
  <2>1. Len(cs) - 1 = r
    BY <1>3
  <2> QED BY <2>1, <1>4, TailIs
<1>6. PICK z \in Seq(TokenKind) :
        /\ z = Append(s, t) /\ Len(z) = a + 1 /\ z[a + 1] = t
        /\ \A k \in 1 .. a : z[k] = s[k]
  <2>1. /\ Append(s, t) \in Seq(TokenKind) /\ Len(Append(s, t)) = Len(s) + 1
        /\ Append(s, t)[Len(s) + 1] = t
        /\ \A k \in 1 .. Len(s) : Append(s, t)[k] = s[k]
    OBVIOUS
  <2> QED BY ONLY <2>1, <1>1
<1>7. PICK u : /\ u = Word(s, cs) /\ Len(u) = a + (1 + r)
               /\ \A k \in 1 .. a : u[k] = s[k]
               /\ \A k \in 1 .. 1 + r : u[a + k] = Owed(cs[k])
  <2>1. /\ Len(Word(s, cs)) = Len(s) + Len(cs)
        /\ \A k \in 1 .. Len(s) : Word(s, cs)[k] = s[k]
        /\ \A k \in 1 .. Len(cs) : Word(s, cs)[Len(s) + k] = Owed(cs[k])
    BY WordIs
  <2> QED BY ONLY <2>1, <1>1, <1>3
<1>8. PICK v : /\ v = Word(z, e) /\ Len(v) = (a + 1) + r
               /\ \A k \in 1 .. a + 1 : v[k] = z[k]
               /\ \A k \in 1 .. r : v[(a + 1) + k] = Owed(e[k])
  <2>1. /\ Len(Word(z, e)) = Len(z) + Len(e)
        /\ \A k \in 1 .. Len(z) : Word(z, e)[k] = z[k]
        /\ \A k \in 1 .. Len(e) : Word(z, e)[Len(z) + k] = Owed(e[k])
    BY WordIs
  <2> QED BY <2>1, <1>5, <1>6
<1>10. Alike(u, a + 1, v, a + 1, r)
  <2> SUFFICES ASSUME NEW k \in 1 .. r PROVE u[(a + 1) + k] = v[(a + 1) + k]
    BY DEF Alike
  <2>1. k + 1 \in 1 .. 1 + r /\ a + (k + 1) = (a + 1) + k
    OBVIOUS
  <2>2. u[(a + 1) + k] = Owed(cs[k + 1])
    BY ONLY <2>1, <1>7
  <2>3. v[(a + 1) + k] = Owed(e[k])
    BY ONLY <1>8
  <2> QED BY <2>2, <2>3, <1>5
<1>11. u[a + 1] = Owed(Head(cs)) /\ v[a + 1] = t
  <2>1. 1 \in 1 .. 1 + r /\ a + 1 \in 1 .. a + 1
    OBVIOUS
  <2> QED BY <2>1, <1>5, <1>6, <1>7, <1>8
<1>12. Len(u) = (a + 1) + r /\ Len(v) = (a + 1) + r /\ Len(u) \in Nat /\ Len(v) \in Nat
  BY <1>7, <1>8
<1>13. Alike(u, 0, v, 0, a)
  <2> SUFFICES ASSUME NEW k \in 1 .. a PROVE u[0 + k] = v[0 + k]
    BY DEF Alike
  <2>1. k \in 1 .. a + 1 /\ 0 + k = k
    OBVIOUS
  <2> QED BY <2>1, <1>6, <1>7, <1>8
<1>14. PICK f : OpenBrackets(u) = f[Len(u)] /\ TokenByToken(u, Len(u), f)
  BY <1>12, OpenIs
<1>15. PICK g : OpenBrackets(v) = g[Len(v)] /\ TokenByToken(v, Len(v), g)
  BY <1>12, OpenIs
<1>16. f[a] = g[a]
  <2>1. a <= Len(u) /\ a <= Len(v)
    BY <1>12
  <2> QED BY <2>1, <1>12, <1>13, <1>14, <1>15, AlikeBefore
<1>17. f[a + 1] = g[a + 1]
  <2>1. a + 1 \in 1 .. Len(u) /\ a + 1 \in 1 .. Len(v) /\ (a + 1) - 1 = a
    BY <1>8, <1>12
  <2>2. f[a + 1] = Meet(f[a], Owed(Head(cs)))
    BY <2>1, <1>14, <1>15, <1>16, <1>11 DEF TokenByToken
  <2>3. g[a + 1] = Meet(g[a], t)
    BY <2>1, <1>14, <1>15, <1>16, <1>11 DEF TokenByToken
  <2>4. CASE Owed(Head(cs)) = t
    BY ONLY <2>2, <2>3, <2>4, <1>14, <1>15, <1>16
  <2>5. CASE t \notin Bracketing /\ Owed(Head(cs)) \notin Bracketing
    <3>1. Meet(f[a], Owed(Head(cs))) = f[a]
      BY <2>5 DEF Meet, Bracketing
    <3>2. Meet(g[a], t) = g[a]
      BY <2>5 DEF Meet, Bracketing
    <3> QED BY ONLY <2>2, <2>3, <3>1, <3>2, <1>14, <1>15, <1>16
  <2> QED BY <2>4, <2>5
<1>18. f[Len(u)] = g[Len(v)]
  <2>1. PICK p \in Nat : p = a + 1
    OBVIOUS
  <2>2. PICK q \in Nat : q = a + 1
    OBVIOUS
  <2>3. /\ p \in 0 .. Len(u) /\ q \in 0 .. Len(v) /\ p + r <= Len(u) /\ q + r <= Len(v)
        /\ p + r = Len(u) /\ q + r = Len(v)
    BY <2>1, <2>2, <1>12
  <2>4. Alike(u, p, v, q, r) /\ f[p] = g[q]
    BY <2>1, <2>2, <1>10, <1>17
  <2>5. f[p + r] = g[q + r]
    BY <2>3, <2>4, <1>12, <1>14, <1>15, SameOpen
  <2> QED BY <2>3, <2>5
<1> QED BY <1>4, <1>6, <1>7, <1>8, <1>14, <1>15, <1>18

-----------------------------------------------------------------------------
(***************************************************************************)
(* Brackets match.                                                         *)
(***************************************************************************)

LEMMA MarkedBodies ==
    /\ parse_package \in Seq(CallKind) /\ parse_resource \in Seq(CallKind)
    /\ \A t : resource_body(t) \in Seq(CallKind)
    /\ \A t : resource_items(t) # Error => resource_items(t) \in Seq(CallKind)
<1>0. Plain \subseteq CallKind /\ Marks \subseteq CallKind
  BY DEF Plain, Marks, CallKind, Assignment, Choosing, Peeking
<1>1. /\ "set_package" \in CallKind /\ "set_constructor" \in CallKind
      /\ "resource_body" \in CallKind /\ "resource_items" \in CallKind
  BY <1>0 DEF Marks
<1>2. /\ "keep" \in CallKind /\ "package" \in CallKind /\ "name" \in CallKind
      /\ "colon" \in CallKind /\ "package_version" \in CallKind
      /\ "semicolon" \in CallKind /\ "new_resource" \in CallKind /\ "resource" \in CallKind
      /\ "lbrace" \in CallKind /\ "rbrace" \in CallKind /\ "doc" \in CallKind
      /\ "parse_constructor_func" \in CallKind /\ "parse_func_item" \in CallKind
  BY <1>0, PlainHas
<1> HIDE DEF CallKind
<1>3. parse_package \in Seq(CallKind)
  BY <1>1, <1>2 DEF parse_package
<1>4. parse_resource \in Seq(CallKind)
  BY <1>1, <1>2 DEF parse_resource
<1>5. ASSUME NEW t PROVE resource_body(t) \in Seq(CallKind)
  BY <1>1, <1>2 DEF resource_body
<1>6. ASSUME NEW t, resource_items(t) # Error PROVE resource_items(t) \in Seq(CallKind)
  BY <1>1, <1>2, <1>6 DEF resource_items
<1> QED BY <1>3, <1>4, <1>5, <1>6

LEMMA BodyCalls ==
    /\ \A c \in DOMAIN Straight : Straight[c] \in Seq(CallKind)
    /\ \A c \in Choosing : \A t : Body(c, t) # Error => Body(c, t) \in Seq(CallKind)
<1>1. Seq(Plain) \subseteq Seq(CallKind)
  <2>1. Plain \subseteq CallKind
    BY DEF Plain
  <2> QED BY <2>1
<1>2. ASSUME NEW c \in DOMAIN Straight PROVE Straight[c] \in Seq(CallKind)
  <2>1. Straight["parse_package"] = parse_package /\ Straight["parse_resource"] = parse_resource
    BY DEF Straight
  <2>2. CASE c \in {"parse_package", "parse_resource"}
    BY <2>1, <2>2, MarkedBodies
  <2>3. CASE c \notin {"parse_package", "parse_resource"}
    BY <2>3, <1>1, PlainBodies
  <2> QED BY <2>2, <2>3
<1>3. ASSUME NEW c \in Choosing, NEW t, Body(c, t) # Error
      PROVE  Body(c, t) \in Seq(CallKind)
  <2>1. CASE c \in {"resource_body", "resource_items"}
    BY <1>3, <2>1, PeekingBodies, MarkedBodies
  <2>2. CASE c \notin {"resource_body", "resource_items"}
    BY <1>3, <2>2, <1>1, PlainBodies
  <2> QED BY <2>1, <2>2
<1> QED BY <1>2, <1>3

\* What is expected is a token or a name.
LEMMA ExpectedIs ==
    ASSUME NEW t \in Token, Expecting, Expected(t), Top \in CallKind
    PROVE  /\ t \in TokenKind
           /\ (Top = "name" /\ t \in Ident) \/ (Top # "name" /\ t = Top /\ t # "ident")
  BY TokensAssumption DEF Expecting, Expected, CallKind

LEMMA TypeInit == ParserInit => ParserTypeOK
<1> SUFFICES ASSUME ParserInit PROVE ParserTypeOK
  OBVIOUS
<1>1. "parse_document" \in CallKind
  BY DEF CallKind, Choosing, Peeking
<1>2. <<"parse_document">> \in Seq(CallKind)
  BY <1>1
<1> QED BY <1>2 DEF ParserInit, ParserTypeOK

LEMMA TypeStep ==
    ASSUME ParserTypeOK, [ParserNext]_parserVars
    PROVE  ParserTypeOK'
<1>1. CASE Enter
  <2>1. calls' \in Seq(CallKind)
    BY <1>1, BodyCalls DEF Enter, Running, Top, ParserTypeOK
  <2> QED BY <1>1, <2>1 DEF Enter, ParserTypeOK
<1>2. CASE Deliver
  <2>1. calls' \in Seq(CallKind)
    BY <1>2 DEF Deliver, Running, ParserTypeOK
  <2>2. document' \in [names : SUBSET (1 .. Len(source)), package : SUBSET (1 .. Len(source)),
                       constructor : SUBSET (1 .. Len(source)), local : SUBSET (1 .. Len(source))]
    BY <1>2 DEF Deliver, Assigned, Assignment, ParserTypeOK
  <2> QED BY <1>2, <2>1, <2>2 DEF Deliver, ParserTypeOK
<1>3. CASE Finish
  BY <1>3 DEF Finish, ParserTypeOK
<1>4. ASSUME NEW t \in Token, Choose(t) PROVE ParserTypeOK'
  <2>1. Body(Top, t) \in Seq(CallKind)
    BY <1>4, BodyCalls DEF Choose
  <2>2. calls' \in Seq(CallKind)
    BY <1>4, <2>1 DEF Choose, Running, ParserTypeOK
  <2> QED BY <1>4, <2>2, TokensAssumption DEF Choose, ParserTypeOK
<1>5. ASSUME NEW t \in Token, Advance(t) PROVE ParserTypeOK'
  <2>1. t \in TokenKind
    BY TokensAssumption
  <2>2. /\ calls' \in Seq(CallKind) /\ source' \in Seq(TokenKind)
        /\ Len(source') = Len(source) + 1 /\ Len(source) \in Nat
    BY <1>5, <2>1 DEF Advance, Running, ParserTypeOK
  <2>3. 1 .. Len(source) \subseteq 1 .. Len(source') /\ Len(source') \in 1 .. Len(source')
    BY <2>2
  <2>4. document' \in [names : SUBSET (1 .. Len(source')), package : SUBSET (1 .. Len(source')),
                       constructor : SUBSET (1 .. Len(source')),
                       local : SUBSET (1 .. Len(source'))]
    BY <1>5, <2>3 DEF Advance, ParserTypeOK
  <2> QED BY <1>5, <2>2, <2>4 DEF Advance, ParserTypeOK
<1>6. ASSUME NEW t \in Token, Fail(t) PROVE ParserTypeOK'
  BY <1>6 DEF Fail, ParserTypeOK
<1>7. CASE UNCHANGED parserVars
  BY <1>7 DEF parserVars, ParserTypeOK
<1> QED BY <1>1, <1>2, <1>3, <1>4, <1>5, <1>6, <1>7 DEF ParserNext

Owing == status # "failed" => OpenBrackets(Word(source, calls)) = <<>>

LEMMA OwingIs == Owing <=> BracketsMatch
  BY DEF Owing, BracketsMatch, Word

LEMMA OwingInit == ParserInit => Owing
<1> SUFFICES ASSUME ParserInit PROVE Owing
  OBVIOUS
<1>1. calls \in Seq(CallKind) /\ source \in Seq(TokenKind)
  BY TypeInit DEF ParserTypeOK
<1>2. Len(source) = 0 /\ Len(calls) = 1 /\ calls[1] = "parse_document"
  BY DEF ParserInit
<1>3. Owed("parse_document") \notin Bracketing
  BY NeutralHas DEF Neutral
<1>4. /\ Len(Word(source, calls)) = Len(source) + Len(calls)
      /\ \A k \in 1 .. Len(calls) : Word(source, calls)[Len(source) + k] = Owed(calls[k])
  BY <1>1, WordIs
<1> DEFINE w == Word(source, calls)
<1>5. Len(w) = 1 /\ Len(w) \in Nat /\ w[1] \notin Bracketing
  BY <1>2, <1>3, <1>4
<1> HIDE DEF w
<1>6. PICK f : OpenBrackets(w) = f[Len(w)] /\ TokenByToken(w, Len(w), f)
  BY <1>5, OpenIs
<1>7. f[0] = <<>> /\ f[1] = Meet(f[0], w[1])
  BY <1>5, <1>6 DEF TokenByToken
<1>8. OpenBrackets(w) = <<>>
  BY <1>5, <1>6, <1>7 DEF Meet, Bracketing
<1> QED BY <1>8 DEF Owing, w

LEMMA OwingStep ==
    ASSUME ParserTypeOK, Owing, [ParserNext]_parserVars
    PROVE  Owing'
<1>0. source \in Seq(TokenKind) /\ calls \in Seq(CallKind)
  BY DEF ParserTypeOK
<1>1. CASE Enter
  <2>1. Top \in DOMAIN Straight /\ Top = Head(calls) /\ calls # <<>> /\ status # "failed"
    BY <1>1 DEF Enter, Running, Top
  <2>2. Owed(Top) \notin Bracketing
    <3>1. Top \notin Blocks /\ Top \notin Bracketing
      BY <2>1, StraightAre, BlocksAre, Brackets
    <3> QED BY <3>1, BlocksOwe
  <2>3. Acts(Top, Straight[Top])
    BY <2>1, <2>2, StraightBrackets DEF Acts
  <2>4. OpenBrackets(Word(source, Straight[Top] \o Tail(calls)))
            = OpenBrackets(Word(source, calls))
    BY <1>0, <2>1, <2>3, BodyCalls, BodyReplaces
  <2> QED BY <1>1, <2>1, <2>4 DEF Enter, Owing
<1>2. CASE Deliver
  <2>1. Top \in Assignment /\ Top = Head(calls) /\ calls # <<>> /\ status # "failed"
    BY <1>2 DEF Deliver, Running, Top
  <2>2. Owed(Top) \notin Bracketing
    <3>1. Top \notin Blocks /\ Top \notin Bracketing
      BY <2>1, BlocksAre, Brackets DEF Assignment
    <3> QED BY <3>1, BlocksOwe
  <2>3. Acts(Top, <<>>) /\ <<>> \in Seq(CallKind)
    BY <2>2 DEF Acts
  <2>4. OpenBrackets(Word(source, <<>> \o Tail(calls))) = OpenBrackets(Word(source, calls))
    BY <1>0, <2>1, <2>3, BodyReplaces
  <2>5. <<>> \o Tail(calls) = Tail(calls)
    BY <1>0, <2>1
  <2> QED BY <1>2, <2>1, <2>4, <2>5 DEF Deliver, Owing
<1>3. CASE Finish
  BY <1>3 DEF Finish, Owing
<1>4. ASSUME NEW t \in Token, Choose(t) PROVE Owing'
  <2>1. /\ Top \in Choosing /\ Top = Head(calls) /\ calls # <<>> /\ status # "failed"
        /\ Body(Top, t) # Error
    BY <1>4 DEF Choose, Running, Top
  <2>2. Acts(Top, Body(Top, t))
    <3>1. Top \notin Blocks => Owed(Top) \notin Bracketing
      <4>1. Choosing \intersect Bracketing = {}
        BY Lists, Brackets DEF Choosing, Peeking
      <4> QED BY <2>1, <4>1, BlocksOwe
    <3> QED BY <2>1, <3>1, ChoosingBrackets DEF Acts
  <2>3. OpenBrackets(Word(source, Body(Top, t) \o Tail(calls)))
            = OpenBrackets(Word(source, calls))
    BY <1>0, <2>1, <2>2, BodyCalls, BodyReplaces
  <2> QED BY <1>4, <2>1, <2>3 DEF Choose, Owing
<1>5. ASSUME NEW t \in Token, Advance(t) PROVE Owing'
  <2>1. /\ Top = Head(calls) /\ calls # <<>> /\ status # "failed"
        /\ Expecting /\ Expected(t)
    BY <1>5 DEF Advance, Running, Top
  <2>2. Top \in CallKind
    BY <1>0, <2>1
  <2>3. /\ t \in TokenKind
        /\ (Top = "name" /\ t \in Ident) \/ (Top # "name" /\ t = Top /\ t # "ident")
    BY <2>1, <2>2, ExpectedIs
  <2>4. Top \notin Blocks
    <3>1. Blocks \subseteq Choosing
      BY DEF Blocks, Choosing, Peeking
    <3> QED BY <2>1, <3>1 DEF Expecting
  <2>5. Owed(Top) = t \/ (t \notin Bracketing /\ Owed(Top) \notin Bracketing)
    BY <2>3, <2>4, BlocksOwe, Brackets DEF Ident
  <2>6. OpenBrackets(Word(Append(source, t), Tail(calls))) = OpenBrackets(Word(source, calls))
    BY <1>0, <2>1, <2>3, <2>5, AdvanceReplaces
  <2> QED BY <1>5, <2>1, <2>6 DEF Advance, Owing
<1>6. ASSUME NEW t \in Token, Fail(t) PROVE Owing'
  BY <1>6 DEF Fail, Owing
<1>7. CASE UNCHANGED parserVars
  BY <1>7 DEF parserVars, Owing
<1> QED BY <1>1, <1>2, <1>3, <1>4, <1>5, <1>6, <1>7 DEF ParserNext

\* Brackets nest, and no closing bracket ends a block but the innermost,
\* for every input: what parse_type_ref, the list parsers and the item loops owe
\* closes what was opened, in order.
THEOREM BracketsMatchAlways == ParserSpec => []BracketsMatch
<1>1. ParserInit => ParserTypeOK /\ Owing
  BY TypeInit, OwingInit
<1>2. ParserTypeOK /\ Owing /\ [ParserNext]_parserVars => (ParserTypeOK /\ Owing)'
  BY TypeStep, OwingStep
<1>3. ParserTypeOK /\ Owing => BracketsMatch
  BY OwingIs
<1> QED BY <1>1, <1>2, <1>3, PTL DEF ParserSpec

-----------------------------------------------------------------------------
(***************************************************************************)
(* The parser's invariant: where on the stack the calls are that deliver   *)
(* names, and what is in the input before them.                            *)
(***************************************************************************)

Begins(cs, s) == Len(s) <= Len(cs) /\ \A m \in 1 .. Len(s) : cs[m] = s[m]

Clear(i, n) == "semicolon" \notin Between(i, n) /\ "rbrace" \notin Between(i, n)

\* The declaration at i came after the names in old, and has those in local.
Since(word, old, i) ==
    /\ source[i] = word
    /\ \A n \in old : n < i
    /\ \A n \in document.local : i < n /\ Clear(i, n)

\* Up to the call at k the declaration at i is not over.
Declaring(k, i) ==
    k # 1 => /\ calls[k - 1] = "semicolon"
             /\ Clear(i, Len(source) + 1)
             /\ \A m \in 1 .. k - 2 : calls[m] \in Quiet

PackageNames ==
    \A n \in document.package : \E i \in 1 .. n - 1 : source[i] = "package" /\ Clear(i, n)

\* What is left of parse_package once it has kept the names before it, and of
\* parse_resource once the constructor of the resource before is kept.
package_rest == <<"package", "name", "colon", "name", "package_version",
                  "semicolon", "set_package">>
resource_rest == <<"resource", "name", "resource_body">>

PackageAt(k) ==
    \/ k = 8 /\ Begins(calls, parse_package)
    \/ k = 7 /\ Begins(calls, package_rest) /\ document.local = {}
    \/ \E i \in 1 .. Len(source) : Since("package", document.package, i) /\ Declaring(k, i)

\* The resource that was opened after r is not closed, and has the constructor.
InResource(r) ==
    /\ r + 2 <= Len(source)
    /\ source[r] = "resource" /\ source[r + 2] = "lbrace"
    /\ "rbrace" \notin Between(r, Len(source) + 1)
    /\ \A n \in document.constructor :
          \E i \in r + 3 .. n - 1 : source[i] = "constructor" /\ Clear(i, n)

ConstructorAt(k) ==
    /\ k + 1 <= Len(calls) /\ calls[k + 1] = "resource_items"
    /\ \/ k = 3 /\ calls[1] = "keep" /\ calls[2] = "parse_constructor_func"
       \/ k = 2 /\ calls[1] = "parse_constructor_func" /\ document.local = {}
       \/ k = 6 /\ Begins(calls, parse_constructor_func) /\ document.local = {}
       \/ \E r, i \in 1 .. Len(source) :
              /\ InResource(r) /\ r + 3 <= i
              /\ Since("constructor", document.constructor, i) /\ Declaring(k, i)

\* A resource without a constructor is about to open.
Opens(k) ==
    /\ document.constructor = {}
    /\ k <= Len(source)
    /\ source[Len(source) - k + 1] = "resource"
    /\ k = 2 => source[Len(source)] # "rbrace"

BodyAt(k) ==
    \/ k = 4 /\ Begins(calls, parse_resource)
    \/ k = 3 /\ Begins(calls, resource_rest) /\ document.constructor = {}
    \/ k = 2 /\ calls[1] = "name" /\ Opens(1)
    \/ k = 1 /\ Opens(2)

ItemsAt(k) ==
    \/ k = 2 /\ calls[1] = "lbrace" /\ Opens(2)
    \/ /\ \A m \in 1 .. k - 1 : calls[m] \in ResourceInner
       /\ \E r \in 1 .. Len(source) : InResource(r)

\* Each mark on the stack is where one of these allows.
MarkAt(k) ==
    /\ calls[k] = "set_package" => PackageAt(k)
    /\ calls[k] = "set_constructor" => ConstructorAt(k)
    /\ calls[k] = "resource_body" => BodyAt(k)
    /\ calls[k] = "resource_items" => ItemsAt(k)

MarksInv == \A k \in 1 .. Len(calls) : MarkAt(k)

ParserInv == ParserTypeOK /\ PackageNames /\ MarksInv

-----------------------------------------------------------------------------
(***************************************************************************)
(* Where the marks are, when a call is replaced by its body.               *)
(***************************************************************************)

\* The calls after a body are the ones that were after its call.
LEMMA ReplacedCalls ==
    ASSUME calls \in Seq(CallKind), calls # <<>>, NEW b \in Seq(CallKind),
           calls' = b \o Tail(calls)
    PROVE  /\ Len(b) \in Nat /\ Len(calls) \in Nat /\ Len(calls') = (Len(b) + Len(calls)) - 1
           /\ \A k \in 1 .. Len(b) : calls'[k] = b[k] /\ k \in 1 .. Len(calls')
           /\ \A k \in 2 .. Len(calls) : calls'[(Len(b) + k) - 1] = calls[k]
<1>1. /\ Len(calls) \in Nat \ {0} /\ Tail(calls) \in Seq(CallKind)
      /\ Len(Tail(calls)) = Len(calls) - 1
      /\ \A k \in 1 .. Len(calls) - 1 : Tail(calls)[k] = calls[k + 1]
  BY TailIs
<1>2. /\ Len(b) \in Nat /\ Len(calls') = Len(b) + Len(Tail(calls))
      /\ \A k \in 1 .. Len(b) : calls'[k] = b[k]
      /\ \A k \in 1 .. Len(Tail(calls)) : calls'[Len(b) + k] = Tail(calls)[k]
  BY <1>1, ConcatIs
<1>3. ASSUME NEW k \in 2 .. Len(calls) PROVE calls'[(Len(b) + k) - 1] = calls[k]
  <2>1. /\ k - 1 \in 1 .. Len(calls) - 1 /\ (k - 1) + 1 = k
        /\ Len(b) + (k - 1) = (Len(b) + k) - 1
    BY <1>1, <1>2
  <2>2. calls'[Len(b) + (k - 1)] = Tail(calls)[k - 1] /\ Tail(calls)[k - 1] = calls[k]
    BY <2>1, <1>1, <1>2
  <2> QED BY <2>1, <2>2
<1> QED BY <1>1, <1>2, <1>3

\* What a body may be, for the marks after it to stay where they may be.
Suits(c, b) ==
    /\ c \in DOMAIN Straight \union Choosing
    /\ c \in Quiet => b \in Seq(Quiet)
    /\ c \in ResourceInner => b \in Seq(ResourceInner)
    /\ c = "parse_constructor_func" => b = parse_constructor_func

LEMMA NotCalls ==
    ASSUME NEW c \in DOMAIN Straight \union Choosing
    PROVE  /\ c \notin Assignment /\ c \notin {"package", "resource", "constructor", "lbrace",
                                               "semicolon", "name", "rbrace"}
  BY StraightAre, Lists DEF Choosing, Peeking, Assignment

LEMMA BodySuits ==
    /\ \A c \in DOMAIN Straight : Suits(c, Straight[c])
    /\ \A c \in Choosing : \A t : Body(c, t) # Error => Suits(c, Body(c, t))
<1>1. ASSUME NEW c \in DOMAIN Straight PROVE Suits(c, Straight[c])
  <2>1. Straight["parse_constructor_func"] = parse_constructor_func
    BY DEF Straight
  <2> QED BY <2>1, QuietKinds, InnerBodies DEF Suits
<1>2. ASSUME NEW c \in Choosing, NEW t, Body(c, t) # Error PROVE Suits(c, Body(c, t))
  <2>1. c # "parse_constructor_func"
    BY Lists DEF Choosing, Peeking
  <2> QED BY <1>2, <2>1, QuietBodies, InnerBodies DEF Suits
<1> QED BY <1>1, <1>2

LEMMA ConstructorIs ==
    /\ parse_constructor_func \in Seq(CallKind) /\ Len(parse_constructor_func) = 5
    /\ parse_constructor_func[1] = "constructor" /\ parse_constructor_func[2] = "lparen"
    /\ parse_constructor_func[3] = "parse_param_list"
    /\ parse_constructor_func[4] = "rparen" /\ parse_constructor_func[5] = "semicolon"
<1>1. /\ Len(parse_constructor_func) = 5
      /\ parse_constructor_func[1] = "constructor" /\ parse_constructor_func[2] = "lparen"
      /\ parse_constructor_func[3] = "parse_param_list"
      /\ parse_constructor_func[4] = "rparen" /\ parse_constructor_func[5] = "semicolon"
  BY DEF parse_constructor_func
<1>2. parse_constructor_func \in Seq(CallKind)
  <2>1. Straight["parse_constructor_func"] = parse_constructor_func
    BY DEF Straight
  <2> QED BY <2>1, BodyCalls, StraightAre
<1> QED BY <1>1, <1>2

LEMMA PackageIs ==
    /\ parse_package \in Seq(CallKind) /\ Len(parse_package) = 8
    /\ parse_package[1] = "keep" /\ parse_package[2] = "package"
    /\ parse_package[3] = "name" /\ parse_package[4] = "colon" /\ parse_package[5] = "name"
    /\ parse_package[6] = "package_version" /\ parse_package[7] = "semicolon"
    /\ parse_package[8] = "set_package"
<1>1. /\ Len(parse_package) = 8
      /\ parse_package[1] = "keep" /\ parse_package[2] = "package"
      /\ parse_package[3] = "name" /\ parse_package[4] = "colon" /\ parse_package[5] = "name"
      /\ parse_package[6] = "package_version" /\ parse_package[7] = "semicolon"
      /\ parse_package[8] = "set_package"
  BY DEF parse_package
<1>2. parse_package \in Seq(CallKind)
  BY MarkedBodies
<1> QED BY ONLY <1>1, <1>2

LEMMA ResourceIs ==
    /\ parse_resource \in Seq(CallKind) /\ Len(parse_resource) = 4
    /\ parse_resource[1] = "new_resource" /\ parse_resource[2] = "resource"
    /\ parse_resource[3] = "name" /\ parse_resource[4] = "resource_body"
<1>1. /\ Len(parse_resource) = 4
      /\ parse_resource[1] = "new_resource" /\ parse_resource[2] = "resource"
      /\ parse_resource[3] = "name" /\ parse_resource[4] = "resource_body"
  BY DEF parse_resource
<1>2. parse_resource \in Seq(CallKind)
  BY MarkedBodies
<1> QED BY ONLY <1>1, <1>2

\* What it is to begin with a body.
LEMMA BeginsAre ==
    ASSUME NEW cs
    PROVE  /\ Begins(cs, parse_package) <=>
                 /\ 8 <= Len(cs) /\ cs[1] = "keep" /\ cs[2] = "package"
                 /\ cs[3] = "name" /\ cs[4] = "colon" /\ cs[5] = "name"
                 /\ cs[6] = "package_version" /\ cs[7] = "semicolon"
                 /\ cs[8] = "set_package"
           /\ Begins(cs, package_rest) <=>
                 /\ 7 <= Len(cs) /\ cs[1] = "package" /\ cs[2] = "name"
                 /\ cs[3] = "colon" /\ cs[4] = "name" /\ cs[5] = "package_version"
                 /\ cs[6] = "semicolon" /\ cs[7] = "set_package"
           /\ Begins(cs, parse_constructor_func) <=>
                 /\ 5 <= Len(cs) /\ cs[1] = "constructor" /\ cs[2] = "lparen"
                 /\ cs[3] = "parse_param_list" /\ cs[4] = "rparen"
                 /\ cs[5] = "semicolon"
           /\ Begins(cs, parse_resource) <=>
                 /\ 4 <= Len(cs) /\ cs[1] = "new_resource" /\ cs[2] = "resource"
                 /\ cs[3] = "name" /\ cs[4] = "resource_body"
           /\ Begins(cs, resource_rest) <=>
                 /\ 3 <= Len(cs) /\ cs[1] = "resource" /\ cs[2] = "name"
                 /\ cs[3] = "resource_body"
<1>1. Begins(cs, parse_package) <=>
         /\ 8 <= Len(cs) /\ cs[1] = "keep" /\ cs[2] = "package" /\ cs[3] = "name"
         /\ cs[4] = "colon" /\ cs[5] = "name" /\ cs[6] = "package_version"
         /\ cs[7] = "semicolon" /\ cs[8] = "set_package"
  <2>1. /\ Len(parse_package) = 8
        /\ parse_package[1] = "keep"
        /\ parse_package[2] = "package"
        /\ parse_package[3] = "name"
        /\ parse_package[4] = "colon"
        /\ parse_package[5] = "name"
        /\ parse_package[6] = "package_version"
        /\ parse_package[7] = "semicolon"
        /\ parse_package[8] = "set_package"
    BY PackageIs
  <2>2. \A m : m \in 1 .. 8 <=> m \in {1, 2, 3, 4, 5, 6, 7, 8}
    OBVIOUS
  <2> QED BY ONLY <2>1, <2>2 DEF Begins
<1>2. Begins(cs, package_rest) <=>
         /\ 7 <= Len(cs) /\ cs[1] = "package" /\ cs[2] = "name" /\ cs[3] = "colon"
         /\ cs[4] = "name" /\ cs[5] = "package_version" /\ cs[6] = "semicolon"
         /\ cs[7] = "set_package"
  <2>1. /\ Len(package_rest) = 7
        /\ package_rest[1] = "package"
        /\ package_rest[2] = "name"
        /\ package_rest[3] = "colon"
        /\ package_rest[4] = "name"
        /\ package_rest[5] = "package_version"
        /\ package_rest[6] = "semicolon"
        /\ package_rest[7] = "set_package"
    BY DEF package_rest
  <2>2. \A m : m \in 1 .. 7 <=> m \in {1, 2, 3, 4, 5, 6, 7}
    OBVIOUS
  <2> QED BY ONLY <2>1, <2>2 DEF Begins
<1>3. Begins(cs, parse_constructor_func) <=>
         /\ 5 <= Len(cs) /\ cs[1] = "constructor" /\ cs[2] = "lparen"
         /\ cs[3] = "parse_param_list" /\ cs[4] = "rparen" /\ cs[5] = "semicolon"
  <2>1. /\ Len(parse_constructor_func) = 5
        /\ parse_constructor_func[1] = "constructor"
        /\ parse_constructor_func[2] = "lparen"
        /\ parse_constructor_func[3] = "parse_param_list"
        /\ parse_constructor_func[4] = "rparen"
        /\ parse_constructor_func[5] = "semicolon"
    BY ConstructorIs
  <2>2. \A m : m \in 1 .. 5 <=> m \in {1, 2, 3, 4, 5}
    OBVIOUS
  <2> QED BY ONLY <2>1, <2>2 DEF Begins
<1>4. Begins(cs, parse_resource) <=>
         /\ 4 <= Len(cs) /\ cs[1] = "new_resource" /\ cs[2] = "resource"
         /\ cs[3] = "name" /\ cs[4] = "resource_body"
  <2>1. /\ Len(parse_resource) = 4
        /\ parse_resource[1] = "new_resource"
        /\ parse_resource[2] = "resource"
        /\ parse_resource[3] = "name"
        /\ parse_resource[4] = "resource_body"
    BY ResourceIs
  <2>2. \A m : m \in 1 .. 4 <=> m \in {1, 2, 3, 4}
    OBVIOUS
  <2> QED BY ONLY <2>1, <2>2 DEF Begins
<1>5. Begins(cs, resource_rest) <=>
         /\ 3 <= Len(cs) /\ cs[1] = "resource" /\ cs[2] = "name"
         /\ cs[3] = "resource_body"
  <2>1. /\ Len(resource_rest) = 3
        /\ resource_rest[1] = "resource"
        /\ resource_rest[2] = "name"
        /\ resource_rest[3] = "resource_body"
    BY DEF resource_rest
  <2>2. \A m : m \in 1 .. 3 <=> m \in {1, 2, 3}
    OBVIOUS
  <2> QED BY ONLY <2>1, <2>2 DEF Begins
<1> QED BY <1>1, <1>2, <1>3, <1>4, <1>5

\* A declaration goes on while the calls before its end are replaced.
LEMMA DeclaringReplaced ==
    ASSUME calls \in Seq(CallKind), calls # <<>>, NEW b \in Seq(CallKind),
           calls' = b \o Tail(calls), UNCHANGED source, Suits(calls[1], b),
           NEW k \in 2 .. Len(calls), NEW i, Declaring(k, i)
    PROVE  Declaring((Len(b) + k) - 1, i)'
<1>1. PICK l \in Nat : l = Len(b)
  BY ReplacedCalls
<1>2. PICK j \in Nat : j = (l + k) - 1
  <2>1. (l + k) - 1 \in Nat
    OBVIOUS
  <2> QED BY <2>1
<1>3. /\ calls[k - 1] = "semicolon" /\ Clear(i, Len(source) + 1)
      /\ \A m \in 1 .. k - 2 : calls[m] \in Quiet
  BY DEF Declaring
<1>4. k # 2
  BY <1>3, NotCalls DEF Suits
<1>5. k - 1 \in 2 .. Len(calls) /\ 1 \in 1 .. k - 2
  BY <1>4, ReplacedCalls
<1>6. calls'[j - 1] = "semicolon"
  <2>1. (Len(b) + (k - 1)) - 1 = j - 1
    BY <1>1, <1>2
  <2>2. calls'[(Len(b) + (k - 1)) - 1] = calls[k - 1]
    BY <1>5, ReplacedCalls
  <2> QED BY <2>1, <2>2, <1>3
<1>7. b \in Seq(Quiet)
  BY <1>3, <1>5 DEF Suits
<1>8. ASSUME NEW m \in 1 .. j - 2 PROVE calls'[m] \in Quiet
  <2>1. CASE m <= l
    <3>1. m \in 1 .. Len(b)
      BY <2>1, <1>1
    <3>2. calls'[m] = b[m] /\ b[m] \in Quiet
      BY <3>1, <1>7, ReplacedCalls
    <3> QED BY <3>2
  <2>2. CASE m > l
    <3>1. PICK n \in Nat : n = (m - l) + 1
      <4>1. (m - l) + 1 \in Nat
        BY <2>2
      <4> QED BY <4>1
    <3>2. n \in 2 .. Len(calls) /\ n \in 1 .. k - 2 /\ (Len(b) + n) - 1 = m
      BY <1>1, <1>2, <2>2, <3>1, ReplacedCalls
    <3>3. calls'[(Len(b) + n) - 1] = calls[n]
      BY <3>2, ReplacedCalls
    <3> QED BY <3>2, <3>3, <1>3
  <2>3. m <= l \/ m > l
    BY <1>1, <1>2
  <2> QED BY ONLY <2>1, <2>2, <2>3
<1>9. Clear(i, Len(source) + 1)'
  BY <1>3 DEF Clear, Between
<1>10. Declaring(j, i)'
  BY <1>6, <1>8, <1>9 DEF Declaring
<1> QED BY <1>1, <1>2, <1>10

\* The calls that come after a body are marks that may be where they are.
LEMMA MarksReplaced ==
    ASSUME calls \in Seq(CallKind), calls # <<>>, NEW b \in Seq(CallKind),
           calls' = b \o Tail(calls), UNCHANGED <<source, document>>, Suits(calls[1], b),
           NEW k \in 2 .. Len(calls), MarkAt(k)
    PROVE  MarkAt((Len(b) + k) - 1)'
<1>1. PICK l \in Nat : l = Len(b)
  BY ReplacedCalls
<1>2. PICK j \in Nat : j = (l + k) - 1
  <2>1. (l + k) - 1 \in Nat
    OBVIOUS
  <2> QED BY <2>1
<1>3. calls'[j] = calls[k]
  BY <1>1, <1>2, ReplacedCalls
<1>4. /\ calls[1] \notin Assignment
      /\ calls[1] \notin {"package", "resource", "constructor", "lbrace", "semicolon", "name",
                          "rbrace"}
  BY NotCalls DEF Suits
<1>5. ASSUME NEW i, Declaring(k, i) PROVE Declaring(j, i)'
  <2>1. Declaring((Len(b) + k) - 1, i)'
    BY <1>5, DeclaringReplaced
  <2> QED BY <2>1, <1>1, <1>2
<1>8. ASSUME calls[k] = "set_package" PROVE PackageAt(j)'
  <2>1. PackageAt(k)
    BY <1>8 DEF MarkAt
  <2>2. ~ (k = 8 /\ Begins(calls, parse_package))
    BY <1>4, BeginsAre DEF Assignment
  <2>3. ~ (k = 7 /\ Begins(calls, package_rest))
    BY <1>4, BeginsAre
  <2>4. PICK i \in 1 .. Len(source) : Since("package", document.package, i) /\ Declaring(k, i)
    BY <2>1, <2>2, <2>3 DEF PackageAt
  <2>5. Declaring(j, i)'
    BY <2>4, <1>5
  <2>6. Since("package", document.package, i)' /\ i \in 1 .. Len(source')
    BY <2>4 DEF Since, Clear, Between
  <2> QED BY <2>5, <2>6 DEF PackageAt
<1>9. ASSUME calls[k] = "set_constructor" PROVE ConstructorAt(j)'
  <2>1. ConstructorAt(k)
    BY <1>9 DEF MarkAt
  <2>2. k + 1 <= Len(calls) /\ calls[k + 1] = "resource_items"
    BY <2>1 DEF ConstructorAt
  <2>3. j + 1 <= Len(calls') /\ calls'[j + 1] = "resource_items"
    <3>1. k + 1 \in 2 .. Len(calls) /\ (Len(b) + (k + 1)) - 1 = j + 1
      BY <1>1, <1>2, <2>2, ReplacedCalls
    <3>2. calls'[(Len(b) + (k + 1)) - 1] = calls[k + 1]
      BY <3>1, ReplacedCalls
    <3>3. j + 1 <= Len(calls')
      BY <1>1, <1>2, <2>2, ReplacedCalls
    <3> QED BY <3>1, <3>2, <3>3, <2>2
  <2>4. ~ (k = 3 /\ calls[1] = "keep" /\ calls[2] = "parse_constructor_func")
    BY <1>4 DEF Assignment
  <2>5. ~ (k = 6 /\ Begins(calls, parse_constructor_func) /\ document.local = {})
    BY <1>4, BeginsAre
  <2>6. CASE k = 2 /\ calls[1] = "parse_constructor_func" /\ document.local = {}
    <3>1. b = parse_constructor_func /\ Len(b) = 5
      BY <2>6, ConstructorIs DEF Suits
    <3>4. j = 6
      BY <2>6, <3>1, <1>1, <1>2
    <3>2. \A m \in 1 .. Len(b) : calls'[m] = b[m]
      BY ReplacedCalls
    <3>5. Len(b) <= Len(calls')
      BY <3>1, <3>4, <2>3, ReplacedCalls
    <3>3. Begins(calls', parse_constructor_func)
      BY ONLY <3>1, <3>2, <3>5 DEF Begins
    <3> QED BY <3>3, <3>4, <2>3, <2>6 DEF ConstructorAt
  <2>7. CASE \E r, i \in 1 .. Len(source) :
                /\ InResource(r) /\ r + 3 <= i
                /\ Since("constructor", document.constructor, i) /\ Declaring(k, i)
    <3>1. PICK r \in 1 .. Len(source), i \in 1 .. Len(source) :
                /\ InResource(r) /\ r + 3 <= i
                /\ Since("constructor", document.constructor, i) /\ Declaring(k, i)
      BY <2>7
    <3>2. Declaring(j, i)'
      BY <3>1, <1>5
    <3>3. Since("constructor", document.constructor, i)'
      BY <3>1 DEF Since, Clear, Between
    <3>4. InResource(r)' /\ r \in 1 .. Len(source') /\ i \in 1 .. Len(source')
      BY <3>1 DEF InResource, Clear, Between
    <3> QED BY <3>1, <3>2, <3>3, <3>4, <2>3 DEF ConstructorAt
  <2> QED BY <2>1, <2>4, <2>5, <2>6, <2>7 DEF ConstructorAt
<1>10. calls[k] # "resource_body"
  <2> SUFFICES ASSUME BodyAt(k) PROVE FALSE
    BY DEF MarkAt
  <2>1. ~ (k = 4 /\ Begins(calls, parse_resource))
    BY <1>4, BeginsAre DEF Assignment
  <2>2. ~ (k = 3 /\ Begins(calls, resource_rest))
    BY <1>4, BeginsAre
  <2> QED BY <2>1, <2>2, <1>4 DEF BodyAt
<1>11. ASSUME calls[k] = "resource_items" PROVE ItemsAt(j)'
  <2>1. /\ \A m \in 1 .. k - 1 : calls[m] \in ResourceInner
        /\ \E r \in 1 .. Len(source) : InResource(r)
    BY <1>4, <1>11 DEF MarkAt, ItemsAt
  <2>2. b \in Seq(ResourceInner)
    <3>1. 1 \in 1 .. k - 1
      OBVIOUS
    <3> QED BY <3>1, <2>1 DEF Suits
  <2>3. ASSUME NEW m \in 1 .. j - 1 PROVE calls'[m] \in ResourceInner
    <3>1. CASE m <= l
      <4>1. m \in 1 .. Len(b)
        BY <3>1, <1>1
      <4>2. calls'[m] = b[m] /\ b[m] \in ResourceInner
        BY <4>1, <2>2, ReplacedCalls
      <4> QED BY <4>2
    <3>2. CASE m > l
      <4>1. PICK n \in Nat : n = (m - l) + 1
        <5>1. (m - l) + 1 \in Nat
          BY <3>2
        <5> QED BY <5>1
      <4>2. n \in 2 .. Len(calls) /\ n \in 1 .. k - 1 /\ (Len(b) + n) - 1 = m
        BY <1>1, <1>2, <3>2, <4>1, ReplacedCalls
      <4>3. calls'[(Len(b) + n) - 1] = calls[n]
        BY <4>2, ReplacedCalls
      <4> QED BY <4>2, <4>3, <2>1
    <3>3. m <= l \/ m > l
      BY <1>1, <1>2
    <3> QED BY ONLY <3>1, <3>2, <3>3
  <2>4. PICK r \in 1 .. Len(source) : InResource(r)
    BY <2>1
  <2>5. InResource(r)' /\ r \in 1 .. Len(source')
    BY <2>4 DEF InResource, Clear, Between
  <2> QED BY <2>3, <2>5 DEF ItemsAt
<1>12. MarkAt(j)'
  BY <1>3, <1>8, <1>9, <1>10, <1>11 DEF MarkAt
<1> QED BY <1>1, <1>2, <1>12

\* A mark after the body is one that was there.
LEMMA MarkWasThere ==
    ASSUME calls \in Seq(CallKind), calls # <<>>, NEW b \in Seq(CallKind),
           calls' = b \o Tail(calls), UNCHANGED <<source, document>>, Suits(calls[1], b),
           MarksInv, NEW k \in 1 .. Len(calls'), k > Len(b)
    PROVE  MarkAt(k)'
<1>1. PICK l \in Nat : l = Len(b)
  BY ReplacedCalls
<1>2. PICK n \in Nat : n = (k - l) + 1
  <2>1. (k - l) + 1 \in Nat
    BY <1>1
  <2> QED BY <2>1
<1>3. n \in 2 .. Len(calls) /\ n \in 1 .. Len(calls) /\ (Len(b) + n) - 1 = k
  BY <1>1, <1>2, ReplacedCalls
<1>4. MarkAt(n)
  BY <1>3 DEF MarksInv
<1>5. MarkAt((Len(b) + n) - 1)'
  BY <1>3, <1>4, MarksReplaced
<1> QED BY <1>3, <1>5

LEMMA PlainMark ==
    ASSUME NEW k, calls'[k] \in Plain
    PROVE  MarkAt(k)'
  BY DEF MarkAt, Plain, Marks

LEMMA EnterMarks ==
    ASSUME calls \in Seq(CallKind), MarksInv, Enter
    PROVE  MarksInv'
<1> DEFINE c == Head(calls)
           b == Straight[c]
<1>1. /\ calls # <<>> /\ c \in DOMAIN Straight /\ c = calls[1]
      /\ calls' = b \o Tail(calls) /\ UNCHANGED <<source, document>>
  BY TailIs DEF Enter, Running, Top
<1>2. b \in Seq(CallKind) /\ Suits(c, b)
  BY <1>1, BodyCalls, BodySuits
<1> HIDE DEF b, c
<1> SUFFICES ASSUME NEW k \in 1 .. Len(calls') PROVE MarkAt(k)'
  BY DEF MarksInv
<1>6. Begins(calls', b)
  <2>1. Len(calls) \in Nat /\ Len(calls) >= 1
    BY <1>1, TailIs
  <2>2. Len(b) <= Len(calls') /\ \A m \in 1 .. Len(b) : calls'[m] = b[m]
    BY <2>1, <1>1, <1>2, ReplacedCalls
  <2> QED BY <2>2 DEF Begins
<1>3. CASE k > Len(b)
  BY <1>1, <1>2, <1>3, MarkWasThere
<1>4. CASE k \in 1 .. Len(b)
  <2>1. calls'[k] = b[k]
    BY <1>1, <1>2, <1>4, ReplacedCalls
  <2>2. CASE c = "parse_package"
    <3>1. b = parse_package
      BY <2>2 DEF b, Straight
    <3>2. CASE k = 8
      <4>2. Begins(calls', parse_package)
        BY <1>6, <3>1
      <4>3. calls'[k] = "set_package"
        BY <2>1, <3>1, <3>2, PackageIs
      <4> QED BY <4>2, <4>3, <3>2 DEF MarkAt, PackageAt
    <3>3. CASE k # 8
      <4>1. k \in 1 .. 7
        BY <1>4, <3>1, <3>3, PackageIs
      <4>2. b[k] \in Plain
        BY <4>1, <3>1, PackageIs, PlainHas
      <4> QED BY <2>1, <4>2, PlainMark
    <3> QED BY <3>2, <3>3
  <2>3. CASE c = "parse_resource"
    <3>1. b = parse_resource
      BY <2>3 DEF b, Straight
    <3>2. CASE k = 4
      <4>2. Begins(calls', parse_resource)
        BY <1>6, <3>1
      <4>3. calls'[k] = "resource_body"
        BY <2>1, <3>1, <3>2, ResourceIs
      <4> QED BY <4>2, <4>3, <3>2 DEF MarkAt, BodyAt
    <3>3. CASE k # 4
      <4>1. k \in 1 .. 3
        BY <1>4, <3>1, <3>3, ResourceIs
      <4>2. b[k] \in Plain
        BY <4>1, <3>1, ResourceIs, PlainHas
      <4> QED BY <2>1, <4>2, PlainMark
    <3> QED BY <3>2, <3>3
  <2>4. CASE c \notin {"parse_package", "parse_resource"}
    <3>1. b \in Seq(Plain)
      BY <1>1, <2>4, PlainBodies DEF b
    <3>2. b[k] \in Plain
      BY <3>1, <1>4
    <3> QED BY <2>1, <3>2, PlainMark
  <2> QED BY <2>2, <2>3, <2>4
<1>5. k > Len(b) \/ k \in 1 .. Len(b)
  BY <1>2
<1> QED BY <1>3, <1>4, <1>5

LEMMA ChooseMarks ==
    ASSUME calls \in Seq(CallKind), MarksInv, NEW t, Choose(t)
    PROVE  MarksInv'
<1> DEFINE c == Head(calls)
           b == Body(c, t)
<1>1. /\ calls # <<>> /\ c \in Choosing /\ c = calls[1] /\ b # Error
      /\ calls' = b \o Tail(calls) /\ UNCHANGED <<source, document>>
  BY TailIs DEF Choose, Running, Top
<1>2. b \in Seq(CallKind) /\ Suits(c, b)
  BY <1>1, BodyCalls, BodySuits
<1>3. c = "resource_body" => b = resource_body(t)
  BY PeekingBodies
<1>4. c = "resource_items" => b = resource_items(t)
  BY PeekingBodies
<1>5. c \notin {"resource_body", "resource_items"} => b \in Seq(Plain)
  BY <1>1, PlainBodies
<1> HIDE DEF b, c
<1> SUFFICES ASSUME NEW k \in 1 .. Len(calls') PROVE MarkAt(k)'
  BY DEF MarksInv
<1>0. 1 \in 1 .. Len(calls) /\ MarkAt(1)
  BY <1>1, TailIs DEF MarksInv
<1>6. CASE k > Len(b)
  BY <1>1, <1>2, <1>6, MarkWasThere
<1>7. CASE k \in 1 .. Len(b)
  <2>1. /\ Len(b) \in Nat /\ Len(b) <= Len(calls')
        /\ \A m \in 1 .. Len(b) : calls'[m] = b[m]
    <3>1. Len(calls) \in Nat /\ Len(calls) >= 1
      BY <1>0
    <3> QED BY <3>1, <1>1, <1>2, ReplacedCalls
  <2>2. CASE c = "resource_body"
    <3>1. b = <<"semicolon">> \/ b = <<"lbrace", "resource_items">>
      BY <2>2, <1>3 DEF resource_body
    <3>2. CASE b = <<"semicolon">>
      <4>1. Len(b) = 1 /\ b[1] = "semicolon"
        BY <3>2
      <4>2. calls'[k] = "semicolon"
        BY <4>1, <2>1, <1>7
      <4> QED BY <4>2, PlainMark, PlainHas
    <3>3. CASE b = <<"lbrace", "resource_items">>
      <4>1. Len(b) = 2 /\ b[1] = "lbrace" /\ b[2] = "resource_items"
        BY <3>3
      <4>2. calls'[1] = "lbrace" /\ calls'[2] = "resource_items"
        BY <4>1, <2>1
      <4>3. CASE k = 1
        BY <4>2, <4>3, PlainMark, PlainHas
      <4>4. CASE k = 2
        <5>1. calls[1] = "resource_body"
          BY <2>2, <1>1
        <5>2. BodyAt(1)
          BY <1>0, <5>1 DEF MarkAt
        <5>3. Opens(2)
          BY <5>2 DEF BodyAt
        <5>4. Opens(2)'
          BY <5>3, <1>1 DEF Opens
        <5>5. ItemsAt(2)'
          BY <4>2, <5>4 DEF ItemsAt
        <5> QED BY <4>2, <4>4, <5>5 DEF MarkAt
      <4> QED BY <4>1, <4>3, <4>4, <1>7
    <3> QED BY <3>1, <3>2, <3>3
  <2>3. CASE c = "resource_items"
    <3>1. \/ b = <<"rbrace">> \/ b = <<"doc", "resource_items">>
          \/ b = <<"parse_func_item", "resource_items">>
          \/ b = <<"keep", "parse_constructor_func", "set_constructor", "resource_items">>
      BY <2>3, <1>1, <1>4 DEF resource_items
    <3>2. ItemsAt(1)
      BY <2>3, <1>0, <1>1 DEF MarkAt
    <3>3. PICK r \in 1 .. Len(source) : InResource(r)
      BY <3>2 DEF ItemsAt
    <3>4. r \in 1 .. Len(source') /\ InResource(r)'
      BY <3>3, <1>1 DEF InResource, Clear, Between
    <3>5. ASSUME NEW n \in 1 .. Len(b), b[n] = "resource_items",
                 \A m \in 1 .. n - 1 : b[m] \in ResourceInner
          PROVE  MarkAt(n)'
      <4>1. calls'[n] = "resource_items"
        BY <3>5, <2>1
      <4>2. \A m \in 1 .. n - 1 : calls'[m] \in ResourceInner
        BY <3>5, <2>1
      <4>3. ItemsAt(n)'
        BY <4>2, <3>4 DEF ItemsAt
      <4> QED BY <4>1, <4>3 DEF MarkAt
    <3>6. CASE b = <<"rbrace">>
      <4>1. Len(b) = 1 /\ b[1] = "rbrace"
        BY <3>6
      <4>2. calls'[k] = "rbrace"
        BY <4>1, <2>1, <1>7
      <4> QED BY <4>2, PlainMark, PlainHas
    <3>7. CASE b = <<"doc", "resource_items">> \/ b = <<"parse_func_item", "resource_items">>
      <4>1. /\ Len(b) = 2 /\ b[2] = "resource_items"
            /\ b[1] = "doc" \/ b[1] = "parse_func_item"
        BY <3>7
      <4>2. calls'[1] \in Plain /\ b[1] \in ResourceInner
        BY <4>1, <2>1, PlainHas, InnerHas
      <4>3. CASE k = 1
        BY <4>2, <4>3, PlainMark
      <4>4. CASE k = 2
        BY <4>1, <4>2, <4>4, <3>5
      <4> QED BY <4>1, <4>3, <4>4, <1>7
    <3>8. CASE b = <<"keep", "parse_constructor_func", "set_constructor", "resource_items">>
      <4>1. /\ Len(b) = 4 /\ b[1] = "keep" /\ b[2] = "parse_constructor_func"
            /\ b[3] = "set_constructor" /\ b[4] = "resource_items"
        BY <3>8
      <4>2. /\ calls'[1] = "keep" /\ calls'[2] = "parse_constructor_func"
            /\ calls'[3] = "set_constructor" /\ calls'[4] = "resource_items"
            /\ 4 <= Len(calls')
        BY <4>1, <2>1
      <4>3. CASE k = 1 \/ k = 2
        <5>1. calls'[k] \in Plain
          BY <4>2, <4>3, PlainHas
        <5> QED BY <5>1, PlainMark
      <4>4. CASE k = 3
        <5>1. ConstructorAt(3)'
          BY <4>2 DEF ConstructorAt
        <5> QED BY <4>2, <4>4, <5>1 DEF MarkAt
      <4>5. CASE k = 4
        <5>1. b[1] \in ResourceInner /\ b[2] \in ResourceInner /\ b[3] \in ResourceInner
          BY <4>1, InnerHas
        <5> QED BY <4>1, <4>5, <5>1, <3>5
      <4> QED BY <4>1, <4>3, <4>4, <4>5, <1>7
    <3> QED BY <3>1, <3>6, <3>7, <3>8
  <2>4. CASE c \notin {"resource_body", "resource_items"}
    <3>1. b[k] \in Plain
      BY <2>4, <1>5, <1>7
    <3> QED BY <2>1, <3>1, <1>7, PlainMark
  <2> QED BY <2>2, <2>3, <2>4
<1>8. k > Len(b) \/ k \in 1 .. Len(b)
  BY <1>2
<1> QED BY <1>6, <1>7, <1>8

-----------------------------------------------------------------------------
(***************************************************************************)
(* Where the marks are, when a call is done.                               *)
(***************************************************************************)

LEMMA PoppedCalls ==
    ASSUME calls \in Seq(CallKind), calls # <<>>, calls' = Tail(calls)
    PROVE  /\ Len(calls') \in Nat /\ Len(calls) = Len(calls') + 1
           /\ \A k \in 1 .. Len(calls') : calls'[k] = calls[k + 1]
           /\ \A k \in 1 .. Len(calls') : k + 1 \in 1 .. Len(calls)
           /\ Head(calls) = calls[1] /\ 1 \in 1 .. Len(calls) /\ calls[1] \in CallKind
<1>1. /\ Len(calls) \in Nat \ {0} /\ Head(calls) = calls[1] /\ Head(calls) \in CallKind
      /\ Len(Tail(calls)) = Len(calls) - 1
      /\ \A k \in 1 .. Len(calls) - 1 : Tail(calls)[k] = calls[k + 1]
  BY TailIs
<1>2. Len(calls') = Len(calls) - 1
  BY <1>1
<1>3. \A k \in 1 .. Len(calls') : calls'[k] = calls[k + 1]
  BY <1>1, <1>2
<1> QED BY <1>1, <1>2, <1>3

LEMMA RestsAre ==
    /\ Len(package_rest) = 7 /\ \A m \in 1 .. 7 : package_rest[m] = parse_package[m + 1]
    /\ Len(resource_rest) = 3 /\ \A m \in 1 .. 3 : resource_rest[m] = parse_resource[m + 1]
<1>1. /\ Len(package_rest) = 7
      /\ package_rest[1] = "package" /\ package_rest[2] = "name"
      /\ package_rest[3] = "colon" /\ package_rest[4] = "name"
      /\ package_rest[5] = "package_version" /\ package_rest[6] = "semicolon"
      /\ package_rest[7] = "set_package"
  BY DEF package_rest
<1>2. /\ Len(resource_rest) = 3
      /\ resource_rest[1] = "resource" /\ resource_rest[2] = "name"
      /\ resource_rest[3] = "resource_body"
  BY DEF resource_rest
<1>3. ASSUME NEW m \in 1 .. 7 PROVE package_rest[m] = parse_package[m + 1]
  <2>1. m \in {1, 2, 3, 4, 5, 6, 7}
    OBVIOUS
  <2> QED BY <1>1, <2>1, PackageIs
<1>4. ASSUME NEW m \in 1 .. 3 PROVE resource_rest[m] = parse_resource[m + 1]
  <2>1. m \in {1, 2, 3}
    OBVIOUS
  <2> QED BY <1>2, <2>1, ResourceIs
<1> QED BY <1>1, <1>2, <1>3, <1>4

LEMMA BeginsTail ==
    ASSUME calls \in Seq(CallKind), calls # <<>>, calls' = Tail(calls)
    PROVE  /\ Begins(calls, parse_package) => Begins(calls', package_rest)
           /\ Begins(calls, parse_resource) => Begins(calls', resource_rest)
<1>1. ASSUME Begins(calls, parse_package) PROVE Begins(calls', package_rest)
  <2>1. Len(package_rest) = 7 /\ 8 <= Len(calls) /\ Len(parse_package) = 8
    BY <1>1, RestsAre, PackageIs DEF Begins
  <2>2. 7 <= Len(calls')
    BY <2>1, PoppedCalls
  <2>3. ASSUME NEW m \in 1 .. 7 PROVE calls'[m] = package_rest[m]
    <3>1. m \in 1 .. Len(calls') /\ m + 1 \in 1 .. 8
      BY <2>2, PoppedCalls
    <3>2. calls'[m] = calls[m + 1]
      BY <3>1, PoppedCalls
    <3>3. calls[m + 1] = parse_package[m + 1]
      BY <3>1, <2>1, <1>1 DEF Begins
    <3> QED BY <3>2, <3>3, RestsAre
  <2> QED BY <2>1, <2>2, <2>3 DEF Begins
<1>2. ASSUME Begins(calls, parse_resource) PROVE Begins(calls', resource_rest)
  <2>1. Len(resource_rest) = 3 /\ 4 <= Len(calls) /\ Len(parse_resource) = 4
    BY <1>2, RestsAre, ResourceIs DEF Begins
  <2>2. 3 <= Len(calls')
    BY <2>1, PoppedCalls
  <2>3. ASSUME NEW m \in 1 .. 3 PROVE calls'[m] = resource_rest[m]
    <3>1. m \in 1 .. Len(calls') /\ m + 1 \in 1 .. 4
      BY <2>2, PoppedCalls
    <3>2. calls'[m] = calls[m + 1]
      BY <3>1, PoppedCalls
    <3>3. calls[m + 1] = parse_resource[m + 1]
      BY <3>1, <2>1, <1>2 DEF Begins
    <3> QED BY <3>2, <3>3, RestsAre
  <2> QED BY <2>1, <2>2, <2>3 DEF Begins
<1> QED BY <1>1, <1>2

\* What a declaration before the end of the calls says of the next one.
LEMMA DeclaringFirst ==
    ASSUME NEW k \in Nat, NEW i, Declaring(k + 1, i), k >= 1
    PROVE  \/ k = 1 /\ calls[1] = "semicolon"
           \/ k >= 2 /\ calls[1] \in Quiet
<1>1. /\ calls[(k + 1) - 1] = "semicolon"
      /\ \A m \in 1 .. (k + 1) - 2 : calls[m] \in Quiet
  BY DEF Declaring
<1>2. CASE k = 1
  <2>1. (k + 1) - 1 = 1
    BY <1>2
  <2> QED BY <2>1, <1>1, <1>2
<1>3. CASE k >= 2
  <2>1. 1 \in 1 .. (k + 1) - 2
    BY <1>3
  <2> QED BY <2>1, <1>1, <1>3
<1> QED BY <1>2, <1>3

LEMMA DeliverMarks ==
    ASSUME calls \in Seq(CallKind), MarksInv, Deliver,
           document \in [names : SUBSET Nat, package : SUBSET Nat,
                         constructor : SUBSET Nat, local : SUBSET Nat]
    PROVE  MarksInv'
<1>1. /\ calls # <<>> /\ calls[1] \in Assignment /\ calls' = Tail(calls)
      /\ document' = Assigned(calls[1], document) /\ UNCHANGED source
  BY TailIs DEF Deliver, Running, Top
<1> SUFFICES ASSUME NEW k \in 1 .. Len(calls') PROVE MarkAt(k)'
  BY DEF MarksInv
<1>2. /\ k \in Nat /\ k >= 1 /\ k + 1 \in 1 .. Len(calls) /\ calls'[k] = calls[k + 1]
      /\ k + 1 \in Nat
  BY <1>1, PoppedCalls
<1>3. MarkAt(k + 1)
  BY <1>2 DEF MarksInv
<1>4. calls[1] \in {"keep", "set_package", "set_constructor", "new_resource"}
  BY <1>1 DEF Assignment
<1>5. calls[1] \notin Quiet
  BY <1>1, QuietKinds
<1>6. ASSUME NEW i PROVE ~ Declaring(k + 1, i)
  BY <1>2, <1>4, <1>5, DeclaringFirst
<1>7. ASSUME calls[k + 1] = "set_package" PROVE PackageAt(k)'
  <2>1. PackageAt(k + 1)
    BY <1>3, <1>7 DEF MarkAt
  <2>2. ~ Begins(calls, package_rest)
    BY <1>4, BeginsAre
  <2>3. k + 1 = 8 /\ Begins(calls, parse_package)
    BY <2>1, <2>2, <1>6 DEF PackageAt
  <2>4. calls[1] = "keep"
    BY <2>3, BeginsAre
  <2>5. document'.local = {}
    BY <1>1, <2>4 DEF Assigned
  <2>6. k = 7 /\ Begins(calls', package_rest)
    BY <1>1, <1>2, <2>3, BeginsTail
  <2> QED BY <2>5, <2>6 DEF PackageAt
<1>8. ASSUME calls[k + 1] = "set_constructor" PROVE ConstructorAt(k)'
  <2>1. ConstructorAt(k + 1)
    BY <1>3, <1>8 DEF MarkAt
  <2>2. ~ Begins(calls, parse_constructor_func)
    BY <1>4, BeginsAre
  <2>3. /\ k + 1 = 3 /\ calls[1] = "keep" /\ calls[2] = "parse_constructor_func"
        /\ (k + 1) + 1 <= Len(calls) /\ calls[(k + 1) + 1] = "resource_items"
    BY <2>1, <2>2, <1>4, <1>6 DEF ConstructorAt
  <2>4. document'.local = {}
    BY <1>1, <2>3 DEF Assigned
  <2>5. k = 2 /\ k + 1 <= Len(calls')
    BY <1>1, <1>2, <2>3, PoppedCalls
  <2>6. k + 1 \in 1 .. Len(calls') /\ 1 \in 1 .. Len(calls')
    BY <1>2, <2>5
  <2>7. calls'[k + 1] = calls[(k + 1) + 1] /\ calls'[1] = calls[1 + 1]
    BY <1>1, <2>6, PoppedCalls
  <2>8. calls'[1] = "parse_constructor_func" /\ calls'[k + 1] = "resource_items"
    BY <2>3, <2>7
  <2> QED BY <2>4, <2>5, <2>8 DEF ConstructorAt
<1>9. ASSUME calls[k + 1] = "resource_body" PROVE BodyAt(k)'
  <2>1. BodyAt(k + 1)
    BY <1>3, <1>9 DEF MarkAt
  <2>2. ~ Begins(calls, resource_rest)
    BY <1>4, BeginsAre
  <2>3. k + 1 = 4 /\ Begins(calls, parse_resource)
    BY <2>1, <2>2, <1>2, <1>4 DEF BodyAt
  <2>4. calls[1] = "new_resource"
    BY <2>3, BeginsAre
  <2>5. document'.constructor = {}
    BY <1>1, <2>4 DEF Assigned
  <2>6. k = 3 /\ Begins(calls', resource_rest)
    BY <1>1, <1>2, <2>3, BeginsTail
  <2> QED BY <2>5, <2>6 DEF BodyAt
<1>10. ASSUME calls[k + 1] = "resource_items" PROVE ItemsAt(k)'
  <2>1. ItemsAt(k + 1)
    BY <1>3, <1>10 DEF MarkAt
  <2>2. /\ \A m \in 1 .. (k + 1) - 1 : calls[m] \in ResourceInner
        /\ \E r \in 1 .. Len(source) : InResource(r)
    BY <2>1, <1>4 DEF ItemsAt
  <2>3. ASSUME NEW m \in 1 .. k - 1 PROVE calls'[m] \in ResourceInner
    <3>1. m \in 1 .. Len(calls') /\ m + 1 \in 1 .. (k + 1) - 1
      BY <1>2
    <3>2. calls'[m] = calls[m + 1]
      BY <3>1, <1>1, PoppedCalls
    <3> QED BY <3>1, <3>2, <2>2
  <2>4. calls[1] \in ResourceInner
    <3>1. 1 \in 1 .. (k + 1) - 1
      BY <1>2
    <3> QED BY <3>1, <2>2
  <2>5. \E r \in 1 .. Len(source') : InResource(r)'
    <3>1. CASE calls[1] = "keep"
      <4>1. document'.constructor = document.constructor
        BY <1>1, <3>1 DEF Assigned
      <4>2. PICK r \in 1 .. Len(source) : InResource(r)
        BY <2>2
      <4>3. InResource(r)'
        BY <4>1, <4>2, <1>1 DEF InResource, Clear, Between
      <4> QED BY <4>3, <1>1
    <3>2. CASE calls[1] = "set_constructor"
      <4>1. document'.constructor = document.local
        BY <1>1, <3>2 DEF Assigned
      <4>2. MarkAt(1)
        BY <1>1, PoppedCalls DEF MarksInv
      <4>3. ConstructorAt(1)
        BY <4>2, <3>2 DEF MarkAt
      <4>4. PICK r \in 1 .. Len(source), i \in 1 .. Len(source) :
              InResource(r) /\ r + 3 <= i /\ Since("constructor", document.constructor, i)
        BY <4>3, <3>2 DEF ConstructorAt
      <4>5. ASSUME NEW n \in document.local
            PROVE  \E j \in r + 3 .. n - 1 : source[j] = "constructor" /\ Clear(j, n)
        <5>1. n \in Nat /\ i < n /\ Clear(i, n) /\ source[i] = "constructor"
          BY <4>4 DEF Since
        <5>2. i \in r + 3 .. n - 1
          BY <5>1, <4>4
        <5> QED BY <5>1, <5>2
      <4>6. InResource(r)'
        <5>1. /\ r + 2 <= Len(source') /\ source'[r] = "resource" /\ source'[r + 2] = "lbrace"
              /\ ("rbrace" \notin Between(r, Len(source) + 1))'
          BY <4>4, <1>1 DEF InResource, Between
        <5>2. (\A n \in document.constructor :
                 \E j \in r + 3 .. n - 1 : source[j] = "constructor" /\ Clear(j, n))'
          BY <4>1, <4>5, <1>1 DEF Clear, Between
        <5> QED BY <5>1, <5>2 DEF InResource
      <4> QED BY <4>6, <1>1
    <3>3. calls[1] # "set_package" /\ calls[1] # "new_resource"
      BY <2>4, InnerKinds
    <3> QED BY <3>1, <3>2, <3>3, <1>4
  <2> QED BY <2>3, <2>5 DEF ItemsAt
<1> QED BY <1>2, <1>7, <1>8, <1>9, <1>10 DEF MarkAt

-----------------------------------------------------------------------------
(***************************************************************************)
(* Where the marks are, when a token is advanced over.                     *)
(***************************************************************************)

LEMMA AdvanceIs ==
    ASSUME ParserTypeOK, NEW t \in Token, Advance(t)
    PROVE  /\ calls \in Seq(CallKind) /\ calls # <<>> /\ calls' = Tail(calls)
           /\ t \in TokenKind /\ calls[1] \notin Assignment
           /\ calls[1] \notin DOMAIN Straight /\ calls[1] \notin Choosing
           /\ Len(source) \in Nat /\ Len(source') = Len(source) + 1
           /\ source'[Len(source) + 1] = t
           /\ \A k \in 1 .. Len(source) : source'[k] = source[k]
           /\ document'.names = document.names /\ document'.package = document.package
           /\ document'.constructor = document.constructor
           /\ \/ /\ calls[1] = "name" /\ t \in Ident
                 /\ document'.local = document.local \union {Len(source) + 1}
              \/ /\ calls[1] # "name" /\ t = calls[1] /\ t # "ident"
                 /\ document'.local = document.local
<1>1. /\ calls \in Seq(CallKind) /\ calls # <<>> /\ calls' = Tail(calls)
      /\ Expecting /\ Expected(t)
  BY DEF Advance, Running, ParserTypeOK
<1>2. Top = calls[1] /\ Top \in CallKind
  BY <1>1, TailIs DEF Top
<1>3. /\ t \in TokenKind
      /\ (Top = "name" /\ t \in Ident) \/ (Top # "name" /\ t = Top /\ t # "ident")
  BY <1>1, <1>2, ExpectedIs
<1>4. /\ Top \notin Assignment /\ Top \notin DOMAIN Straight /\ Top \notin Choosing
  BY <1>1 DEF Expecting
<1>5. /\ Len(source) \in Nat /\ Len(source') = Len(source) + 1
      /\ source'[Len(source) + 1] = t
      /\ \A k \in 1 .. Len(source) : source'[k] = source[k]
  BY <1>3 DEF Advance, ParserTypeOK
<1>6. /\ document'.names = document.names /\ document'.package = document.package
      /\ document'.constructor = document.constructor
      /\ Top = "name" => document'.local = document.local \union {Len(source) + 1}
      /\ Top # "name" => document'.local = document.local
  BY <1>5 DEF Advance, ParserTypeOK
<1> QED BY <1>1, <1>2, <1>3, <1>4, <1>5, <1>6

\* What is between two tokens stays; one that is added is between what was
\* there and the end.
LEMMA BetweenStays ==
    ASSUME ParserTypeOK, NEW t \in Token, Advance(t),
           NEW i \in Nat, NEW n \in Nat, n <= Len(source) + 1
    PROVE  Between(i, n)' = Between(i, n)
<1>1. /\ Len(source) \in Nat /\ \A k \in 1 .. Len(source) : source'[k] = source[k]
  BY AdvanceIs
<1>2. \A m \in i + 1 .. n - 1 : m \in 1 .. Len(source) /\ source'[m] = source[m]
  BY <1>1
<1>3. {source'[m] : m \in i + 1 .. n - 1} = {source[m] : m \in i + 1 .. n - 1}
  BY <1>2
<1> QED BY <1>3 DEF Between

LEMMA BetweenGrows ==
    ASSUME ParserTypeOK, NEW t \in Token, Advance(t),
           NEW i \in Nat, NEW x \in (Between(i, Len(source) + 1))'
    PROVE  x \in Between(i, Len(source) + 1) \/ x = t
<1>1. /\ Len(source) \in Nat /\ Len(source') = Len(source) + 1
      /\ source'[Len(source) + 1] = t
      /\ \A k \in 1 .. Len(source) : source'[k] = source[k]
  BY AdvanceIs
<1>2. PICK m \in i + 1 .. (Len(source') + 1) - 1 : x = source'[m]
  BY DEF Between
<1>3. CASE m = Len(source) + 1
  BY <1>1, <1>2, <1>3
<1>4. CASE m # Len(source) + 1
  <2>1. m \in 1 .. Len(source) /\ m \in i + 1 .. (Len(source) + 1) - 1
    BY <1>1, <1>4
  <2>2. x = source[m]
    BY <2>1, <1>1, <1>2
  <2> QED BY <2>1, <2>2 DEF Between
<1> QED BY <1>3, <1>4

LEMMA ClearStays ==
    ASSUME ParserTypeOK, NEW t \in Token, Advance(t),
           NEW i \in Nat, NEW n \in Nat, n <= Len(source) + 1, Clear(i, n)
    PROVE  Clear(i, n)'
  BY BetweenStays DEF Clear

LEMMA ClearGrows ==
    ASSUME ParserTypeOK, NEW t \in Token, Advance(t), t # "semicolon", t # "rbrace",
           NEW i \in Nat, Clear(i, Len(source) + 1)
    PROVE  (Clear(i, Len(source) + 1))'
<1>1. "semicolon" \notin (Between(i, Len(source) + 1))'
  BY BetweenGrows DEF Clear
<1>2. "rbrace" \notin (Between(i, Len(source) + 1))'
  BY BetweenGrows DEF Clear
<1> QED BY <1>1, <1>2 DEF Clear

\* A declaration goes on with the tokens it is made of.
LEMMA SinceStays ==
    ASSUME ParserTypeOK, NEW t \in Token, Advance(t), NEW word, NEW old,
           NEW i \in 1 .. Len(source), Since(word, old, i),
           NEW k \in Nat, k >= 1, k + 1 \in 1 .. Len(calls), Declaring(k + 1, i)
    PROVE  Since(word, old, i)' /\ Declaring(k, i)' /\ t # "rbrace"
<1>1. /\ i \in Nat /\ i <= Len(source) /\ source'[i] = source[i] /\ Len(source) \in Nat
  BY AdvanceIs
<1>2. /\ calls[(k + 1) - 1] = "semicolon" /\ Clear(i, Len(source) + 1)
      /\ \A m \in 1 .. (k + 1) - 2 : calls[m] \in Quiet
  BY DEF Declaring
<1>3. \/ k = 1 /\ calls[1] = "semicolon"
      \/ k >= 2 /\ calls[1] \in Quiet
  BY DeclaringFirst
<1>4. t # "rbrace" /\ (k # 1 => t # "semicolon")
  BY <1>3, AdvanceIs, QuietKinds DEF Ident
<1>5. \A n \in document.local : n \in Nat /\ n <= Len(source)
  BY <1>1 DEF ParserTypeOK
<1>6. ASSUME NEW n \in document'.local PROVE i < n /\ Clear(i, n)'
  <2>1. CASE n \in document.local
    <3>1. n \in Nat /\ n <= Len(source) + 1 /\ i < n /\ Clear(i, n)
      BY <2>1, <1>1, <1>5 DEF Since
    <3> QED BY <3>1, <1>1, ClearStays
  <2>2. CASE n = Len(source) + 1
    <3>1. n \in Nat /\ n <= Len(source) + 1 /\ i < n /\ Clear(i, n)
      BY <2>2, <1>1, <1>2
    <3> QED BY <3>1, <1>1, ClearStays
  <2> QED BY <2>1, <2>2, <1>6, AdvanceIs
<1>7. Since(word, old, i)'
  <2>1. source'[i] = word /\ \A n \in old : n < i
    BY <1>1 DEF Since
  <2> QED BY <2>1, <1>6 DEF Since
<1>8. Declaring(k, i)'
  <2>1. CASE k = 1
    BY <2>1 DEF Declaring
  <2>2. CASE k # 1
    <3>1. (Clear(i, Len(source) + 1))'
      BY <2>2, <1>1, <1>2, <1>4, ClearGrows
    <3>2. ASSUME NEW m \in 1 .. k - 1 PROVE calls'[m] = calls[m + 1]
      <4>1. Len(calls) = Len(calls') + 1 /\ Len(calls') \in Nat
        BY AdvanceIs, PoppedCalls
      <4>2. m \in 1 .. Len(calls')
        BY <4>1
      <4> QED BY <4>2, AdvanceIs, PoppedCalls
    <3>3. calls'[k - 1] = "semicolon"
      <4>1. k - 1 \in 1 .. k - 1 /\ (k - 1) + 1 = (k + 1) - 1
        BY <2>2
      <4> QED BY <4>1, <3>2, <1>2
    <3>4. \A m \in 1 .. k - 2 : calls'[m] \in Quiet
      <4> SUFFICES ASSUME NEW m \in 1 .. k - 2 PROVE calls'[m] \in Quiet
        OBVIOUS
      <4>1. m \in 1 .. k - 1 /\ m + 1 \in 1 .. (k + 1) - 2
        OBVIOUS
      <4> QED BY <4>1, <3>2, <1>2
    <3> QED BY <3>1, <3>3, <3>4 DEF Declaring
  <2> QED BY <2>1, <2>2
<1> QED BY <1>4, <1>7, <1>8

LEMMA InResourceStays ==
    ASSUME ParserTypeOK, NEW t \in Token, Advance(t), t # "rbrace",
           NEW r \in 1 .. Len(source), InResource(r)
    PROVE  InResource(r)'
<1>1. /\ Len(source) \in Nat /\ Len(source') = Len(source) + 1
      /\ \A k \in 1 .. Len(source) : source'[k] = source[k]
      /\ document'.constructor = document.constructor
  BY AdvanceIs
<1>2. /\ r + 2 <= Len(source) /\ source[r] = "resource" /\ source[r + 2] = "lbrace"
      /\ "rbrace" \notin Between(r, Len(source) + 1)
  BY DEF InResource
<1>3. /\ r + 2 <= Len(source') /\ source'[r] = "resource" /\ source'[r + 2] = "lbrace"
  BY <1>1, <1>2
<1>4. "rbrace" \notin (Between(r, Len(source) + 1))'
  BY <1>1, <1>2, BetweenGrows
<1>5. ASSUME NEW n \in document.constructor
      PROVE  \E i \in r + 3 .. n - 1 : source'[i] = "constructor" /\ Clear(i, n)'
  <2>1. n \in 1 .. Len(source)
    BY DEF ParserTypeOK
  <2>2. PICK i \in r + 3 .. n - 1 : source[i] = "constructor" /\ Clear(i, n)
    BY DEF InResource
  <2>3. i \in Nat /\ i \in 1 .. Len(source) /\ n \in Nat /\ n <= Len(source) + 1
    BY <2>1, <2>2, <1>1
  <2>4. Clear(i, n)'
    BY <2>2, <2>3, ClearStays
  <2> QED BY <2>2, <2>3, <2>4, <1>1
<1> QED BY <1>1, <1>3, <1>4, <1>5 DEF InResource

\* The token that begins a declaration.
LEMMA DeclarationBegins ==
    ASSUME ParserTypeOK, NEW t \in Token, Advance(t), NEW word, word # "name", calls[1] = word,
           document.local = {}, NEW k \in Nat, k >= 2, k + 1 \in 1 .. Len(calls), calls[k] = "semicolon",
           \A m \in 2 .. k - 1 : calls[m] \in Quiet
    PROVE  \E i \in 1 .. Len(source') :
              /\ i = Len(source) + 1 /\ Declaring(k, i)'
              /\ Since(word, document.package, i)' /\ Since(word, document.constructor, i)'
<1>1. /\ Len(source) \in Nat /\ Len(source') = Len(source) + 1
      /\ source'[Len(source) + 1] = word /\ document'.local = {}
      /\ calls' = Tail(calls) /\ calls # <<>> /\ calls \in Seq(CallKind)
  BY AdvanceIs
<1>2. PICK i \in Nat : i = Len(source) + 1
  BY <1>1
<1>3. \A n \in document'.package \union document'.constructor : n < i
  <2>1. \A n \in document.package \union document.constructor : n \in Nat /\ n <= Len(source)
    BY <1>1 DEF ParserTypeOK
  <2> QED BY <2>1, <1>2, AdvanceIs
<1>4. Since(word, document.package, i)' /\ Since(word, document.constructor, i)'
  BY <1>1, <1>2, <1>3 DEF Since
<1>5. Clear(i, i + 1)'
  <2>1. {source'[m] : m \in i + 1 .. (i + 1) - 1} = {}
    OBVIOUS
  <2>2. (Between(i, i + 1))' = {}
    BY <2>1 DEF Between
  <2> QED BY <2>2 DEF Clear
<1>6. Len(calls) = Len(calls') + 1 /\ Len(calls') \in Nat
  BY <1>1, PoppedCalls
<1>7. ASSUME NEW m \in 1 .. k - 1 PROVE calls'[m] = calls[m + 1]
  <2>1. m \in 1 .. Len(calls')
    BY <1>6
  <2> QED BY <2>1, <1>1, PoppedCalls
<1>8. calls'[k - 1] = "semicolon"
  <2>1. k - 1 \in 1 .. k - 1 /\ (k - 1) + 1 = k
    OBVIOUS
  <2> QED BY <2>1, <1>7
<1>9. ASSUME NEW m \in 1 .. k - 2 PROVE calls'[m] \in Quiet
  <2>1. m \in 1 .. k - 1 /\ m + 1 \in 2 .. k - 1
    OBVIOUS
  <2> QED BY <2>1, <1>7
<1>10. Declaring(k, i)'
  <2>1. (Clear(i, Len(source) + 1))'
    BY <1>1, <1>2, <1>5
  <2> QED BY <2>1, <1>8, <1>9 DEF Declaring
<1> QED BY <1>1, <1>2, <1>4, <1>10

LEMMA AdvanceMarks ==
    ASSUME ParserTypeOK, MarksInv, NEW t \in Token, Advance(t)
    PROVE  MarksInv'
<1> SUFFICES ASSUME NEW k \in 1 .. Len(calls') PROVE MarkAt(k)'
  BY DEF MarksInv
<1>1. /\ calls \in Seq(CallKind) /\ calls # <<>> /\ calls' = Tail(calls)
      /\ Len(source) \in Nat /\ Len(source') = Len(source) + 1
      /\ source'[Len(source) + 1] = t
      /\ \A m \in 1 .. Len(source) : source'[m] = source[m]
      /\ document'.package = document.package
      /\ document'.constructor = document.constructor
      /\ calls[1] # "name" => (t = calls[1] /\ document'.local = document.local)
      /\ calls[1] = "name" => t \in Ident
      /\ calls[1] \notin Assignment /\ calls[1] \notin DOMAIN Straight
      /\ calls[1] \notin Choosing
  BY AdvanceIs
<1>2. /\ k \in Nat /\ k >= 1 /\ k + 1 \in 1 .. Len(calls) /\ calls'[k] = calls[k + 1]
      /\ k + 1 \in Nat /\ Len(calls) = Len(calls') + 1 /\ Len(calls') \in Nat
      /\ \A m \in 1 .. Len(calls') : calls'[m] = calls[m + 1]
  BY <1>1, PoppedCalls
<1>3. MarkAt(k + 1)
  BY <1>2 DEF MarksInv
<1>4. /\ ~ Begins(calls, parse_package) /\ ~ Begins(calls, parse_resource)
      /\ calls[1] # "keep" /\ calls[1] # "parse_constructor_func"
  <2>1. calls[1] \notin {"keep", "new_resource"}
    BY <1>1 DEF Assignment
  <2>2. calls[1] # "parse_constructor_func"
    BY <1>1, StraightAre
  <2> QED BY <2>1, <2>2, BeginsAre
<1>5. \A n \in document.package \union document.constructor : n \in Nat /\ n <= Len(source)
  BY <1>1 DEF ParserTypeOK
<1>6. ASSUME calls[k + 1] = "set_package" PROVE PackageAt(k)'
  <2>1. PackageAt(k + 1)
    BY <1>3, <1>6 DEF MarkAt
  <2>2. CASE k + 1 = 7 /\ Begins(calls, package_rest) /\ document.local = {}
    <3>1. /\ calls[1] = "package" /\ calls[2] = "name"
          /\ calls[3] = "colon" /\ calls[4] = "name" /\ calls[5] = "package_version"
          /\ calls[6] = "semicolon"
      BY <2>2, BeginsAre
    <3>2. \A m \in 2 .. 5 : m \in {2, 3, 4, 5}
      OBVIOUS
    <3>3. k = 6 /\ k >= 2 /\ calls[k] = "semicolon"
      BY <3>1, <2>2, <1>2
    <3>4. \A m \in 2 .. k - 1 : calls[m] \in Quiet
      BY <3>1, <3>2, <3>3, QuietHas
    <3>5. \E i \in 1 .. Len(source') :
             /\ i = Len(source) + 1 /\ Declaring(k, i)'
             /\ Since("package", document.package, i)' /\ Since("package", document.constructor, i)'
      BY <3>1, <3>3, <3>4, <2>2, <1>2, DeclarationBegins
    <3> QED BY <3>5 DEF PackageAt
  <2>3. ASSUME NEW i \in 1 .. Len(source), Since("package", document.package, i),
               Declaring(k + 1, i)
        PROVE  PackageAt(k)'
    <3>1. Since("package", document.package, i)' /\ Declaring(k, i)'
      BY <2>3, <1>1, <1>2, SinceStays
    <3>2. i \in 1 .. Len(source')
      BY <1>1
    <3> QED BY <3>1, <3>2 DEF PackageAt
  <2> QED BY <2>1, <2>2, <2>3, <1>4 DEF PackageAt
<1>7. ASSUME calls[k + 1] = "set_constructor" PROVE ConstructorAt(k)'
  <2>1. ConstructorAt(k + 1) /\ (k + 1) + 1 <= Len(calls) /\ calls[(k + 1) + 1] = "resource_items"
    BY <1>3, <1>7 DEF MarkAt, ConstructorAt
  <2>2. k + 1 <= Len(calls') /\ calls'[k + 1] = "resource_items"
    <3>1. k + 1 \in 1 .. Len(calls')
      BY <2>1, <1>2
    <3> QED BY <3>1, <2>1, <1>2
  <2>3. CASE k + 1 = 6 /\ Begins(calls, parse_constructor_func) /\ document.local = {}
    <3>1. /\ calls[1] = "constructor" /\ calls[2] = "lparen"
          /\ calls[3] = "parse_param_list" /\ calls[4] = "rparen" /\ calls[5] = "semicolon"
      BY <2>3, BeginsAre
    <3>2. \A m \in 2 .. 4 : m \in {2, 3, 4}
      OBVIOUS
    <3>3. k = 5 /\ k >= 2 /\ calls[k] = "semicolon"
      BY <3>1, <2>3, <1>2
    <3>11. \A m \in 2 .. k - 1 : calls[m] \in Quiet
      BY <3>1, <3>2, <3>3, QuietHas
    <3>4. PICK i \in 1 .. Len(source') :
             /\ i = Len(source) + 1 /\ Declaring(k, i)'
             /\ Since("constructor", document.package, i)'
             /\ Since("constructor", document.constructor, i)'
      BY <3>1, <3>3, <3>11, <2>3, <1>2, DeclarationBegins
    <3>5. MarkAt(7)
      <4>1. 7 \in 1 .. Len(calls)
        BY <2>1, <3>3, <1>2
      <4> QED BY <4>1 DEF MarksInv
    <3>6. calls[7] = "resource_items"
      BY <2>1, <3>3
    <3>7. \E r \in 1 .. Len(source) : InResource(r)
      BY <3>1, <3>5, <3>6 DEF MarkAt, ItemsAt
    <3>8. PICK r \in 1 .. Len(source) : InResource(r)
      BY <3>7
    <3>12. t # "rbrace"
      BY <3>1, <1>1
    <3>9. InResource(r)' /\ r \in 1 .. Len(source')
      BY <3>8, <3>12, <1>1, InResourceStays
    <3>10. r + 3 <= i
      BY <3>4, <3>8, <1>1 DEF InResource
    <3> QED BY <3>4, <3>9, <3>10, <2>2 DEF ConstructorAt
  <2>4. ASSUME NEW r \in 1 .. Len(source), NEW i \in 1 .. Len(source), InResource(r), r + 3 <= i,
               Since("constructor", document.constructor, i), Declaring(k + 1, i)
        PROVE  ConstructorAt(k)'
    <3>1. Since("constructor", document.constructor, i)' /\ Declaring(k, i)' /\ t # "rbrace"
      BY <2>4, <1>1, <1>2, SinceStays
    <3>2. InResource(r)'
      BY <2>4, <3>1, InResourceStays
    <3>3. i \in 1 .. Len(source') /\ r \in 1 .. Len(source')
      BY <1>1
    <3> QED BY <3>1, <3>2, <3>3, <2>2, <2>4 DEF ConstructorAt
  <2> QED BY <2>1, <2>3, <2>4, <1>4 DEF ConstructorAt
<1>8. ASSUME calls[k + 1] = "resource_body" PROVE BodyAt(k)'
  <2>1. BodyAt(k + 1)
    BY <1>3, <1>8 DEF MarkAt
  <2>2. CASE k + 1 = 3 /\ Begins(calls, resource_rest) /\ document.constructor = {}
    <3>1. calls[1] = "resource" /\ calls[2] = "name" /\ k = 2
      BY <2>2, <1>2, BeginsAre
    <3>2. calls'[1] = "name"
      <4>1. 1 \in 1 .. Len(calls') /\ 1 + 1 = 2
        BY <1>2
      <4> QED BY <4>1, <3>1, <1>2
    <3>3. Opens(1)'
      <4>1. t = "resource" /\ 1 <= Len(source') /\ (Len(source') - 1) + 1 = Len(source) + 1
        BY <3>1, <1>1
      <4> QED BY <4>1, <2>2, <1>1 DEF Opens
    <3> QED BY <3>1, <3>2, <3>3 DEF BodyAt
  <2>3. CASE k + 1 = 2 /\ calls[1] = "name" /\ Opens(1)
    <3>1. t \in Ident /\ t # "rbrace" /\ k = 1
      BY <2>3, <1>1, <1>2 DEF Ident
    <3>2. 1 <= Len(source) /\ source[(Len(source) - 1) + 1] = "resource"
      BY <2>3 DEF Opens
    <3>3. /\ 2 <= Len(source') /\ (Len(source') - 2) + 1 = Len(source)
          /\ source'[Len(source)] = "resource" /\ source'[Len(source')] # "rbrace"
      BY <3>1, <3>2, <1>1
    <3>4. Opens(2)'
      BY <3>3, <2>3, <1>1 DEF Opens
    <3> QED BY <3>1, <3>4 DEF BodyAt
  <2> QED BY <2>1, <2>2, <2>3, <1>2, <1>4 DEF BodyAt
<1>9. ASSUME calls[k + 1] = "resource_items" PROVE ItemsAt(k)'
  <2>1. ItemsAt(k + 1)
    BY <1>3, <1>9 DEF MarkAt
  <2>2. CASE k + 1 = 2 /\ calls[1] = "lbrace" /\ Opens(2)
    <3>1. t = "lbrace" /\ k = 1
      BY <2>2, <1>1, <1>2
    <3>2. /\ 2 <= Len(source) /\ source[(Len(source) - 2) + 1] = "resource"
          /\ source[Len(source)] # "rbrace" /\ document.constructor = {}
      BY <2>2 DEF Opens
    <3>3. PICK r \in 1 .. Len(source) : r + 1 = Len(source)
      <4>1. Len(source) - 1 \in 1 .. Len(source) /\ (Len(source) - 1) + 1 = Len(source)
        BY <3>2, <1>1
      <4> QED BY <4>1
    <3>4. /\ r + 2 = Len(source') /\ source'[r] = "resource" /\ source'[r + 2] = "lbrace"
          /\ source'[r + 1] # "rbrace" /\ document'.constructor = {}
      BY <3>1, <3>2, <3>3, <1>1
    <3>5. ASSUME NEW m \in r + 1 .. (Len(source') + 1) - 1 PROVE source'[m] # "rbrace"
      <4>1. m = r + 1 \/ m = r + 2
        BY <3>4, <1>1
      <4> QED BY <4>1, <3>4
    <3>6. "rbrace" \notin (Between(r, Len(source) + 1))'
      BY <3>5 DEF Between
    <3>7. InResource(r)'
      BY <3>4, <3>6, <1>1 DEF InResource
    <3>8. r \in 1 .. Len(source') /\ \A m \in 1 .. k - 1 : calls'[m] \in ResourceInner
      BY <3>1, <1>1
    <3> QED BY <3>7, <3>8 DEF ItemsAt
  <2>3. ASSUME \A m \in 1 .. (k + 1) - 1 : calls[m] \in ResourceInner,
               NEW r \in 1 .. Len(source), InResource(r)
        PROVE  ItemsAt(k)'
    <3>1. calls[1] \in ResourceInner
      <4>1. 1 \in 1 .. (k + 1) - 1
        BY <1>2
      <4> QED BY <4>1, <2>3
    <3>2. t # "rbrace"
      BY <3>1, <1>1, InnerKinds DEF Ident
    <3>3. InResource(r)' /\ r \in 1 .. Len(source')
      BY <2>3, <3>2, <1>1, InResourceStays
    <3>4. ASSUME NEW m \in 1 .. k - 1 PROVE calls'[m] \in ResourceInner
      <4>1. m \in 1 .. Len(calls') /\ m + 1 \in 1 .. (k + 1) - 1
        BY <1>2
      <4> QED BY <4>1, <1>2, <2>3
    <3> QED BY <3>3, <3>4 DEF ItemsAt
  <2> QED BY <2>1, <2>2, <2>3 DEF ItemsAt
<1> QED BY <1>2, <1>6, <1>7, <1>8, <1>9 DEF MarkAt

-----------------------------------------------------------------------------
(***************************************************************************)
(* The parser's invariant.                                                 *)
(***************************************************************************)

LEMMA PackageDelivered ==
    ASSUME ParserTypeOK, MarksInv, Deliver, calls[1] = "set_package"
    PROVE  /\ document'.package = document.local
           /\ \E i \in 1 .. Len(source) : Since("package", document.package, i)
<1>1. /\ calls \in Seq(CallKind) /\ calls # <<>> /\ Top = calls[1] /\ 1 \in 1 .. Len(calls)
  BY TailIs DEF Deliver, Running, Top, ParserTypeOK
<1>2. document'.package = document.local
  BY <1>1 DEF Deliver, Assigned, ParserTypeOK
<1>3. PackageAt(1)
  BY <1>1 DEF MarksInv, MarkAt
<1> QED BY <1>2, <1>3 DEF PackageAt

LEMMA ConstructorDelivered ==
    ASSUME ParserTypeOK, MarksInv, Deliver, calls[1] = "set_constructor"
    PROVE  /\ document'.constructor = document.local
           /\ \E r, i \in 1 .. Len(source) :
                 InResource(r) /\ Since("constructor", document.constructor, i)
<1>1. /\ calls \in Seq(CallKind) /\ calls # <<>> /\ Top = calls[1] /\ 1 \in 1 .. Len(calls)
  BY TailIs DEF Deliver, Running, Top, ParserTypeOK
<1>2. document'.constructor = document.local
  BY <1>1 DEF Deliver, Assigned, ParserTypeOK
<1>3. ConstructorAt(1)
  BY <1>1 DEF MarksInv, MarkAt
<1> QED BY <1>2, <1>3 DEF ConstructorAt

\* What the other assignments keep, and what all of them do.
LEMMA Delivered ==
    ASSUME ParserTypeOK, Deliver
    PROVE  /\ UNCHANGED source
           /\ calls[1] # "set_package" => document'.package = document.package
           /\ calls[1] # "set_package" => document.local \subseteq document'.names \union document'.constructor
           /\ document.names \subseteq document'.names
           /\ calls[1] # "set_constructor" =>
                 document.constructor \subseteq document'.names \union document'.constructor
<1>1. calls # <<>> /\ Top = calls[1] /\ Top \in Assignment
  BY TailIs DEF Deliver, Running, Top, ParserTypeOK
<1>2. document' = Assigned(calls[1], document) /\ UNCHANGED source
  BY <1>1 DEF Deliver
<1>3. CASE calls[1] = "keep"
  BY <1>2, <1>3 DEF Assigned, ParserTypeOK
<1>4. CASE calls[1] = "set_package"
  BY <1>2, <1>4 DEF Assigned, ParserTypeOK
<1>5. CASE calls[1] = "set_constructor"
  BY <1>2, <1>5 DEF Assigned, ParserTypeOK
<1>6. CASE calls[1] = "new_resource"
  BY <1>2, <1>6 DEF Assigned, ParserTypeOK
<1> QED BY <1>1, <1>3, <1>4, <1>5, <1>6 DEF Assignment

LEMMA PackageNamesStep ==
    ASSUME ParserInv, [ParserNext]_parserVars
    PROVE  PackageNames'
<1> USE DEF ParserInv
<1>1. CASE Deliver
  <2>1. CASE calls[1] = "set_package"
    <3>1. PICK i \in 1 .. Len(source) : Since("package", document.package, i)
      BY <1>1, <2>1, PackageDelivered
    <3>2. document'.package = document.local /\ source' = source
      BY <1>1, <2>1, PackageDelivered, Delivered
    <3>3. ASSUME NEW n \in document.local
          PROVE  \E j \in 1 .. n - 1 : source[j] = "package" /\ Clear(j, n)
      <4>1. n \in Nat /\ i < n /\ Clear(i, n) /\ source[i] = "package"
        BY <3>1 DEF Since, ParserTypeOK
      <4> QED BY <4>1
    <3> QED BY <3>2, <3>3 DEF PackageNames, Clear, Between
  <2>2. CASE calls[1] # "set_package"
    <3>1. document'.package = document.package /\ source' = source
      BY <1>1, <2>2, Delivered
    <3> QED BY <3>1 DEF PackageNames, Clear, Between
  <2> QED BY <2>1, <2>2
<1>2. ASSUME NEW t \in Token, Advance(t) PROVE PackageNames'
  <2>1. /\ document'.package = document.package /\ Len(source) \in Nat
        /\ \A k \in 1 .. Len(source) : source'[k] = source[k]
    BY <1>2, AdvanceIs
  <2>2. ASSUME NEW n \in document.package
        PROVE  \E i \in 1 .. n - 1 : source'[i] = "package" /\ Clear(i, n)'
    <3>1. n \in 1 .. Len(source)
      BY DEF ParserTypeOK
    <3>2. PICK i \in 1 .. n - 1 : source[i] = "package" /\ Clear(i, n)
      BY DEF PackageNames
    <3>3. i \in Nat /\ n \in Nat /\ n <= Len(source) + 1 /\ i \in 1 .. Len(source)
      BY <3>1, <2>1
    <3>4. Clear(i, n)'
      BY <1>2, <3>2, <3>3, ClearStays
    <3> QED BY <3>2, <3>3, <3>4, <2>1
  <2> QED BY <2>1, <2>2 DEF PackageNames
<1>3. CASE UNCHANGED <<source, document>>
  BY <1>3 DEF PackageNames, Clear, Between
<1>4. Deliver \/ (\E t \in Token : Advance(t)) \/ UNCHANGED <<source, document>>
  BY DEF ParserNext, parserVars, Enter, Finish, Choose, Fail
<1> QED BY <1>1, <1>2, <1>3, <1>4

LEMMA ParserInvInit == ParserInit => ParserInv
<1> SUFFICES ASSUME ParserInit PROVE PackageNames /\ MarksInv
  BY TypeInit DEF ParserInv
<1>1. PackageNames
  BY DEF ParserInit, PackageNames
<1>2. MarksInv
  <2> SUFFICES ASSUME NEW k \in 1 .. Len(calls) PROVE MarkAt(k)
    BY DEF MarksInv
  <2>1. calls[k] = "parse_document"
    BY DEF ParserInit
  <2> QED BY <2>1 DEF MarkAt
<1> QED BY <1>1, <1>2

LEMMA ParserInvStep ==
    ASSUME ParserInv, [ParserNext]_parserVars
    PROVE  ParserInv'
<1>1. ParserTypeOK' /\ PackageNames'
  BY TypeStep, PackageNamesStep DEF ParserInv
<1>2. MarksInv'
  <2> USE DEF ParserInv
  <2>1. calls \in Seq(CallKind)
    BY DEF ParserTypeOK
  <2>2. CASE Enter
    BY <2>1, <2>2, EnterMarks
  <2>3. CASE Deliver
    <3>1. document \in [names : SUBSET Nat, package : SUBSET Nat,
                        constructor : SUBSET Nat, local : SUBSET Nat]
      BY DEF ParserTypeOK
    <3> QED BY <2>1, <2>3, <3>1, DeliverMarks
  <2>4. ASSUME NEW t \in Token, Choose(t) PROVE MarksInv'
    BY <2>1, <2>4, ChooseMarks
  <2>5. ASSUME NEW t \in Token, Advance(t) PROVE MarksInv'
    BY <2>5, AdvanceMarks
  <2>6. ASSUME calls' = <<>> PROVE MarksInv'
    <3>1. 1 .. Len(calls') = {}
      BY <2>6
    <3> QED BY <3>1 DEF MarksInv
  <2>7. ASSUME UNCHANGED <<source, calls, document>> PROVE MarksInv'
    <3> USE <2>7
    <3> SUFFICES ASSUME NEW k \in 1 .. Len(calls') PROVE MarkAt(k)'
      BY DEF MarksInv
    <3>1. MarkAt(k)
      BY DEF MarksInv
    <3>2. PackageAt(k) => PackageAt(k)'
      BY DEF PackageAt, Since, Declaring, Begins, Clear, Between
    <3>3. ConstructorAt(k) => ConstructorAt(k)'
      BY DEF ConstructorAt, InResource, Since, Declaring, Begins, Clear, Between
    <3>4. BodyAt(k) => BodyAt(k)'
      BY DEF BodyAt, Opens, Begins
    <3>5. ItemsAt(k) => ItemsAt(k)'
      BY DEF ItemsAt, Opens, InResource, Clear, Between
    <3> QED BY <3>1, <3>2, <3>3, <3>4, <3>5 DEF MarkAt
  <2>8. \/ Enter \/ Deliver \/ \E t \in Token : Choose(t) \/ Advance(t)
        \/ calls' = <<>> \/ UNCHANGED <<source, calls, document>>
    BY DEF ParserNext, parserVars, Finish, Fail
  <2> QED BY <2>2, <2>3, <2>4, <2>5, <2>6, <2>7, <2>8
<1> QED BY <1>1, <1>2 DEF ParserInv

\* A package's names follow its keyword, a resource's constructor is inside
\* the resource, and whatever will deliver either is where its parse function
\* put it: parse_package, parse_constructor_func, parse_resource.
THEOREM ParserInvAlways == ParserSpec => []ParserInv
<1>1. ParserInit => ParserInv
  BY ParserInvInit
<1>2. ParserInv /\ [ParserNext]_parserVars => ParserInv'
  BY ParserInvStep
<1> QED BY <1>1, <1>2, PTL DEF ParserSpec

-----------------------------------------------------------------------------
(***************************************************************************)
(* The names of the input are in the document.                             *)
(***************************************************************************)

Held(n) == \/ n \in document.names \/ n \in document.package
           \/ n \in document.constructor \/ n \in document.local

Replaced(n) == \E i \in 1 .. n - 1, j \in n + 1 .. Len(source) : Replaces(j, i) /\ Clear(i, n)

NamesHeld == \A n \in 1 .. Len(source) : source[n] = "ident" => Held(n) \/ Replaced(n)

LEMMA HeldIsKept ==
    ASSUME ParserTypeOK, NamesHeld
    PROVE  NamesKept
<1> DEFINE kept == UNION {document[part] : part \in DOMAIN document}
           lost == {n \in DOMAIN source : source[n] = "ident"} \ kept
<1>1. DOMAIN source = 1 .. Len(source)
  BY DEF ParserTypeOK
<1>2. /\ document.names \subseteq kept /\ document.package \subseteq kept
      /\ document.constructor \subseteq kept /\ document.local \subseteq kept
  <2>1. DOMAIN document = {"names", "package", "constructor", "local"}
    BY DEF ParserTypeOK
  <2> QED BY <2>1
<1>3. ASSUME NEW n \in lost
      PROVE  \E i \in 1 .. n - 1, j \in n + 1 .. Len(source) :
                Replaces(j, i) /\ Between(i, n) \intersect {"semicolon", "rbrace"} = {}
  <2>1. n \in 1 .. Len(source) /\ source[n] = "ident" /\ n \notin kept
    BY <1>1
  <2>2. ~ Held(n)
    BY <2>1, <1>2 DEF Held
  <2>3. Replaced(n)
    BY <2>1, <2>2 DEF NamesHeld
  <2>4. PICK i \in 1 .. n - 1, j \in n + 1 .. Len(source) : Replaces(j, i) /\ Clear(i, n)
    BY <2>3 DEF Replaced
  <2>5. Between(i, n) \intersect {"semicolon", "rbrace"} = {}
    BY <2>4 DEF Clear
  <2> QED BY <2>4, <2>5
<1> QED BY <1>3 DEF NamesKept

LEMMA HeldStep ==
    ASSUME ParserInv, NamesHeld, [ParserNext]_parserVars
    PROVE  NamesHeld'
<1> USE DEF ParserInv
<1> SUFFICES ASSUME NEW n \in 1 .. Len(source'), source'[n] = "ident"
             PROVE  Held(n)' \/ Replaced(n)'
  BY DEF NamesHeld
<1>1. CASE Deliver
  <2>1. source' = source
    BY <1>1, Delivered
  <2>2. n \in 1 .. Len(source) /\ (Held(n) \/ Replaced(n))
    BY <2>1 DEF NamesHeld
  <2>3. CASE Replaced(n)
    BY <2>1, <2>3 DEF Replaced, Replaces, Clear, Between
  <2>4. CASE n \in document.package /\ calls[1] = "set_package"
    <3>1. PICK i \in 1 .. n - 1 : source[i] = "package" /\ Clear(i, n)
      BY <2>4 DEF PackageNames
    <3>2. PICK j \in 1 .. Len(source) : Since("package", document.package, j)
      BY <1>1, <2>4, PackageDelivered
    <3>3. source[j] = "package" /\ n < j
      BY <2>4, <3>2 DEF Since
    <3>4. j \in n + 1 .. Len(source)
      BY <2>2, <3>3
    <3>5. Replaces(j, i)
      BY <3>1, <3>3 DEF Replaces
    <3>6. Replaced(n)
      BY <3>1, <3>4, <3>5 DEF Replaced
    <3> QED BY <2>1, <3>6 DEF Replaced, Replaces, Clear, Between
  <2>5. CASE n \in document.constructor /\ calls[1] = "set_constructor"
    <3>1. PICK r \in 1 .. Len(source), j \in 1 .. Len(source) :
             InResource(r) /\ Since("constructor", document.constructor, j)
      BY <1>1, <2>5, ConstructorDelivered
    <3>2. PICK i \in r + 3 .. n - 1 : source[i] = "constructor" /\ Clear(i, n)
      BY <2>5, <3>1 DEF InResource
    <3>3. source[j] = "constructor" /\ n < j
      BY <2>5, <3>1 DEF Since
    <3>4. i \in 1 .. n - 1 /\ j \in n + 1 .. Len(source) /\ r \in 1 .. i - 3
      BY <2>2, <3>2, <3>3
    <3>5. "rbrace" \notin Between(r, j)
      <4>1. \A m \in r + 1 .. j - 1 : m \in r + 1 .. (Len(source) + 1) - 1
        BY <3>4, <2>2
      <4> QED BY <4>1, <3>1 DEF InResource, Between
    <3>6. Replaces(j, i)
      BY <3>1, <3>2, <3>3, <3>4, <3>5 DEF Replaces, InResource
    <3>7. Replaced(n)
      BY <3>2, <3>4, <3>6 DEF Replaced
    <3> QED BY <2>1, <3>7 DEF Replaced, Replaces, Clear, Between
  <2>6. CASE Held(n) /\ ~ (n \in document.package /\ calls[1] = "set_package")
                     /\ ~ (n \in document.constructor /\ calls[1] = "set_constructor")
    <3>1. CASE n \in document.local /\ calls[1] = "set_package"
      BY <3>1, <1>1, PackageDelivered DEF Held
    <3>2. CASE ~ (n \in document.local /\ calls[1] = "set_package")
      BY <3>2, <2>6, <1>1, Delivered DEF Held
    <3> QED BY <3>1, <3>2
  <2> QED BY <2>2, <2>3, <2>4, <2>5, <2>6
<1>2. ASSUME NEW t \in Token, Advance(t) PROVE Held(n)' \/ Replaced(n)'
  <2>1. /\ Len(source) \in Nat /\ Len(source') = Len(source) + 1
        /\ source'[Len(source) + 1] = t
        /\ \A k \in 1 .. Len(source) : source'[k] = source[k]
    BY <1>2, AdvanceIs
  <2>2. CASE n = Len(source) + 1
    <3>1. t = "ident"
      BY <2>1, <2>2
    <3>2. document'.local = document.local \union {Len(source) + 1}
      BY <1>2, <3>1, AdvanceIs
    <3> QED BY <2>2, <3>2 DEF Held
  <2>3. CASE n # Len(source) + 1
    <3>1. n \in 1 .. Len(source) /\ source[n] = "ident"
      BY <2>1, <2>3
    <3>2. CASE Held(n)
      BY <1>2, <3>2, AdvanceIs DEF Held
    <3>3. CASE Replaced(n)
      <4>1. PICK i \in 1 .. n - 1, j \in n + 1 .. Len(source) : Replaces(j, i) /\ Clear(i, n)
        BY <3>3 DEF Replaced
      <4>2. i \in 1 .. Len(source) /\ j \in 1 .. Len(source) /\ j \in n + 1 .. Len(source')
        BY <4>1, <3>1, <2>1
      <4>3. source'[i] = source[i] /\ source'[j] = source[j]
        BY <4>2, <2>1
      <4>4. Clear(i, n)'
        BY <4>1, <4>2, <3>1, <2>1, <1>2, ClearStays
      <4>5. Replaces(j, i)'
        <5>1. CASE source[i] = "package" /\ source[j] = "package"
          BY <5>1, <4>3 DEF Replaces
        <5>2. CASE ~ (source[i] = "package" /\ source[j] = "package")
          <6>1. PICK r \in 1 .. i - 3 : /\ source[r] = "resource" /\ source[r + 2] = "lbrace"
                                        /\ "rbrace" \notin Between(r, j)
            BY <5>2, <4>1 DEF Replaces
          <6>2. r \in 1 .. Len(source) /\ r + 2 \in 1 .. Len(source)
            BY <4>2
          <6>3. "rbrace" \notin Between(r, j)'
            BY <6>1, <6>2, <4>2, <2>1, <1>2, BetweenStays
          <6>4. source'[r] = "resource" /\ source'[r + 2] = "lbrace"
            BY <6>1, <6>2, <2>1
          <6> QED BY <6>1, <6>3, <6>4, <5>2, <4>1, <4>3 DEF Replaces
        <5> QED BY <5>1, <5>2
      <4> QED BY <4>1, <4>2, <4>4, <4>5 DEF Replaced
    <3> QED BY <3>1, <3>2, <3>3 DEF NamesHeld
  <2> QED BY <2>2, <2>3
<1>3. CASE UNCHANGED <<source, document>>
  <2>1. Held(n) \/ Replaced(n)
    BY <1>3 DEF NamesHeld
  <2> QED BY <1>3, <2>1 DEF Held, Replaced, Replaces, Clear, Between
<1>4. Deliver \/ (\E t \in Token : Advance(t)) \/ UNCHANGED <<source, document>>
  BY DEF ParserNext, parserVars, Enter, Finish, Choose, Fail
<1> QED BY <1>1, <1>2, <1>3, <1>4

\* Whatever the input is, no identifier is lost between the token and the
\* document but in a package or a constructor that a later one replaced: a
\* constructor of one resource never takes the place of another's, and no
\* assignment happens while names of something else are held.
THEOREM NamesKeptAlways == ParserSpec => []NamesKept
<1>1. ParserInit => NamesHeld
  BY DEF ParserInit, NamesHeld
<1>2. ParserInv /\ NamesHeld /\ [ParserNext]_parserVars => NamesHeld'
  BY HeldStep
<1>3. ParserInv /\ NamesHeld => NamesKept
  BY HeldIsKept DEF ParserInv
<1> QED BY <1>1, <1>2, <1>3, ParserInvAlways, PTL DEF ParserSpec

=============================================================================
