------------------------------ MODULE FlagSet ------------------------------
(***************************************************************************)
(* FlagSet of src/wit_types.rs: sets of flags as bit masks over the member *)
(* list of a flags type.  A mask is the set of its bits.                   *)
(***************************************************************************)
EXTENDS Naturals, Sequences

CONSTANTS
    Flag,           \* names of flags
    Variable,       \* variables of a program that hold flag sets
    Width,          \* bits in a mask (64)
    OverflowChecks  \* TRUE: a shift by Width or more panics (debug); FALSE: it wraps

ASSUME FlagAssumption == Width \in Nat \ {0} /\ OverflowChecks \in BOOLEAN

VARIABLE sets    \* the flag set in each variable, with the flags it stands for

\* Names that were never mixed with those of another member list are known.
FlagSets == [members : Seq(Flag), value : SUBSET (0 .. Width - 1),
             names : SUBSET Flag, known : BOOLEAN]

FlagsInit == sets = [x \in {} |-> <<>>]

ToMembers(s) == {s.members[k] : k \in DOMAIN s.members}

\* The position of a flag that is a member, from 0.
Position(s, f) ==
    (CHOOSE k \in DOMAIN s.members :
        s.members[k] = f /\ \A j \in DOMAIN s.members : s.members[j] = f => k <= j) - 1

Panics(s, f) == OverflowChecks /\ Position(s, f) >= Width
\* Slip: the shift is done in a narrower integer than the mask.
BitNarrow(s, f) == Position(s, f) % ((Width + 1) \div 2)
Bit(s, f) == Position(s, f) % Width

Assign(x, s) == sets' = [y \in DOMAIN sets \union {x} |-> IF y = x THEN s ELSE sets[y]]

NewFlags(x, members) ==
    Assign(x, [members |-> members, value |-> {}, names |-> {}, known |-> TRUE])

\* set, clear and contains do nothing for a flag that is no member.
SetFlag(x, f) ==
    LET s == sets[x] IN
    /\ f \in ToMembers(s) /\ ~ Panics(s, f)
    /\ Assign(x, [s EXCEPT !.value = @ \union {Bit(s, f)}, !.names = @ \union {f}])

ClearFlag(x, f) ==
    LET s == sets[x] IN
    /\ f \in ToMembers(s) /\ ~ Panics(s, f)
    /\ Assign(x, [s EXCEPT !.value = @ \ {Bit(s, f)}, !.names = @ \ {f}])

Contains(s, f) == Bit(s, f) \in s.value

Together(s, t) == s.known /\ t.known /\ s.members = t.members

\* union and intersection combine bits, whatever the two member lists are.
UnionTo(x, y, z) ==
    LET s == sets[y]  t == sets[z] IN
    Assign(x, [members |-> s.members, value |-> s.value \union t.value,
               names |-> s.names \union t.names, known |-> Together(s, t)])

IntersectionTo(x, y, z) ==
    LET s == sets[y]  t == sets[z] IN
    Assign(x, [members |-> s.members, value |-> s.value \intersect t.value,
               names |-> s.names \intersect t.names, known |-> Together(s, t)])

FlagsNext ==
    \/ \E x \in DOMAIN sets, f \in Flag : SetFlag(x, f) \/ ClearFlag(x, f)
    \/ \E x \in Variable, y, z \in DOMAIN sets : UnionTo(x, y, z) \/ IntersectionTo(x, y, z)

-----------------------------------------------------------------------------
(***************************************************************************)
(* Properties.                                                             *)
(***************************************************************************)

FlagsTypeOK == DOMAIN sets \subseteq Variable /\ sets \in [DOMAIN sets -> FlagSets]

\* A mask stands for the set of the names that were set and not cleared, through
\* unions and intersections of sets with one member list: two members never share
\* a bit.  In a release build that needs no more members than bits.
FlagsAreNames ==
    \A x \in DOMAIN sets :
        LET s == sets[x] IN
        /\ s.known
        /\ OverflowChecks \/ Len(s.members) <= Width
        => \A f \in ToMembers(s) : Panics(s, f) \/ (Contains(s, f) <=> f \in s.names)
=============================================================================
