------------------------- MODULE FilesystemProofs --------------------------
(***************************************************************************)
(* What the filesystem and its virtual wrapper promise, for any names,     *)
(* bytes and bounds.  The nodes stay typed and have one name each at most  *)
(* (TreeOK; loops cut off from the root are not excluded): first comes     *)
(* what a walk and the edits of such nodes do, then each call as one or    *)
(* more edits, then the theorems.                                          *)
(***************************************************************************)
EXTENDS VirtualFs, WellFoundedInduction, SequenceTheorems, FiniteSetTheorems, TLAPS

-----------------------------------------------------------------------------
(***************************************************************************)
(* Induction, and sequences by their last element.                         *)
(***************************************************************************)

Below == {ij \in Nat \X Nat : ij[1] < ij[2]}

\* Induction over a set of numbers.
LEMMA NatSetInduction ==
    ASSUME NEW P \in SUBSET Nat, 0 \in P, \A n \in P : n + 1 \in P
    PROVE  P = Nat
<1> SUFFICES ASSUME Nat \ P # {} PROVE FALSE
  OBVIOUS
<1>1. IsWellFoundedOn(Below, Nat)
  BY NatLessThanWellFounded DEF Below, OpToRel
<1>2. PICK i \in Nat \ P : \A j \in Nat \ P : ~ (<<j, i>> \in Below)
  BY <1>1, WFMin, Zenon
<1>3. i # 0 /\ i - 1 \in Nat
  OBVIOUS
<1>4. <<i - 1, i>> \in Nat \X Nat /\ <<i - 1, i>>[1] < <<i - 1, i>>[2]
  BY <1>3
<1>5. i - 1 \notin Nat \ P
  BY <1>2, <1>4 DEF Below
<1> QED BY <1>3, <1>5

\* Induction over a set of sequences.
LEMMA SeqSetInduction ==
    ASSUME NEW T, NEW P \in SUBSET Seq(T), <<>> \in P,
           \A s \in P : \A x \in T : Append(s, x) \in P
    PROVE  P = Seq(T)
<1> DEFINE N == {n \in Nat : \A s \in Seq(T) : Len(s) = n => s \in P}
<1>1. 0 \in N
  BY EmptySeq
<1>2. ASSUME NEW n \in N PROVE n + 1 \in N
  <2> SUFFICES ASSUME NEW s \in Seq(T), Len(s) = n + 1 PROVE s \in P
    OBVIOUS
  <2>1. s # <<>>
    BY EmptySeq
  <2>2. PICK t \in Seq(T) : \E x \in T : s = Append(t, x)
    BY <2>1, SequenceEmptyOrAppend
  <2>3. PICK x \in T : s = Append(t, x)
    BY <2>2
  <2>4. Len(s) = Len(t) + 1 /\ Len(t) \in Nat
    BY <2>3, AppendProperties, LenProperties
  <2>5. t \in P
    BY <2>4
  <2> QED BY <2>3, <2>5
<1>3. N = Nat
  BY <1>1, <1>2, NatSetInduction
<1>4. ASSUME NEW s \in Seq(T) PROVE s \in P
  BY <1>3, LenProperties
<1> QED BY <1>4

\* A sequence that is not empty is its front followed by its last element.
LEMMA FrontAndLast ==
    ASSUME NEW T, NEW s \in Seq(T), s # <<>>
    PROVE  Front(s) \in Seq(T) /\ Last(s) \in T /\ s = Append(Front(s), Last(s))
<1>1. PICK t \in Seq(T) : \E x \in T : s = Append(t, x)
  BY SequenceEmptyOrAppend
<1>2. PICK x \in T : s = Append(t, x)
  BY <1>1
<1>3. /\ Len(t) \in Nat /\ Len(s) = Len(t) + 1 /\ s[Len(t) + 1] = x
      /\ \A i \in 1 .. Len(t) : s[i] = t[i]
  BY <1>2, AppendProperties, LenProperties
<1>4. Last(s) = x
  BY <1>3 DEF Last
<1>5. Front(s) = SubSeq(s, 1, Len(t))
  BY <1>3 DEF Front
<1>6. \A i \in 1 .. Len(t) : s[i] \in T
  BY <1>3, ElementOfSeq
<1>7. /\ SubSeq(s, 1, Len(t)) \in Seq(T)
      /\ Len(SubSeq(s, 1, Len(t))) = Len(t)
      /\ \A i \in 1 .. Len(t) : SubSeq(s, 1, Len(t))[i] = s[i]
  BY <1>3, <1>6, SubSeqProperties
<1>8. SubSeq(s, 1, Len(t)) = t
  BY <1>3, <1>7, SeqEqual
<1> QED BY <1>2, <1>4, <1>5, <1>8

\* The prefixes of a sequence and of the same with one more element.
LEMMA PrefixOfAppend ==
    ASSUME NEW T, NEW s \in Seq(T), NEW x \in T
    PROVE  /\ \A k \in 1 .. Len(s) : SubSeq(Append(s, x), 1, k) = SubSeq(s, 1, k)
           /\ SubSeq(Append(s, x), 1, Len(s) + 1) = Append(s, x)
<1>1. /\ Append(s, x) \in Seq(T) /\ Len(Append(s, x)) = Len(s) + 1 /\ Len(s) \in Nat
      /\ \A i \in 1 .. Len(s) : Append(s, x)[i] = s[i]
  BY AppendProperties, LenProperties
<1>2. ASSUME NEW k \in 1 .. Len(s)
      PROVE  SubSeq(Append(s, x), 1, k) = SubSeq(s, 1, k)
  <2>1. \A i \in 1 .. k : s[i] \in T /\ Append(s, x)[i] = s[i]
    BY <1>1, ElementOfSeq
  <2>2. /\ SubSeq(s, 1, k) \in Seq(T) /\ Len(SubSeq(s, 1, k)) = k
        /\ \A i \in 1 .. k : SubSeq(s, 1, k)[i] = s[i]
    BY <2>1, <1>1, SubSeqProperties
  <2>3. \A i \in 1 .. k : Append(s, x)[i] \in T
    BY <2>1
  <2>4. /\ SubSeq(Append(s, x), 1, k) \in Seq(T) /\ Len(SubSeq(Append(s, x), 1, k)) = k
        /\ \A i \in 1 .. k : SubSeq(Append(s, x), 1, k)[i] = Append(s, x)[i]
    BY <2>3, <1>1, SubSeqProperties
  <2>5. \A i \in 1 .. k : SubSeq(Append(s, x), 1, k)[i] = SubSeq(s, 1, k)[i]
    BY <2>1, <2>2, <2>4
  <2> QED BY <2>2, <2>4, <2>5, SeqEqual
<1>3. SubSeq(Append(s, x), 1, Len(s) + 1) = Append(s, x)
  BY <1>1, SubSeqFull
<1> QED BY <1>2, <1>3

\* A bounded sequence is a sequence.
LEMMA BoundedIsSeq ==
    ASSUME NEW T, NEW n \in Nat
    PROVE  \A s : s \in SeqOf(T, n) <=> s \in Seq(T) /\ Len(s) <= n
<1>1. ASSUME NEW s \in SeqOf(T, n) PROVE s \in Seq(T) /\ Len(s) <= n
  <2>1. PICK m \in 0 .. n : s \in [1 .. m -> T]
    BY DEF SeqOf
  <2> QED BY <2>1
<1>2. ASSUME NEW s \in Seq(T), Len(s) <= n PROVE s \in SeqOf(T, n)
  <2>1. Len(s) \in 0 .. n /\ s \in [1 .. Len(s) -> T]
    BY <1>2, LenProperties
  <2> QED BY <2>1 DEF SeqOf
<1> QED BY <1>1, <1>2

-----------------------------------------------------------------------------
(***************************************************************************)
(* A walk, name by name.                                                   *)
(***************************************************************************)

\* One step of a walk.
Look(ns, i, name) ==
    IF i < 0 THEN i
    ELSE IF ~ ns[i].dir THEN NotDir
    ELSE IF name \in DOMAIN ns[i].entries THEN ns[i].entries[name]
    ELSE NoEntry

Walks(ns, d, path, n, at) ==
    at = [k \in 0 .. n |->
             IF k = 0 THEN d
             ELSE LET i == at[k - 1] IN
                  IF i < 0 THEN i
                  ELSE IF ~ ns[i].dir THEN NotDir
                  ELSE IF path[k] \in DOMAIN ns[i].entries THEN ns[i].entries[path[k]]
                  ELSE NoEntry]
StepByStep(ns, d, path, n, at) ==
    at[0] = d /\ \A k \in 1 .. n : at[k] = Look(ns, at[k - 1], path[k])

LEMMA WalkEquations ==
    ASSUME NEW ns, NEW d, NEW path, NEW n \in Nat, NEW at, Walks(ns, d, path, n, at)
    PROVE  StepByStep(ns, d, path, n, at)
<1> DEFINE h == [k \in 0 .. n |-> IF k = 0 THEN d ELSE Look(ns, at[k - 1], path[k])]
<1>1. at = h
  BY DEF Walks, Look
<1>2. h[0] = d /\ \A k \in 1 .. n : h[k] = Look(ns, at[k - 1], path[k])
  OBVIOUS
<1> HIDE DEF h
<1>3. at[0] = h[0] /\ \A k \in 1 .. n : at[k] = h[k]
  BY <1>1
<1> QED BY <1>2, <1>3 DEF StepByStep

LEMMA WalkExists ==
    ASSUME NEW ns, NEW d, NEW path, NEW n \in Nat
    PROVE  \E at : Walks(ns, d, path, n, at)
<1> DEFINE N == {m \in Nat : \E at : Walks(ns, d, path, m, at)}
<1>1. 0 \in N
  <2>1. Walks(ns, d, path, 0, [k \in 0 .. 0 |-> d])
    BY DEF Walks
  <2> QED BY <2>1
<1>2. ASSUME NEW m \in N PROVE m + 1 \in N
  <2>1. PICK f : Walks(ns, d, path, m, f)
    OBVIOUS
  <2>2. m \in Nat
    OBVIOUS
  <2>3. StepByStep(ns, d, path, m, f)
    BY ONLY <2>1, <2>2, WalkEquations
  <2>4. f[0] = d /\ \A k \in 1 .. m : f[k] = Look(ns, f[k - 1], path[k])
    BY <2>3 DEF StepByStep
  <2> DEFINE g == [k \in 0 .. m + 1 |-> IF k <= m THEN f[k] ELSE Look(ns, f[k - 1], path[k])]
  <2>5. /\ \A k \in 0 .. m : g[k] = f[k]
        /\ g[m + 1] = Look(ns, f[m], path[m + 1])
    OBVIOUS
  <2> DEFINE h == [k \in 0 .. m + 1 |-> IF k = 0 THEN d ELSE Look(ns, g[k - 1], path[k])]
  <2>6. ASSUME NEW k \in 0 .. m + 1 PROVE g[k] = h[k]
    <3> HIDE DEF g
    <3>1. CASE k = 0
      BY <2>5, <2>4, <3>1
    <3>2. CASE k \in 1 .. m
      BY <2>5, <2>4, <3>2
    <3>3. CASE k = m + 1
      BY <2>5, <3>3
    <3> QED BY <3>1, <3>2, <3>3
  <2>7. g = h
    BY <2>6
  <2>8. Walks(ns, d, path, m + 1, g)
    BY <2>7 DEF Walks, Look
  <2> QED BY <2>8
<1>3. N = Nat
  BY <1>1, <1>2, NatSetInduction
<1> QED BY <1>3

LEMMA WalkIs ==
    ASSUME NEW ns, NEW d, NEW T, NEW path \in Seq(T)
    PROVE  \E at : WalkIn(ns, d, path) = at[Len(path)] /\ StepByStep(ns, d, path, Len(path), at)
<1>1. Len(path) \in Nat
  BY LenProperties
<1> DEFINE at == CHOOSE f : Walks(ns, d, path, Len(path), f)
<1>2. Walks(ns, d, path, Len(path), at)
  BY <1>1, WalkExists
<1>3. WalkIn(ns, d, path) = at[Len(path)]
  BY DEF WalkIn, Walks
<1> QED BY <1>1, <1>2, <1>3, WalkEquations

\* A walk of no name stays; a walk of one more name looks it up where it was.
NameByName(ns, d, T) ==
    /\ WalkIn(ns, d, <<>>) = d
    /\ \A s \in Seq(T) : \A x \in T :
          WalkIn(ns, d, Append(s, x)) = Look(ns, WalkIn(ns, d, s), x)

LEMMA WalkStep ==
    ASSUME NEW ns, NEW d, NEW T
    PROVE  NameByName(ns, d, T)
<1>1. WalkIn(ns, d, <<>>) = d
  <2>1. <<>> \in Seq(T) /\ Len(<<>>) = 0
    BY EmptySeq
  <2>2. PICK at : WalkIn(ns, d, <<>>) = at[0] /\ StepByStep(ns, d, <<>>, 0, at)
    BY <2>1, WalkIs
  <2> QED BY <2>2 DEF StepByStep
<1>2. ASSUME NEW s \in Seq(T), NEW x \in T
      PROVE  WalkIn(ns, d, Append(s, x)) = Look(ns, WalkIn(ns, d, s), x)
  <2> DEFINE t == Append(s, x)
             n == Len(s)
  <2>1. /\ t \in Seq(T) /\ Len(t) = n + 1 /\ n \in Nat /\ t[n + 1] = x
        /\ \A k \in 1 .. n : t[k] = s[k]
    BY AppendProperties, LenProperties
  <2> HIDE DEF t, n
  <2>2. PICK f : WalkIn(ns, d, t) = f[n + 1] /\ StepByStep(ns, d, t, n + 1, f)
    BY <2>1, WalkIs
  <2>3. PICK g : WalkIn(ns, d, s) = g[n] /\ StepByStep(ns, d, s, n, g)
    BY WalkIs DEF n
  <2> DEFINE N == {m \in Nat : m <= n => f[m] = g[m]}
  <2>4. 0 \in N
    BY <2>2, <2>3 DEF StepByStep
  <2>5. ASSUME NEW m \in N PROVE m + 1 \in N
    <3> SUFFICES ASSUME m + 1 <= n PROVE f[m + 1] = g[m + 1]
      OBVIOUS
    <3>1. m + 1 \in 1 .. n /\ m + 1 \in 1 .. n + 1 /\ (m + 1) - 1 = m /\ f[m] = g[m]
      BY <2>1
    <3>2. f[m + 1] = Look(ns, f[m], t[m + 1])
      BY <2>2, <3>1 DEF StepByStep
    <3>3. g[m + 1] = Look(ns, g[m], s[m + 1])
      BY <2>3, <3>1 DEF StepByStep
    <3> QED BY <2>1, <3>1, <3>2, <3>3
  <2>6. N = Nat
    BY <2>4, <2>5, NatSetInduction
  <2>7. f[n] = g[n]
    BY <2>1, <2>6
  <2>8. n + 1 \in 1 .. n + 1 /\ (n + 1) - 1 = n
    BY <2>1
  <2>9. f[n + 1] = Look(ns, f[n], t[n + 1])
    BY <2>2, <2>8 DEF StepByStep
  <2> QED BY <2>1, <2>2, <2>3, <2>7, <2>9 DEF t
<1> QED BY <1>1, <1>2 DEF NameByName

-----------------------------------------------------------------------------
(***************************************************************************)
(* create_directory_at, component by component.                            *)
(***************************************************************************)

Stages(st, path, n, at) ==
    at = [k \in 0 .. n |-> IF k = 0 THEN st ELSE Descend(at[k - 1], path[k])]
StageByStage(st, path, n, at) ==
    at[0] = st /\ \A k \in 1 .. n : at[k] = Descend(at[k - 1], path[k])

LEMMA StageEquations ==
    ASSUME NEW st, NEW path, NEW n \in Nat, NEW at, Stages(st, path, n, at)
    PROVE  StageByStage(st, path, n, at)
<1> DEFINE h == [k \in 0 .. n |-> IF k = 0 THEN st ELSE Descend(at[k - 1], path[k])]
<1>1. at = h
  BY DEF Stages
<1>2. h[0] = st /\ \A k \in 1 .. n : h[k] = Descend(at[k - 1], path[k])
  OBVIOUS
<1> HIDE DEF h
<1>3. at[0] = h[0] /\ \A k \in 1 .. n : at[k] = h[k]
  BY <1>1
<1> QED BY <1>2, <1>3 DEF StageByStage

LEMMA StageExists ==
    ASSUME NEW st, NEW path, NEW n \in Nat
    PROVE  \E at : Stages(st, path, n, at)
<1> DEFINE N == {m \in Nat : \E at : Stages(st, path, m, at)}
<1>1. 0 \in N
  <2>1. Stages(st, path, 0, [k \in 0 .. 0 |-> st])
    BY DEF Stages
  <2> QED BY <2>1
<1>2. ASSUME NEW m \in N PROVE m + 1 \in N
  <2>1. PICK f : Stages(st, path, m, f)
    OBVIOUS
  <2>2. m \in Nat
    OBVIOUS
  <2>3. StageByStage(st, path, m, f)
    BY ONLY <2>1, <2>2, StageEquations
  <2>4. f[0] = st /\ \A k \in 1 .. m : f[k] = Descend(f[k - 1], path[k])
    BY <2>3 DEF StageByStage
  <2> DEFINE g == [k \in 0 .. m + 1 |-> IF k <= m THEN f[k] ELSE Descend(f[k - 1], path[k])]
  <2>5. /\ \A k \in 0 .. m : g[k] = f[k]
        /\ g[m + 1] = Descend(f[m], path[m + 1])
    OBVIOUS
  <2> DEFINE h == [k \in 0 .. m + 1 |-> IF k = 0 THEN st ELSE Descend(g[k - 1], path[k])]
  <2>6. ASSUME NEW k \in 0 .. m + 1 PROVE g[k] = h[k]
    <3> HIDE DEF g
    <3>1. CASE k = 0
      BY <2>5, <2>4, <3>1
    <3>2. CASE k \in 1 .. m
      BY <2>5, <2>4, <3>2
    <3>3. CASE k = m + 1
      BY <2>5, <3>3
    <3> QED BY <3>1, <3>2, <3>3
  <2>7. g = h
    BY <2>6
  <2>8. Stages(st, path, m + 1, g)
    BY <2>7 DEF Stages
  <2> QED BY <2>8
<1>3. N = Nat
  BY <1>1, <1>2, NatSetInduction
<1> QED BY <1>3

LEMMA StageIs ==
    ASSUME NEW st, NEW T, NEW path \in Seq(T)
    PROVE  \E at : Descended(st, path) = at[Len(path)] /\ StageByStage(st, path, Len(path), at)
<1>1. Len(path) \in Nat
  BY LenProperties
<1> DEFINE at == CHOOSE f : Stages(st, path, Len(path), f)
<1>2. Stages(st, path, Len(path), at)
  BY <1>1, StageExists
<1>3. Descended(st, path) = at[Len(path)]
  BY DEF Descended, Stages
<1> QED BY <1>1, <1>2, <1>3, StageEquations

\* No name leaves the state; one more name is one more iteration.
PartByPart(st, T) ==
    /\ Descended(st, <<>>) = st
    /\ \A s \in Seq(T) : \A x \in T :
          Descended(st, Append(s, x)) = Descend(Descended(st, s), x)

LEMMA DescendedStep ==
    ASSUME NEW st, NEW T
    PROVE  PartByPart(st, T)
<1>1. Descended(st, <<>>) = st
  <2>1. <<>> \in Seq(T) /\ Len(<<>>) = 0
    BY EmptySeq
  <2>2. PICK at : Descended(st, <<>>) = at[0] /\ StageByStage(st, <<>>, 0, at)
    BY <2>1, StageIs
  <2> QED BY <2>2 DEF StageByStage
<1>2. ASSUME NEW s \in Seq(T), NEW x \in T
      PROVE  Descended(st, Append(s, x)) = Descend(Descended(st, s), x)
  <2> DEFINE t == Append(s, x)
             n == Len(s)
  <2>1. /\ t \in Seq(T) /\ Len(t) = n + 1 /\ n \in Nat /\ t[n + 1] = x
        /\ \A k \in 1 .. n : t[k] = s[k]
    BY AppendProperties, LenProperties
  <2> HIDE DEF t, n
  <2>2. PICK f : Descended(st, t) = f[n + 1] /\ StageByStage(st, t, n + 1, f)
    BY <2>1, StageIs
  <2>3. PICK g : Descended(st, s) = g[n] /\ StageByStage(st, s, n, g)
    BY StageIs DEF n
  <2> DEFINE N == {m \in Nat : m <= n => f[m] = g[m]}
  <2>4. 0 \in N
    BY <2>2, <2>3 DEF StageByStage
  <2>5. ASSUME NEW m \in N PROVE m + 1 \in N
    <3> SUFFICES ASSUME m + 1 <= n PROVE f[m + 1] = g[m + 1]
      OBVIOUS
    <3>1. m + 1 \in 1 .. n /\ m + 1 \in 1 .. n + 1 /\ (m + 1) - 1 = m /\ f[m] = g[m]
      BY <2>1
    <3>2. f[m + 1] = Descend(f[m], t[m + 1])
      BY <2>2, <3>1 DEF StageByStage
    <3>3. g[m + 1] = Descend(g[m], s[m + 1])
      BY <2>3, <3>1 DEF StageByStage
    <3> QED BY <2>1, <3>1, <3>2, <3>3
  <2>6. N = Nat
    BY <2>4, <2>5, NatSetInduction
  <2>7. f[n] = g[n]
    BY <2>1, <2>6
  <2>8. n + 1 \in 1 .. n + 1 /\ (n + 1) - 1 = n
    BY <2>1
  <2>9. f[n + 1] = Descend(f[n], t[n + 1])
    BY <2>2, <2>8 DEF StageByStage
  <2> QED BY <2>1, <2>2, <2>3, <2>7, <2>9 DEF t
<1> QED BY <1>1, <1>2 DEF PartByPart

-----------------------------------------------------------------------------
(***************************************************************************)
(* Trees, and their edits.                                                 *)
(***************************************************************************)

Content == SeqOf(Byte \union {Zero}, MaxSize)
Entries == UNION {[S -> Nat] : S \in SUBSET Name}
Node == [dir : BOOLEAN, data : Content, entries : Entries]

\* A file has no entries and a directory no data.
OfAKind(node) == IF node.dir THEN node.data = <<>> ELSE DOMAIN node.entries = {}

\* The nodes ns are m: entries lead to nodes other than the root, and no two to the
\* same one.
TreeOK(ns, m) ==
    /\ m \in Nat \ {0}
    /\ ns \in [0 .. m - 1 -> Node]
    /\ ns[Root].dir
    /\ \A i \in 0 .. m - 1 : OfAKind(ns[i])
    /\ \A i \in 0 .. m - 1 : \A n \in DOMAIN ns[i].entries : ns[i].entries[n] \in 1 .. m - 1
    /\ \A i, j \in 0 .. m - 1 :
           \A n \in DOMAIN ns[i].entries, k \in DOMAIN ns[j].entries :
               ns[i].entries[n] = ns[j].entries[k] => i = j /\ n = k

NamedIn(ns, i) == \E d \in DOMAIN ns : \E n \in DOMAIN ns[d].entries : ns[d].entries[n] = i

\* Of the m nodes ns, every one is kept in ns2 as a file or a directory, and none
\* gets a name that had none.
Keeps(ns, m, ns2, m2) ==
    /\ TreeOK(ns2, m2) /\ m <= m2
    /\ \A i \in 0 .. m - 1 : ns2[i].dir = ns[i].dir
    /\ \A i \in 0 .. m - 1 : NamedIn(ns2, i) => NamedIn(ns, i)
\* A name that ns had not leads to a new node, from a lower one.
Grows(ns, m, ns2) ==
    \A d \in DOMAIN ns2 : \A n \in DOMAIN ns2[d].entries :
        \/ /\ d \in 0 .. m - 1 /\ n \in DOMAIN ns[d].entries
           /\ ns[d].entries[n] = ns2[d].entries[n]
        \/ d < ns2[d].entries[n] /\ m <= ns2[d].entries[n]
Evolves(ns, m, ns2, m2) == Keeps(ns, m, ns2, m2) /\ Grows(ns, m, ns2)
SameData(ns, m, ns2) == \A i \in 0 .. m - 1 : ns2[i].data = ns[i].data
\* No entry is lost or changed.
SameEntries(ns, m, ns2) ==
    \A i \in 0 .. m - 1 : \A n \in DOMAIN ns[i].entries :
        n \in DOMAIN ns2[i].entries /\ ns2[i].entries[n] = ns[i].entries[n]

LEMMA TreeSize == ASSUME NEW ns, NEW m, TreeOK(ns, m)
                  PROVE  DOMAIN ns = 0 .. m - 1 /\ Cardinality(DOMAIN ns) = m
<1>1. DOMAIN ns = 0 .. m - 1 /\ m \in Nat \ {0}
  BY DEF TreeOK
<1>2. 0 \in Int /\ m - 1 \in Int /\ ~ (0 > m - 1) /\ m - 1 - 0 + 1 = m
  BY <1>1
<1> QED BY <1>1, <1>2, FS_Interval

LEMMA NoEntries == <<>> \in Entries /\ [n \in {} |-> Root] \in Entries
<1>1. <<>> \in [{} -> Nat] /\ [n \in {} |-> Root] \in [{} -> Nat]
  OBVIOUS
<1>2. {} \in SUBSET Name
  OBVIOUS
<1> QED BY <1>1, <1>2 DEF Entries

LEMMA NewNodes ==
    /\ EmptyDirectory \in Node /\ EmptyDirectory.dir
    /\ EmptyDirectory.data = <<>> /\ DOMAIN EmptyDirectory.entries = {}
    /\ \A data \in Content : /\ File(data) \in Node /\ ~ File(data).dir
                             /\ File(data).data = data /\ DOMAIN File(data).entries = {}
    /\ <<>> \in Content
<1>1. <<>> \in Content
  <2>1. <<>> \in Seq(Byte \union {Zero}) /\ Len(<<>>) = 0 /\ MaxSize \in Nat
    BY EmptySeq, FsAssumption
  <2>2. \A s : s \in Content <=> s \in Seq(Byte \union {Zero}) /\ Len(s) <= MaxSize
    BY ONLY <2>1, BoundedIsSeq DEF Content
  <2>3. <<>> \in Content <=> <<>> \in Seq(Byte \union {Zero}) /\ Len(<<>>) <= MaxSize
    BY ONLY <2>2
  <2> QED BY <2>1, <2>3
<1>2. DOMAIN [n \in {} |-> Root] = {} /\ DOMAIN <<>> = {}
  OBVIOUS
<1>3. /\ EmptyDirectory \in Node /\ EmptyDirectory.dir
      /\ EmptyDirectory.data = <<>> /\ DOMAIN EmptyDirectory.entries = {}
  BY <1>1, <1>2, NoEntries DEF EmptyDirectory, Directory, Node
<1>4. ASSUME NEW data \in Content
      PROVE  /\ File(data) \in Node /\ ~ File(data).dir
             /\ File(data).data = data /\ DOMAIN File(data).entries = {}
  BY <1>2, NoEntries DEF File, Node
<1> QED BY <1>1, <1>3, <1>4

\* An entry set is a function of its names.
LEMMA EntriesAre ==
    ASSUME NEW e \in Entries
    PROVE  DOMAIN e \subseteq Name /\ e \in [DOMAIN e -> Nat]
<1>1. PICK S \in SUBSET Name : e \in [S -> Nat]
  BY DEF Entries
<1> QED BY <1>1

\* The nodes b are ns with the name of p bound to i.
BoundAt(ns, m, b, p, name, i) ==
    /\ b \in [0 .. m - 1 -> Node]
    /\ \A k \in 0 .. m - 1 : b[k].dir = ns[k].dir /\ b[k].data = ns[k].data
    /\ \A k \in 0 .. m - 1 : k # p => b[k].entries = ns[k].entries
    /\ DOMAIN b[p].entries = DOMAIN ns[p].entries \union {name}
    /\ b[p].entries[name] = i
    /\ \A n \in DOMAIN ns[p].entries : n # name => b[p].entries[n] = ns[p].entries[n]

LEMMA BindIs ==
    ASSUME NEW ns, NEW m, TreeOK(ns, m), NEW p \in 0 .. m - 1, NEW name \in Name, NEW i \in Nat
    PROVE  BoundAt(ns, m, Bind(ns, p, name, i), p, name, i)
<1> DEFINE old == ns[p].entries
           new == [n \in DOMAIN old \union {name} |-> IF n = name THEN i ELSE old[n]]
           b == [ns EXCEPT ![p].entries = new]
<1>1. Bind(ns, p, name, i) = b
  BY DEF Bind
<1>2. ns \in [0 .. m - 1 -> Node]
  BY DEF TreeOK
<1>3. old \in Entries /\ ns[p] \in Node
  BY <1>2 DEF Node
<1>4. DOMAIN old \subseteq Name /\ old \in [DOMAIN old -> Nat]
  BY <1>3, EntriesAre
<1>5. new \in [DOMAIN old \union {name} -> Nat]
  BY <1>4
<1>6. new \in Entries
  <2>1. DOMAIN old \union {name} \in SUBSET Name
    BY <1>4
  <2> QED BY <2>1, <1>5 DEF Entries
<1>7. /\ DOMAIN new = DOMAIN old \union {name} /\ new[name] = i
      /\ \A n \in DOMAIN old : n # name => new[n] = old[n]
  OBVIOUS
<1> HIDE DEF new
<1>8. /\ b \in [0 .. m - 1 -> Node]
      /\ \A k \in 0 .. m - 1 : k # p => b[k] = ns[k]
      /\ b[p].dir = ns[p].dir /\ b[p].data = ns[p].data /\ b[p].entries = new
  BY <1>2, <1>3, <1>6 DEF Node
<1> HIDE DEF b
<1> QED BY <1>1, <1>7, <1>8 DEF BoundAt

LEMMA BindTree ==
    ASSUME NEW ns, NEW m, TreeOK(ns, m), NEW p \in 0 .. m - 1, ns[p].dir,
           NEW name \in Name, NEW i \in 1 .. m - 1, ~ NamedIn(ns, i)
    PROVE  LET b == Bind(ns, p, name, i) IN
           /\ TreeOK(b, m)
           /\ \A k : NamedIn(b, k) => NamedIn(ns, k) \/ k = i
<1> DEFINE b == Bind(ns, p, name, i)
<1>1. i \in Nat /\ m \in Nat \ {0}
  BY DEF TreeOK
<1>2. /\ b \in [0 .. m - 1 -> Node]
      /\ \A k \in 0 .. m - 1 : b[k].dir = ns[k].dir /\ b[k].data = ns[k].data
      /\ \A k \in 0 .. m - 1 : k # p => b[k].entries = ns[k].entries
      /\ DOMAIN b[p].entries = DOMAIN ns[p].entries \union {name}
      /\ b[p].entries[name] = i
      /\ \A n \in DOMAIN ns[p].entries : n # name => b[p].entries[n] = ns[p].entries[n]
  <2>1. BoundAt(ns, m, Bind(ns, p, name, i), p, name, i)
    BY <1>1, BindIs
  <2> QED BY <2>1 DEF BoundAt
<1> HIDE DEF b
<1>3. /\ ns \in [0 .. m - 1 -> Node] /\ ns[Root].dir
      /\ \A k \in 0 .. m - 1 : OfAKind(ns[k])
      /\ \A k \in 0 .. m - 1 : \A n \in DOMAIN ns[k].entries : ns[k].entries[n] \in 1 .. m - 1
      /\ \A k, j \in 0 .. m - 1 :
           \A n \in DOMAIN ns[k].entries, o \in DOMAIN ns[j].entries :
               ns[k].entries[n] = ns[j].entries[o] => k = j /\ n = o
  BY DEF TreeOK
\* What an entry of b is.
<1>4. ASSUME NEW k \in 0 .. m - 1, NEW n \in DOMAIN b[k].entries
      PROVE  \/ k = p /\ n = name /\ b[k].entries[n] = i
             \/ n \in DOMAIN ns[k].entries /\ b[k].entries[n] = ns[k].entries[n]
  BY <1>2
<1>5. \A k \in 0 .. m - 1 : \A n \in DOMAIN ns[k].entries : ns[k].entries[n] # i
  BY <1>3 DEF NamedIn
<1>6. \A k \in 0 .. m - 1 : OfAKind(b[k])
  BY <1>2, <1>3 DEF OfAKind
<1>7. \A k \in 0 .. m - 1 : \A n \in DOMAIN b[k].entries : b[k].entries[n] \in 1 .. m - 1
  BY <1>3, <1>4
<1>8. ASSUME NEW k \in 0 .. m - 1, NEW j \in 0 .. m - 1,
             NEW n \in DOMAIN b[k].entries, NEW o \in DOMAIN b[j].entries,
             b[k].entries[n] = b[j].entries[o]
      PROVE  k = j /\ n = o
  BY <1>3, <1>4, <1>5, <1>8
<1>9. b[Root].dir
  BY <1>1, <1>2, <1>3 DEF Root
<1>10. TreeOK(b, m)
  BY <1>1, <1>2, <1>6, <1>7, <1>8, <1>9 DEF TreeOK
<1>11. ASSUME NEW k, NamedIn(b, k) PROVE NamedIn(ns, k) \/ k = i
  BY <1>2, <1>3, <1>4, <1>11 DEF NamedIn
<1> QED BY <1>10, <1>11 DEF b

LEMMA UnbindTree ==
    ASSUME NEW ns, NEW m, TreeOK(ns, m), NEW p \in 0 .. m - 1,
           NEW name \in DOMAIN ns[p].entries
    PROVE  LET u == Unbind(ns, p, name) IN
           /\ Evolves(ns, m, u, m) /\ SameData(ns, m, u)
           /\ ~ NamedIn(u, ns[p].entries[name])
<1> DEFINE old == ns[p].entries
           new == [n \in DOMAIN old \ {name} |-> old[n]]
           u == [ns EXCEPT ![p].entries = new]
<1>1. Unbind(ns, p, name) = u
  BY DEF Unbind
<1>2. /\ m \in Nat \ {0} /\ ns \in [0 .. m - 1 -> Node] /\ ns[Root].dir
      /\ \A k \in 0 .. m - 1 : OfAKind(ns[k])
      /\ \A k \in 0 .. m - 1 : \A n \in DOMAIN ns[k].entries : ns[k].entries[n] \in 1 .. m - 1
      /\ \A k, j \in 0 .. m - 1 :
           \A n \in DOMAIN ns[k].entries, o \in DOMAIN ns[j].entries :
               ns[k].entries[n] = ns[j].entries[o] => k = j /\ n = o
  BY DEF TreeOK
<1>3. old \in Entries /\ ns[p] \in Node
  BY <1>2 DEF Node
<1>4. DOMAIN old \subseteq Name /\ old \in [DOMAIN old -> Nat]
  BY <1>3, EntriesAre
<1>5. new \in [DOMAIN old \ {name} -> Nat]
  BY <1>4
<1>6. new \in Entries
  <2>1. DOMAIN old \ {name} \in SUBSET Name
    BY <1>4
  <2> QED BY <2>1, <1>5 DEF Entries
<1>7. DOMAIN new = DOMAIN old \ {name} /\ \A n \in DOMAIN new : new[n] = old[n]
  OBVIOUS
<1> HIDE DEF new
<1>8. /\ u \in [0 .. m - 1 -> Node]
      /\ \A k \in 0 .. m - 1 : k # p => u[k] = ns[k]
      /\ u[p].dir = ns[p].dir /\ u[p].data = ns[p].data /\ u[p].entries = new
  BY <1>2, <1>3, <1>6 DEF Node
<1> HIDE DEF u
\* What an entry of u is.
<1>9. ASSUME NEW k \in 0 .. m - 1, NEW n \in DOMAIN u[k].entries
      PROVE  /\ n \in DOMAIN ns[k].entries /\ u[k].entries[n] = ns[k].entries[n]
             /\ ~ (k = p /\ n = name)
  BY <1>7, <1>8
<1>10. \A k \in 0 .. m - 1 : u[k].dir = ns[k].dir /\ u[k].data = ns[k].data
  BY <1>8
<1>11. \A k \in 0 .. m - 1 : OfAKind(u[k])
  BY <1>2, <1>9, <1>10 DEF OfAKind
<1>12. TreeOK(u, m)
  <2>1. \A k \in 0 .. m - 1 : \A n \in DOMAIN u[k].entries : u[k].entries[n] \in 1 .. m - 1
    BY <1>2, <1>9
  <2>2. ASSUME NEW k \in 0 .. m - 1, NEW j \in 0 .. m - 1,
               NEW n \in DOMAIN u[k].entries, NEW o \in DOMAIN u[j].entries,
               u[k].entries[n] = u[j].entries[o]
        PROVE  k = j /\ n = o
    BY <1>2, <1>9, <2>2
  <2>3. u[Root].dir
    BY <1>2, <1>10 DEF Root
  <2> QED BY <1>2, <1>8, <1>11, <2>1, <2>2, <2>3 DEF TreeOK
<1>13. ASSUME NEW k, NamedIn(u, k) PROVE NamedIn(ns, k)
  BY <1>2, <1>8, <1>9, <1>13 DEF NamedIn
<1>14. ~ NamedIn(u, ns[p].entries[name])
  BY <1>2, <1>8, <1>9 DEF NamedIn
<1>15. Grows(ns, m, u)
  BY <1>8, <1>9 DEF Grows
<1>16. Evolves(ns, m, u, m) /\ SameData(ns, m, u)
  BY <1>2, <1>10, <1>12, <1>13, <1>15 DEF Evolves, Keeps, SameData
<1> QED BY <1>1, <1>14, <1>16

LEMMA PushTree ==
    ASSUME NEW ns, NEW m, TreeOK(ns, m),
           NEW node \in Node, OfAKind(node), DOMAIN node.entries = {}
    PROVE  LET q == Push(ns, node) IN
           /\ Evolves(ns, m, q, m + 1) /\ ~ NamedIn(q, m)
           /\ q[m] = node /\ \A k \in 0 .. m - 1 : q[k] = ns[k]
<1> DEFINE q == [k \in 0 .. m |-> IF k = m THEN node ELSE ns[k]]
<1>1. /\ m \in Nat \ {0} /\ ns \in [0 .. m - 1 -> Node] /\ ns[Root].dir
      /\ \A k \in 0 .. m - 1 : OfAKind(ns[k])
      /\ \A k \in 0 .. m - 1 : \A n \in DOMAIN ns[k].entries : ns[k].entries[n] \in 1 .. m - 1
      /\ \A k, j \in 0 .. m - 1 :
           \A n \in DOMAIN ns[k].entries, o \in DOMAIN ns[j].entries :
               ns[k].entries[n] = ns[j].entries[o] => k = j /\ n = o
  BY DEF TreeOK
<1>2. Push(ns, node) = q
  <2>1. DOMAIN ns = 0 .. m - 1 /\ Cardinality(DOMAIN ns) = m
    BY TreeSize
  <2>2. DOMAIN ns \union {m} = 0 .. m
    BY <1>1, <2>1
  <2> QED BY <2>1, <2>2 DEF Push
<1>3. q \in [0 .. m -> Node] /\ q[m] = node /\ \A k \in 0 .. m - 1 : q[k] = ns[k]
  BY <1>1
<1>4. m \in Nat /\ m + 1 \in Nat \ {0} /\ (m + 1) - 1 = m
  BY <1>1
<1>5. \A k \in 0 .. m : k = m \/ k \in 0 .. m - 1
  BY <1>1
<1> HIDE DEF q
\* What an entry of q is.
<1>6. ASSUME NEW k \in 0 .. m, NEW n \in DOMAIN q[k].entries
      PROVE  k \in 0 .. m - 1 /\ n \in DOMAIN ns[k].entries /\ q[k].entries[n] = ns[k].entries[n]
  BY <1>3, <1>5
<1>7. \A k \in 0 .. m : OfAKind(q[k])
  BY <1>1, <1>3, <1>5
<1>8. \A k \in 0 .. m : \A n \in DOMAIN q[k].entries : q[k].entries[n] \in 1 .. m
  BY <1>1, <1>4, <1>6
<1>9. q[Root].dir
  BY <1>1, <1>3 DEF Root
<1>10. ASSUME NEW k \in 0 .. m, NEW j \in 0 .. m,
              NEW n \in DOMAIN q[k].entries, NEW o \in DOMAIN q[j].entries,
              q[k].entries[n] = q[j].entries[o]
       PROVE  k = j /\ n = o
  BY <1>1, <1>6, <1>10
<1>11. TreeOK(q, m + 1)
  BY <1>3, <1>4, <1>7, <1>8, <1>9, <1>10 DEF TreeOK
<1>12. ASSUME NEW k, NamedIn(q, k) PROVE NamedIn(ns, k)
  BY <1>1, <1>3, <1>6, <1>12 DEF NamedIn
<1>13. ~ NamedIn(q, m)
  BY <1>1, <1>3, <1>6 DEF NamedIn
<1>14. Grows(ns, m, q)
  BY <1>3, <1>6 DEF Grows
<1>15. Evolves(ns, m, q, m + 1)
  BY <1>3, <1>4, <1>11, <1>12, <1>14 DEF Evolves, Keeps
<1> QED BY <1>2, <1>3, <1>13, <1>15

\* The nodes f are ns with the data of the file i set.
FileSet(ns, m, f, i, data) ==
    /\ Evolves(ns, m, f, m) /\ SameEntries(ns, m, f)
    /\ f[i].data = data
    /\ \A k \in 0 .. m - 1 : k # i => f[k] = ns[k]

LEMMA SetFileTree ==
    ASSUME NEW ns, NEW m, TreeOK(ns, m), NEW i \in 0 .. m - 1, ~ ns[i].dir,
           NEW data \in Content
    PROVE  FileSet(ns, m, [ns EXCEPT ![i] = File(data)], i, data)
<1> DEFINE f == [ns EXCEPT ![i] = File(data)]
<1>1. /\ m \in Nat \ {0} /\ ns \in [0 .. m - 1 -> Node] /\ ns[Root].dir
      /\ \A k \in 0 .. m - 1 : OfAKind(ns[k])
      /\ \A k \in 0 .. m - 1 : \A n \in DOMAIN ns[k].entries : ns[k].entries[n] \in 1 .. m - 1
      /\ \A k, j \in 0 .. m - 1 :
           \A n \in DOMAIN ns[k].entries, o \in DOMAIN ns[j].entries :
               ns[k].entries[n] = ns[j].entries[o] => k = j /\ n = o
  BY DEF TreeOK
<1>2. /\ File(data) \in Node /\ ~ File(data).dir /\ File(data).data = data
      /\ DOMAIN File(data).entries = {}
  BY NewNodes
<1>3. /\ f \in [0 .. m - 1 -> Node] /\ f[i] = File(data)
      /\ \A k \in 0 .. m - 1 : k # i => f[k] = ns[k]
  BY <1>1, <1>2
<1> HIDE DEF f
<1>4. DOMAIN ns[i].entries = {}
  BY <1>1 DEF OfAKind
\* What an entry of f is.
<1>5. ASSUME NEW k \in 0 .. m - 1, NEW n \in DOMAIN f[k].entries
      PROVE  n \in DOMAIN ns[k].entries /\ f[k].entries[n] = ns[k].entries[n]
  BY <1>2, <1>3
<1>6. \A k \in 0 .. m - 1 : OfAKind(f[k]) /\ f[k].dir = ns[k].dir
  <2>1. f[i].dir = ns[i].dir
    BY <1>1, <1>2, <1>3 DEF Node
  <2> QED BY <1>1, <1>2, <1>3, <2>1 DEF OfAKind
<1>7. TreeOK(f, m)
  <2>1. \A k \in 0 .. m - 1 : \A n \in DOMAIN f[k].entries : f[k].entries[n] \in 1 .. m - 1
    BY <1>1, <1>5
  <2>2. ASSUME NEW k \in 0 .. m - 1, NEW j \in 0 .. m - 1,
               NEW n \in DOMAIN f[k].entries, NEW o \in DOMAIN f[j].entries,
               f[k].entries[n] = f[j].entries[o]
        PROVE  k = j /\ n = o
    BY <1>1, <1>5, <2>2
  <2>3. f[Root].dir
    BY <1>1, <1>6 DEF Root
  <2> QED BY <1>1, <1>3, <1>6, <2>1, <2>2, <2>3 DEF TreeOK
<1>8. ASSUME NEW k, NamedIn(f, k) PROVE NamedIn(ns, k)
  BY <1>1, <1>3, <1>5, <1>8 DEF NamedIn
<1>9. Grows(ns, m, f)
  BY <1>3, <1>5 DEF Grows
<1>10. Evolves(ns, m, f, m)
  BY <1>1, <1>6, <1>7, <1>8, <1>9 DEF Evolves, Keeps
<1>11. SameEntries(ns, m, f)
  BY <1>3, <1>4 DEF SameEntries
<1> QED BY <1>2, <1>3, <1>10, <1>11 DEF f, FileSet

LEMMA EvolvesTransitive ==
    ASSUME NEW a, NEW m, TreeOK(a, m), NEW b, NEW n, Evolves(a, m, b, n),
           NEW c, NEW o, Evolves(b, n, c, o)
    PROVE  /\ Evolves(a, m, c, o)
           /\ SameData(a, m, b) /\ SameData(b, n, c) => SameData(a, m, c)
           /\ SameEntries(a, m, b) /\ SameEntries(b, n, c) => SameEntries(a, m, c)
<1>1. m \in Nat /\ n \in Nat /\ o \in Nat /\ m <= n /\ n <= o
  BY DEF Evolves, Keeps, TreeOK
<1>2. \A i \in 0 .. m - 1 : i \in 0 .. n - 1
  BY <1>1
<1>3. m <= o
  BY <1>1
<1>4. Keeps(a, m, c, o)
  BY <1>2, <1>3 DEF Evolves, Keeps
<1>5. Grows(a, m, c)
  <2> SUFFICES ASSUME NEW d \in DOMAIN c, NEW x \in DOMAIN c[d].entries
               PROVE  \/ /\ d \in 0 .. m - 1 /\ x \in DOMAIN a[d].entries
                         /\ a[d].entries[x] = c[d].entries[x]
                      \/ d < c[d].entries[x] /\ m <= c[d].entries[x]
    BY DEF Grows
  <2> DEFINE i == c[d].entries[x]
  <2>1. i \in Nat
    BY DEF Evolves, Keeps, TreeOK
  <2>2. \/ d \in 0 .. n - 1 /\ x \in DOMAIN b[d].entries /\ b[d].entries[x] = i
        \/ d < i /\ n <= i
    BY DEF Evolves, Grows
  <2>3. CASE d < i /\ n <= i
    BY <1>1, <2>1, <2>3
  <2>4. CASE d \in 0 .. n - 1 /\ x \in DOMAIN b[d].entries /\ b[d].entries[x] = i
    <3>1. d \in DOMAIN b
      BY <2>4 DEF Evolves, Keeps, TreeOK
    <3> QED BY <2>4, <3>1 DEF Evolves, Grows
  <2> QED BY <2>2, <2>3, <2>4
<1> QED BY <1>2, <1>4, <1>5 DEF Evolves, SameData, SameEntries

LEMMA EvolvesReflexive ==
    ASSUME NEW a, NEW m, TreeOK(a, m)
    PROVE  Evolves(a, m, a, m) /\ SameData(a, m, a) /\ SameEntries(a, m, a)
  BY DEF Evolves, Keeps, Grows, SameData, SameEntries, TreeOK

\* The nodes c are ns with a new node m, an empty file or directory, under a name
\* of p.
Created(ns, m, c, p, name, node) ==
    /\ Evolves(ns, m, c, m + 1) /\ SameData(ns, m, c)
    /\ name \notin DOMAIN ns[p].entries => SameEntries(ns, m, c)
    /\ c[m].dir = node.dir /\ c[m].data = node.data /\ DOMAIN c[m].entries = {}
    /\ c[p].dir /\ name \in DOMAIN c[p].entries /\ c[p].entries[name] = m

LEMMA CreateTree ==
    ASSUME NEW ns, NEW m, TreeOK(ns, m), NEW p \in 0 .. m - 1, ns[p].dir, NEW name \in Name,
           NEW node \in Node, OfAKind(node), DOMAIN node.entries = {}
    PROVE  Created(ns, m, Bind(Push(ns, node), p, name, m), p, name, node)
<1> DEFINE q == Push(ns, node)
           c == Bind(q, p, name, m)
<1>1. /\ Evolves(ns, m, q, m + 1) /\ ~ NamedIn(q, m)
      /\ q[m] = node /\ \A k \in 0 .. m - 1 : q[k] = ns[k]
  BY PushTree
<1> HIDE DEF q
<1>2. m \in Nat \ {0} /\ TreeOK(q, m + 1)
  BY <1>1 DEF Evolves, Keeps, TreeOK
<1>3. m + 1 - 1 = m /\ p \in 0 .. (m + 1) - 1 /\ m \in 1 .. (m + 1) - 1 /\ m # p
  BY <1>2
<1>4. q[p].dir
  BY <1>1
<1>5. BoundAt(q, m + 1, c, p, name, m)
  BY <1>2, <1>3, BindIs
<1>6. TreeOK(c, m + 1) /\ \A k : NamedIn(c, k) => NamedIn(q, k) \/ k = m
  BY <1>1, <1>2, <1>3, <1>4, BindTree
<1> HIDE DEF c
<1>7. /\ \A k \in 0 .. m : c[k].dir = q[k].dir /\ c[k].data = q[k].data
      /\ \A k \in 0 .. m : k # p => c[k].entries = q[k].entries
      /\ DOMAIN c[p].entries = DOMAIN q[p].entries \union {name}
      /\ c[p].entries[name] = m
      /\ \A n \in DOMAIN q[p].entries : n # name => c[p].entries[n] = q[p].entries[n]
  BY <1>3, <1>5 DEF BoundAt
<1>8. \A k \in 0 .. m - 1 : k \in 0 .. m /\ k # m
  BY <1>2
<1>9. m \in 0 .. m /\ p \in 0 .. m
  BY <1>2, <1>3
<1>10. \A k \in 0 .. m - 1 : NamedIn(c, k) => NamedIn(ns, k)
  BY <1>1, <1>6, <1>8 DEF Evolves, Keeps
<1>11. Evolves(ns, m, c, m + 1) /\ SameData(ns, m, c)
  <2>1. Grows(ns, m, c)
    <3> SUFFICES ASSUME NEW d \in 0 .. m, NEW x \in DOMAIN c[d].entries
                 PROVE  \/ /\ d \in 0 .. m - 1 /\ x \in DOMAIN ns[d].entries
                           /\ ns[d].entries[x] = c[d].entries[x]
                        \/ d < c[d].entries[x] /\ m <= c[d].entries[x]
      BY <1>6 DEF Grows, TreeOK
    <3>1. CASE d = p /\ x = name
      BY <1>2, <1>7, <3>1
    <3>2. CASE ~ (d = p /\ x = name)
      <4>1. x \in DOMAIN q[d].entries /\ c[d].entries[x] = q[d].entries[x]
        BY <1>7, <3>2
      <4>2. d # m
        BY <1>1, <4>1
      <4> QED BY <1>1, <1>2, <4>1, <4>2
    <3> QED BY <3>1, <3>2
  <2> QED BY <1>1, <1>2, <1>6, <1>7, <1>8, <1>10, <2>1 DEF Evolves, Keeps, SameData
<1>12. ASSUME name \notin DOMAIN ns[p].entries PROVE SameEntries(ns, m, c)
  BY <1>1, <1>7, <1>8, <1>12 DEF SameEntries
<1>13. c[m].dir = node.dir /\ c[m].data = node.data /\ DOMAIN c[m].entries = {}
  BY <1>1, <1>3, <1>7, <1>9
<1>14. c[p].dir /\ name \in DOMAIN c[p].entries /\ c[p].entries[name] = m
  BY <1>4, <1>7, <1>9
<1> QED BY <1>11, <1>12, <1>13, <1>14 DEF Created, c, q

\* Of the names of c, one at most is not one of ns: in the directory to, of the node i.
OneMoved(ns, m, c, to, i) ==
    \A d \in 0 .. m - 1 : \A n \in DOMAIN c[d].entries :
        \/ n \in DOMAIN ns[d].entries /\ ns[d].entries[n] = c[d].entries[n]
        \/ d = to /\ c[d].entries[n] = i

LEMMA RenameTree ==
    ASSUME NEW ns, NEW m, TreeOK(ns, m), NEW p \in 0 .. m - 1,
           NEW name \in DOMAIN ns[p].entries,
           NEW to \in 0 .. m - 1, ns[to].dir, NEW newName \in Name
    PROVE  LET c == Bind(Unbind(ns, p, name), to, newName, ns[p].entries[name]) IN
           /\ Keeps(ns, m, c, m) /\ SameData(ns, m, c)
           /\ OneMoved(ns, m, c, to, ns[p].entries[name])
<1> DEFINE i == ns[p].entries[name]
           u == Unbind(ns, p, name)
           c == Bind(u, to, newName, i)
<1>1. Evolves(ns, m, u, m) /\ SameData(ns, m, u) /\ ~ NamedIn(u, i)
  BY UnbindTree
<1>2. i \in 1 .. m - 1 /\ m \in Nat \ {0} /\ NamedIn(ns, i)
  BY DEF TreeOK, NamedIn
<1> HIDE DEF u, i
<1>3. TreeOK(u, m) /\ u[to].dir
  BY <1>1 DEF Evolves, Keeps
<1>4. TreeOK(c, m) /\ \A k : NamedIn(c, k) => NamedIn(u, k) \/ k = i
  BY <1>1, <1>2, <1>3, BindTree
<1>5. BoundAt(u, m, c, to, newName, i)
  BY <1>2, <1>3, BindIs
<1> HIDE DEF c
<1>6. \A k \in 0 .. m - 1 : c[k].dir = u[k].dir /\ c[k].data = u[k].data
  BY <1>5 DEF BoundAt
<1>7. \A k \in 0 .. m - 1 : NamedIn(c, k) => NamedIn(u, k) \/ NamedIn(ns, k)
  BY <1>2, <1>4
<1>8. Keeps(ns, m, c, m) /\ SameData(ns, m, c)
  BY <1>1, <1>2, <1>4, <1>6, <1>7 DEF Evolves, Keeps, SameData
<1>9. OneMoved(ns, m, c, to, i)
  <2> SUFFICES ASSUME NEW d \in 0 .. m - 1, NEW n \in DOMAIN c[d].entries,
                      ~ (d = to /\ c[d].entries[n] = i)
               PROVE  n \in DOMAIN ns[d].entries /\ ns[d].entries[n] = c[d].entries[n]
    BY DEF OneMoved
  <2>1. n \in DOMAIN u[d].entries /\ u[d].entries[n] = c[d].entries[n]
    BY <1>5 DEF BoundAt
  <2>2. d \in DOMAIN u /\ u[d].entries[n] \in 1 .. m - 1
    BY <1>3, <2>1 DEF TreeOK
  <2>3. ~ (m <= u[d].entries[n])
    BY <1>2, <2>2
  <2> QED BY <1>1, <2>1, <2>2, <2>3 DEF Evolves, Grows
<1> QED BY <1>8, <1>9 DEF c, u, i

-----------------------------------------------------------------------------
(***************************************************************************)
(* Where a walk in a tree leads.                                           *)
(***************************************************************************)

\* An error, or one of the m nodes.
Place(m) == {NoEntry, NotDir} \union (0 .. m - 1)

LEMMA LookInTree ==
    ASSUME NEW ns, NEW m, TreeOK(ns, m), NEW i \in Place(m), NEW name
    PROVE  /\ Look(ns, i, name) \in Place(m)
           /\ Look(ns, i, name) >= 0 =>
                  /\ i >= 0 /\ i \in 0 .. m - 1 /\ ns[i].dir /\ name \in DOMAIN ns[i].entries
                  /\ Look(ns, i, name) = ns[i].entries[name]
                  /\ Look(ns, i, name) \in 1 .. m - 1 /\ NamedIn(ns, Look(ns, i, name))
           /\ Look(ns, i, name) = NoEntry /\ i >= 0 =>
                  i \in 0 .. m - 1 /\ ns[i].dir /\ name \notin DOMAIN ns[i].entries
<1>1. /\ m \in Nat \ {0} /\ DOMAIN ns = 0 .. m - 1
      /\ \A k \in 0 .. m - 1 : \A n \in DOMAIN ns[k].entries : ns[k].entries[n] \in 1 .. m - 1
  BY DEF TreeOK
<1>2. CASE i < 0
  BY <1>1, <1>2 DEF Look, Place, NoEntry, NotDir
<1>3. CASE i \in 0 .. m - 1 /\ ~ ns[i].dir
  BY <1>1, <1>3 DEF Look, Place, NoEntry, NotDir
<1>4. CASE i \in 0 .. m - 1 /\ ns[i].dir /\ name \notin DOMAIN ns[i].entries
  BY <1>1, <1>4 DEF Look, Place, NoEntry, NotDir
<1>5. CASE i \in 0 .. m - 1 /\ ns[i].dir /\ name \in DOMAIN ns[i].entries
  <2>1. Look(ns, i, name) = ns[i].entries[name]
    BY <1>1, <1>5 DEF Look
  <2>2. ns[i].entries[name] \in 1 .. m - 1
    BY <1>1, <1>5
  <2>3. NamedIn(ns, ns[i].entries[name])
    BY <1>1, <1>5 DEF NamedIn
  <2> QED BY <1>1, <1>5, <2>1, <2>2, <2>3 DEF Place, NoEntry, NotDir
<1> QED BY <1>1, <1>2, <1>3, <1>4, <1>5 DEF Place, NoEntry, NotDir

\* A walk of names leads to an error or to a named node.
LEMMA WalkInTree ==
    ASSUME NEW ns, NEW m, TreeOK(ns, m), NEW d \in 0 .. m - 1
    PROVE  \A s \in Seq(Name) :
               /\ WalkIn(ns, d, s) \in Place(m)
               /\ WalkIn(ns, d, s) >= 0 => WalkIn(ns, d, s) = d \/ NamedIn(ns, WalkIn(ns, d, s))
<1> DEFINE w(s) == WalkIn(ns, d, s)
           P == {s \in Seq(Name) : w(s) \in Place(m) /\ (w(s) >= 0 => w(s) = d \/ NamedIn(ns, w(s)))}
<1>1. /\ w(<<>>) = d
      /\ \A s \in Seq(Name) : \A x \in Name : w(Append(s, x)) = Look(ns, w(s), x)
  <2>1. NameByName(ns, d, Name)
    BY WalkStep
  <2> QED BY <2>1 DEF NameByName
<1> HIDE DEF w
<1>2. <<>> \in P
  <2>1. d \in Place(m)
    BY DEF Place
  <2> QED BY <1>1, <2>1, EmptySeq
<1>3. ASSUME NEW s \in P, NEW x \in Name PROVE Append(s, x) \in P
  <2>1. w(s) \in Place(m) /\ w(Append(s, x)) = Look(ns, w(s), x)
    BY <1>1
  <2>2. /\ w(Append(s, x)) \in Place(m)
        /\ w(Append(s, x)) >= 0 => NamedIn(ns, w(Append(s, x)))
    BY <2>1, LookInTree
  <2>3. Append(s, x) \in Seq(Name)
    BY AppendProperties
  <2> QED BY <2>2, <2>3
<1>4. P = Seq(Name)
  <2> HIDE DEF P
  <2>1. P \in SUBSET Seq(Name)
    BY DEF P
  <2> QED BY <1>2, <1>3, <2>1, SeqSetInduction
<1> QED BY <1>4 DEF w

\* The walk that led to a node leads there still, where no entry was lost.
LEMMA WalkStays ==
    ASSUME NEW ns, NEW m, TreeOK(ns, m), NEW d \in 0 .. m - 1,
           NEW ns2, NEW m2, Evolves(ns, m, ns2, m2), SameEntries(ns, m, ns2)
    PROVE  \A s \in Seq(Name) : WalkIn(ns, d, s) >= 0 => WalkIn(ns2, d, s) = WalkIn(ns, d, s)
<1> DEFINE w(s) == WalkIn(ns, d, s)
           v(s) == WalkIn(ns2, d, s)
           P == {s \in Seq(Name) : w(s) >= 0 => v(s) = w(s)}
<1>1. /\ w(<<>>) = d /\ v(<<>>) = d
      /\ \A s \in Seq(Name) : \A x \in Name : w(Append(s, x)) = Look(ns, w(s), x)
      /\ \A s \in Seq(Name) : \A x \in Name : v(Append(s, x)) = Look(ns2, v(s), x)
  <2>1. /\ w(<<>>) = d
        /\ \A s \in Seq(Name) : \A x \in Name : w(Append(s, x)) = Look(ns, w(s), x)
    <3>1. NameByName(ns, d, Name)
      BY WalkStep
    <3> QED BY <3>1 DEF NameByName
  <2>2. /\ v(<<>>) = d
        /\ \A s \in Seq(Name) : \A x \in Name : v(Append(s, x)) = Look(ns2, v(s), x)
    <3>1. NameByName(ns2, d, Name)
      BY WalkStep
    <3> QED BY <3>1 DEF NameByName
  <2> QED BY <2>1, <2>2
<1>2. \A s \in Seq(Name) : w(s) \in Place(m)
  BY WalkInTree
<1> HIDE DEF w, v
<1>3. <<>> \in P
  BY <1>1, EmptySeq
<1>4. ASSUME NEW s \in P, NEW x \in Name PROVE Append(s, x) \in P
  <2> SUFFICES ASSUME w(Append(s, x)) >= 0 PROVE v(Append(s, x)) = w(Append(s, x))
    BY AppendProperties
  <2>1. /\ w(Append(s, x)) = Look(ns, w(s), x) /\ v(Append(s, x)) = Look(ns2, v(s), x)
        /\ w(s) \in Place(m)
    BY <1>1, <1>2
  <2> DEFINE i == w(s)
  <2>2. /\ i >= 0 /\ i \in 0 .. m - 1 /\ ns[i].dir /\ x \in DOMAIN ns[i].entries
        /\ Look(ns, i, x) = ns[i].entries[x]
    BY <2>1, LookInTree
  <2>3. v(s) = i
    BY <2>2
  <2>4. ns2[i].dir /\ x \in DOMAIN ns2[i].entries /\ ns2[i].entries[x] = ns[i].entries[x]
    BY <2>2 DEF Evolves, Keeps, SameEntries
  <2>5. Look(ns2, i, x) = ns2[i].entries[x]
    BY <2>2, <2>4 DEF Look
  <2> QED BY <2>1, <2>2, <2>3, <2>4, <2>5
<1>5. P = Seq(Name)
  <2> HIDE DEF P
  <2>1. P \in SUBSET Seq(Name)
    BY DEF P
  <2> QED BY <1>3, <1>4, <2>1, SeqSetInduction
<1> QED BY <1>5 DEF w, v

LEMMA WalkOne ==
    ASSUME NEW ns, NEW d, NEW name
    PROVE  WalkIn(ns, d, <<name>>) = Look(ns, d, name)
<1>1. NameByName(ns, d, {name})
  BY WalkStep
<1>2. <<>> \in Seq({name}) /\ <<name>> = Append(<<>>, name)
  BY EmptySeq
<1>3. WalkIn(ns, d, Append(<<>>, name)) = Look(ns, WalkIn(ns, d, <<>>), name)
  BY ONLY <1>1, <1>2 DEF NameByName
<1> QED BY <1>1, <1>2, <1>3 DEF NameByName

\* The entry a path names, and its parent.
LEMMA EntryInTree ==
    ASSUME NEW m, TreeOK(nodes, m), NEW d \in 0 .. m - 1, NEW path \in Seq(Name), path # <<>>
    PROVE  /\ Parent(d, path) \in Place(m) /\ Last(path) \in Name
           /\ Entry(d, path) >= 0 =>
                  /\ Parent(d, path) \in 0 .. m - 1
                  /\ Last(path) \in DOMAIN nodes[Parent(d, path)].entries
                  /\ Entry(d, path) = nodes[Parent(d, path)].entries[Last(path)]
           /\ Walk(d, path) = Look(nodes, Parent(d, path), Last(path))
<1>1. Front(path) \in Seq(Name) /\ Last(path) \in Name /\ path = Append(Front(path), Last(path))
  BY FrontAndLast
<1>2. Walk(d, path) = Look(nodes, Walk(d, Front(path)), Last(path))
  <2>1. NameByName(nodes, d, Name)
    BY WalkStep
  <2>2. WalkIn(nodes, d, Append(Front(path), Last(path)))
          = Look(nodes, WalkIn(nodes, d, Front(path)), Last(path))
    BY ONLY <1>1, <2>1 DEF NameByName
  <2> QED BY <1>1, <2>2 DEF Walk
<1>3. Parent(d, path) \in Place(m)
  BY <1>1, WalkInTree DEF Parent, Walk
<1>4. ASSUME Entry(d, path) >= 0
      PROVE  /\ Parent(d, path) \in 0 .. m - 1
             /\ Last(path) \in DOMAIN nodes[Parent(d, path)].entries
             /\ Entry(d, path) = nodes[Parent(d, path)].entries[Last(path)]
  <2> DEFINE p == Parent(d, path)
             name == Last(path)
  <2> HIDE DEF p, name
  <2>1. ~ (p < 0) /\ Entry(d, path) = WalkIn(nodes, p, <<name>>)
    BY <1>3, <1>4 DEF Entry, Walk, Place, NoEntry, NotDir, p, name
  <2>2. name \in Name /\ p \in Place(m)
    BY <1>1, <1>3 DEF p, name
  <2>3. WalkIn(nodes, p, <<name>>) = Look(nodes, p, name)
    BY WalkOne
  <2>4. Look(nodes, p, name) >= 0
    BY <1>4, <2>1, <2>3
  <2> QED BY <2>1, <2>2, <2>3, <2>4, LookInTree DEF p, name
<1> QED BY <1>1, <1>2, <1>3, <1>4 DEF Parent

-----------------------------------------------------------------------------
(***************************************************************************)
(* Directories made along a path.                                          *)
(***************************************************************************)

State(ns, c) == [nodes |-> ns, current |-> c]

\* What one iteration makes, of k nodes ns and the place c, to be r.
Iteration(ns, k, c, name, r) ==
    \/ c < 0 /\ r = State(ns, c)
    \/ /\ c >= 0 /\ Look(ns, c, name) >= 0 /\ ns[Look(ns, c, name)].dir
       /\ r = State(ns, Look(ns, c, name))
    \/ /\ c >= 0 /\ Look(ns, c, name) >= 0 /\ ~ ns[Look(ns, c, name)].dir
       /\ r = State(ns, NotDir)
    \/ c >= 0 /\ Look(ns, c, name) = NotDir /\ ~ ns[c].dir /\ r = State(ns, NotDir)
    \/ /\ c >= 0 /\ Look(ns, c, name) = NoEntry
       /\ r = State(r.nodes, k)
       /\ Created(ns, k, r.nodes, c, name, EmptyDirectory) /\ SameEntries(ns, k, r.nodes)

LEMMA DescendIs ==
    ASSUME NEW ns, NEW k, TreeOK(ns, k), NEW c \in Place(k), NEW name \in Name
    PROVE  Iteration(ns, k, c, name, Descend(State(ns, c), name))
<1> DEFINE st == State(ns, c)
           i == Look(ns, c, name)
           new == Cardinality(DOMAIN ns)
           b == Bind(Push(ns, EmptyDirectory), c, name, new)
<1>1. st.nodes = ns /\ st.current = c
  BY DEF State
<1>2. \A e : [st EXCEPT !.current = e] = State(ns, e)
  BY DEF State
<1>3. Descend(st, name) = IF c < 0 THEN st
                          ELSE IF i >= 0 THEN State(ns, IF ns[i].dir THEN i ELSE NotDir)
                          ELSE IF i = NotDir THEN State(ns, NotDir)
                          ELSE State(b, new)
  <2>1. WalkIn(st.nodes, st.current, <<name>>) = i
    BY <1>1, WalkOne
  <2> HIDE DEF i, st
  <2>2. [nodes |-> b, current |-> new] = State(b, new)
    BY DEF State
  <2> HIDE DEF b, new
  <2>3. Descend(st, name) =
          IF st.current < 0 THEN st
          ELSE IF i >= 0 THEN [st EXCEPT !.current = IF st.nodes[i].dir THEN i ELSE NotDir]
          ELSE IF i = NotDir THEN [st EXCEPT !.current = NotDir]
          ELSE [nodes |-> b, current |-> new]
    BY <1>1, <2>1 DEF Descend, b, new
  <2> QED BY <1>1, <1>2, <2>2, <2>3
<1>4. new = k
  BY TreeSize
<1>5. /\ i \in Place(k)
      /\ i = NoEntry /\ c >= 0 => c \in 0 .. k - 1 /\ ns[c].dir /\ name \notin DOMAIN ns[c].entries
  BY LookInTree
<1>6. i = NotDir /\ c >= 0 => ~ ns[c].dir
  <2>1. k \in Nat \ {0} /\ \A d \in 0 .. k - 1 : \A n \in DOMAIN ns[d].entries : ns[d].entries[n] \in 1 .. k - 1
    BY DEF TreeOK
  <2> QED BY <2>1 DEF Look, Place, NoEntry, NotDir
<1>7. ASSUME i = NoEntry, c >= 0
      PROVE  Created(ns, k, b, c, name, EmptyDirectory) /\ SameEntries(ns, k, b)
  <2>1. /\ EmptyDirectory \in Node /\ OfAKind(EmptyDirectory)
        /\ DOMAIN EmptyDirectory.entries = {}
    BY NewNodes DEF OfAKind
  <2>2. Created(ns, k, Bind(Push(ns, EmptyDirectory), c, name, k), c, name, EmptyDirectory)
    BY <1>5, <1>7, <2>1, CreateTree
  <2> QED BY <1>4, <1>5, <1>7, <2>2 DEF Created
<1>8. State(b, new).nodes = b
  BY DEF State
<1> HIDE DEF i, b, new, st
<1>9. k \in Nat /\ (i >= 0 \/ i = NotDir \/ i = NoEntry) /\ ~ (NotDir >= 0) /\ ~ (NoEntry >= 0) /\ NotDir # NoEntry
  BY <1>5 DEF Place, TreeOK, NotDir, NoEntry
<1>10. c < 0 \/ c >= 0
  BY <1>9 DEF Place, NotDir, NoEntry
<1> DEFINE r == Descend(st, name)
<1> HIDE DEF r
<1>11. r = IF c < 0 THEN st
           ELSE IF i >= 0 THEN State(ns, IF ns[i].dir THEN i ELSE NotDir)
           ELSE IF i = NotDir THEN State(ns, NotDir)
           ELSE State(b, new)
  BY <1>3 DEF r
<1>12. Iteration(ns, k, c, name, r)
  <2>1. CASE c < 0
    BY <1>11, <2>1 DEF Iteration, st
  <2>2. CASE c >= 0 /\ i >= 0
    <3>1. ~ (c < 0)
      BY <2>2 DEF Place, NotDir, NoEntry
    <3> QED BY <1>11, <2>2, <3>1 DEF Iteration, i
  <2>3. CASE c >= 0 /\ i = NotDir
    <3>1. ~ (c < 0)
      BY <2>3 DEF Place, NotDir, NoEntry
    <3> QED BY <1>6, <1>9, <1>11, <2>3, <3>1 DEF Iteration, i
  <2>4. CASE c >= 0 /\ i = NoEntry
    <3>1. ~ (c < 0)
      BY <2>4 DEF Place, NotDir, NoEntry
    <3>2. r = State(b, new) /\ r.nodes = b
      BY <1>8, <1>9, <1>11, <2>4, <3>1
    <3> QED BY <1>4, <1>7, <2>4, <3>2 DEF Iteration, i
  <2> QED BY <1>9, <1>10, <2>1, <2>2, <2>3, <2>4
<1> QED BY <1>12 DEF r, st

\* The state st has come from the m nodes ns by making directories: if any was made,
\* the last one is empty and current.
AtNewDirectory(st) ==
    st.current >= 0 /\ st.nodes[st.current].dir /\ DOMAIN st.nodes[st.current].entries = {}
Made(ns, m, st) ==
    \E k : /\ st = State(st.nodes, st.current) /\ st.current \in Place(k)
           /\ Evolves(ns, m, st.nodes, k) /\ SameData(ns, m, st.nodes)
           /\ SameEntries(ns, m, st.nodes)
           /\ st.nodes = ns \/ AtNewDirectory(st)

LEMMA DescendMakes ==
    ASSUME NEW ns, NEW m, TreeOK(ns, m), NEW st, Made(ns, m, st), NEW name \in Name
    PROVE  Made(ns, m, Descend(st, name))
<1>1. PICK k : /\ st = State(st.nodes, st.current) /\ st.current \in Place(k)
               /\ Evolves(ns, m, st.nodes, k) /\ SameData(ns, m, st.nodes)
               /\ SameEntries(ns, m, st.nodes)
               /\ st.nodes = ns \/ AtNewDirectory(st)
  BY DEF Made
<1> DEFINE os == st.nodes
           c == st.current
           r == Descend(st, name)
<1>2. TreeOK(os, k)
  BY <1>1 DEF Evolves, Keeps
<1>3. Iteration(os, k, c, name, r)
  BY <1>1, <1>2, DescendIs
<1>4. Look(os, c, name) \in Place(k)
  BY <1>1, <1>2, LookInTree
<1>5. NotDir \in Place(k) /\ k \in Nat /\ k \in Place(k + 1)
  <2>1. k \in Nat
    BY <1>2 DEF TreeOK
  <2> QED BY <2>1 DEF Place
<1> HIDE DEF os, c, r
<1>6. \A e : State(os, e).nodes = os /\ State(os, e).current = e
  BY DEF State
<1>7. ASSUME os = ns, \E e \in Place(k) : r = State(os, e) PROVE Made(ns, m, r)
  <2>1. r = State(r.nodes, r.current) /\ r.nodes = os /\ r.current \in Place(k)
    BY <1>6, <1>7
  <2> QED BY <1>1, <1>7, <2>1 DEF Made, os
<1>8. ASSUME /\ r = State(r.nodes, k)
             /\ Created(os, k, r.nodes, c, name, EmptyDirectory) /\ SameEntries(os, k, r.nodes)
      PROVE  Made(ns, m, r)
  <2>1. r.current = k
    BY <1>8 DEF State
  <2>2. Evolves(os, k, r.nodes, k + 1) /\ SameData(os, k, r.nodes)
    BY <1>8 DEF Created
  <2>3. /\ Evolves(ns, m, r.nodes, k + 1) /\ SameData(ns, m, r.nodes)
        /\ SameEntries(ns, m, r.nodes)
    BY <1>1, <1>8, <2>2, EvolvesTransitive DEF os
  <2>4. AtNewDirectory(r)
    <3>1. EmptyDirectory.dir /\ k >= 0
      BY <1>5, NewNodes
    <3>2. r.nodes[k].dir /\ DOMAIN r.nodes[k].entries = {}
      BY <1>8, <3>1 DEF Created
    <3> QED BY <2>1, <3>1, <3>2 DEF AtNewDirectory
  <2> QED BY <1>5, <1>8, <2>1, <2>3, <2>4 DEF Made
<1>9. c \in Place(k)
  BY <1>1 DEF c
<1>10. CASE os = ns
  BY <1>3, <1>4, <1>5, <1>7, <1>8, <1>9, <1>10 DEF Iteration, r
<1>11. CASE AtNewDirectory(st)
  <2>1. c >= 0 /\ os[c].dir /\ DOMAIN os[c].entries = {}
    BY <1>11 DEF AtNewDirectory, os, c
  <2>2. ~ (c < 0) /\ Look(os, c, name) = NoEntry
    <3>1. ~ (c < 0)
      BY <1>5, <1>9, <2>1 DEF Place, NoEntry, NotDir
    <3> QED BY <2>1, <3>1 DEF Look
  <2>3. ~ (NoEntry >= 0) /\ NoEntry # NotDir
    BY DEF NoEntry, NotDir
  <2> QED BY <1>3, <1>8, <2>2, <2>3 DEF Iteration, r
<1> QED BY <1>1, <1>10, <1>11 DEF os

LEMMA DescendedMakes ==
    ASSUME NEW ns, NEW m, TreeOK(ns, m), NEW c \in 0 .. m - 1
    PROVE  \A s \in Seq(Name) : Made(ns, m, Descended(State(ns, c), s))
<1> DEFINE D(s) == Descended(State(ns, c), s)
           P == {s \in Seq(Name) : Made(ns, m, D(s))}
<1>1. /\ D(<<>>) = State(ns, c)
      /\ \A s \in Seq(Name) : \A x \in Name : D(Append(s, x)) = Descend(D(s), x)
  <2>1. PartByPart(State(ns, c), Name)
    BY DescendedStep
  <2> QED BY <2>1 DEF PartByPart
<1> HIDE DEF D
<1>2. <<>> \in P
  <2>1. State(ns, c).nodes = ns /\ State(ns, c).current = c /\ c \in Place(m)
    BY DEF State, Place
  <2>2. Made(ns, m, State(ns, c))
    BY <2>1, EvolvesReflexive DEF Made
  <2> QED BY <1>1, <2>2, EmptySeq
<1>3. ASSUME NEW s \in P, NEW x \in Name PROVE Append(s, x) \in P
  BY <1>1, DescendMakes, AppendProperties
<1>4. P = Seq(Name)
  <2> HIDE DEF P
  <2>1. P \in SUBSET Seq(Name)
    BY DEF P
  <2> QED BY <1>2, <1>3, <2>1, SeqSetInduction
<1> QED BY <1>4 DEF D

-----------------------------------------------------------------------------
(***************************************************************************)
(* The invariant, and what every step does.                                *)
(***************************************************************************)

DescriptorsOK(fs, next, m) ==
    /\ next \in FirstFd .. MaxFd + 1
    /\ DOMAIN fs \subseteq FirstFd .. next - 1
    /\ fs \in [DOMAIN fs -> [node : 0 .. m - 1, cursor : Nat]]

Sized(m) == m \in 1 .. MaxNodes /\ TreeOK(nodes, m) /\ DescriptorsOK(fds, nextFd, m)
TreeInv == (\E m : Sized(m)) /\ result \in {"ok", "err"}

\* The bodies of the action properties UnlinkedStaysGone, PastEndOnlyByTruncation and
\* LoopsOnlyByRename.
GoneStays ==
    \A i \in DOMAIN nodes \ {Root} :
        ~ Named(i) /\ ~ Opened(i) => ~ Named(i)' /\ ~ Opened(i)'
CutByTruncation ==
    \A fd \in DOMAIN fds \intersect DOMAIN fds' :
        ~ ReadPanics(fd) /\ ReadPanics(fd)' =>
            /\ nodes'[fds[fd].node].data = <<>>
            /\ \E other \in DOMAIN fds' \ DOMAIN fds : fds'[other].node = fds[fd].node

LoopsByRename ==
    \A d \in DOMAIN nodes' :
        \A i \in Held(nodes', d) \ Held(nodes, d) :
            Reaches(nodes', i, d) =>
                /\ Reaches(nodes, i, d)
                /\ \E oldFd \in DOMAIN fds, oldPath \in Path :
                      /\ RenameFinds(oldFd, oldPath)
                      /\ Entry(fds[oldFd].node, oldPath) = i
                      /\ \E newFd \in DOMAIN fds, newPath \in Path :
                            /\ Parent(fds[newFd].node, newPath) = d
                            /\ RenameAt(oldFd, oldPath, newFd, newPath)

StepSound == TreeInv' /\ GoneStays /\ CutByTruncation /\ LoopsByRename

OpenedIn(fs, i) == \E fd \in DOMAIN fs : fs[fd].node = i
\* A step opens only the root, a new node, and nodes with a name or a descriptor.
OpensKnown(m) ==
    \A fd \in DOMAIN fds' :
        LET i == fds'[fd].node IN i = Root \/ i >= m \/ NamedIn(nodes, i) \/ OpenedIn(fds, i)

LEMMA GoneLemma ==
    ASSUME NEW m, TreeOK(nodes, m), NEW m2, Keeps(nodes, m, nodes', m2), OpensKnown(m)
    PROVE  GoneStays
<1> SUFFICES ASSUME NEW i \in DOMAIN nodes \ {Root}, ~ NamedIn(nodes, i), ~ OpenedIn(fds, i)
             PROVE  ~ NamedIn(nodes', i) /\ ~ OpenedIn(fds', i)
  BY DEF GoneStays, Named, NamedIn, Opened, OpenedIn
<1>1. DOMAIN nodes = 0 .. m - 1 /\ m \in Nat
  BY TreeSize DEF TreeOK
<1>2. ~ NamedIn(nodes', i)
  BY <1>1 DEF Evolves, Keeps
<1>3. ASSUME NEW fd \in DOMAIN fds', fds'[fd].node = i PROVE FALSE
  <2>1. i = Root \/ i >= m \/ NamedIn(nodes, i) \/ OpenedIn(fds, i)
    BY <1>3 DEF OpensKnown
  <2> QED BY <1>1, <2>1
<1> QED BY <1>2, <1>3 DEF OpenedIn

\* Where no file got shorter, a descriptor that moved is within its file.
LEMMA CutLemma ==
    ASSUME NEW m, TreeOK(nodes, m), DescriptorsOK(fds, nextFd, m),
           NEW m2, DescriptorsOK(fds', nextFd', m2),
           \A i \in 0 .. m - 1 : /\ nodes'[i].dir = nodes[i].dir
                                 /\ Len(nodes[i].data) <= Len(nodes'[i].data)
                                 /\ Len(nodes'[i].data) \in Nat,
           \A fd \in DOMAIN fds \intersect DOMAIN fds' :
               /\ fds'[fd].node = fds[fd].node
               /\ \/ fds'[fd].cursor = fds[fd].cursor
                  \/ fds'[fd].cursor <= Len(nodes'[fds[fd].node].data)
    PROVE  CutByTruncation
<1> SUFFICES ASSUME NEW fd \in DOMAIN fds \intersect DOMAIN fds',
                    ~ ReadPanics(fd), ReadPanics(fd)'
             PROVE  FALSE
  BY DEF CutByTruncation
<1> DEFINE i == fds[fd].node
<1>1. i \in 0 .. m - 1 /\ fds[fd].cursor \in Nat
  BY DEF DescriptorsOK
<1>2. /\ fds'[fd].node = i /\ ~ nodes'[i].dir /\ ~ nodes[i].dir
      /\ fds'[fd].cursor > Len(nodes'[i].data)
  <2>1. fds'[fd].node = i
    OBVIOUS
  <2>2. ~ nodes'[fds'[fd].node].dir /\ fds'[fd].cursor > Len(nodes'[fds'[fd].node].data)
    BY DEF ReadPanics
  <2> QED BY <1>1, <2>1, <2>2
<1>3. ~ (fds[fd].cursor > Len(nodes[i].data))
  BY <1>2 DEF ReadPanics
<1>4. Len(nodes[i].data) <= Len(nodes'[i].data) /\ Len(nodes'[i].data) \in Nat
  BY <1>1
<1>5. nodes[i].data \in Content
  BY <1>1 DEF TreeOK, Node
<1>6. Len(nodes[i].data) \in Nat
  BY <1>5, BoundedIsSeq, FsAssumption, LenProperties DEF Content
<1>7. \/ fds'[fd].cursor = fds[fd].cursor
      \/ fds'[fd].cursor <= Len(nodes'[i].data)
  OBVIOUS
<1>8. CASE fds'[fd].cursor = fds[fd].cursor
  <2> DEFINE a == fds[fd].cursor
             x == Len(nodes[i].data)
             y == Len(nodes'[i].data)
  <2>1. a \in Nat /\ x \in Nat /\ y \in Nat /\ ~ (a > x) /\ x <= y /\ a > y
    BY <1>1, <1>2, <1>3, <1>4, <1>6, <1>8
  <2> HIDE DEF a, x, y
  <2> QED BY <2>1
<1>9. CASE fds'[fd].cursor <= Len(nodes'[i].data) /\ fds'[fd].cursor # fds[fd].cursor
  <2>1. fds'[fd].cursor \in Nat
    BY DEF DescriptorsOK
  <2> QED BY <1>2, <1>4, <1>9, <2>1
<1> QED BY <1>7, <1>8, <1>9

\* Every node whose data is kept is as long as it was.
LEMMA SameIsLong ==
    ASSUME NEW m, TreeOK(nodes, m), NEW m2, Keeps(nodes, m, nodes', m2)
    PROVE  \A i \in 0 .. m - 1 :
               /\ nodes'[i].dir = nodes[i].dir
               /\ Len(nodes'[i].data) \in Nat
               /\ nodes'[i].data = nodes[i].data => Len(nodes[i].data) <= Len(nodes'[i].data)
<1> SUFFICES ASSUME NEW i \in 0 .. m - 1
             PROVE  nodes'[i].dir = nodes[i].dir /\ Len(nodes'[i].data) \in Nat
  OBVIOUS
<1>1. nodes'[i].dir = nodes[i].dir
  BY DEF Evolves, Keeps
<1>2. m \in Nat /\ m2 \in Nat /\ m <= m2 /\ TreeOK(nodes', m2)
  BY DEF Evolves, Keeps, TreeOK
<1>3. i \in 0 .. m2 - 1
  BY <1>2
<1>4. nodes'[i].data \in Content
  BY <1>2, <1>3 DEF TreeOK, Node
<1>5. Len(nodes'[i].data) \in Nat
  BY <1>4, BoundedIsSeq, FsAssumption, LenProperties DEF Content
<1> QED BY <1>1, <1>5

\* Where the nodes grow, a directory holds no new node but those above all of its own
\* that are new: no loop is closed.
LEMMA GrowsLoopless ==
    ASSUME NEW m, TreeOK(nodes, m), NEW m2, Evolves(nodes, m, nodes', m2)
    PROVE  LoopsByRename
<1> SUFFICES ASSUME NEW d \in DOMAIN nodes', NEW i \in Held(nodes', d) \ Held(nodes, d),
                    Reaches(nodes', i, d)
             PROVE  FALSE
  BY DEF LoopsByRename
<1>1. /\ m \in Nat /\ m2 \in Nat /\ DOMAIN nodes = 0 .. m - 1 /\ DOMAIN nodes' = 0 .. m2 - 1
      /\ \A k \in 0 .. m2 - 1 : \A n \in DOMAIN nodes'[k].entries :
            nodes'[k].entries[n] \in 1 .. m2 - 1
  BY DEF Evolves, Keeps, TreeOK
<1>2. PICK n \in DOMAIN nodes'[d].entries : i = nodes'[d].entries[n]
  BY DEF Held
<1>3. d < i /\ m <= i /\ i \in 1 .. m2 - 1
  <2>1. ~ (/\ d \in 0 .. m - 1 /\ n \in DOMAIN nodes[d].entries
           /\ nodes[d].entries[n] = nodes'[d].entries[n])
    BY <1>1, <1>2 DEF Held
  <2> QED BY <1>1, <1>2, <2>1 DEF Evolves, Grows
<1> DEFINE C == {k \in 0 .. m2 - 1 : i <= k}
<1>4. C \in SUBSET (DOMAIN nodes' \ {d}) /\ i \in C
  BY <1>1, <1>3
<1>5. ASSUME NEW k \in C, NEW x \in DOMAIN nodes'[k].entries PROVE nodes'[k].entries[x] \in C
  <2>1. k \notin 0 .. m - 1
    BY <1>1, <1>3
  <2>2. k < nodes'[k].entries[x]
    BY <1>1, <2>1 DEF Evolves, Grows
  <2> QED BY <1>1, <1>3, <2>2
<1>6. \A k \in C : Held(nodes', k) \subseteq C
  BY <1>5 DEF Held
<1> HIDE DEF C
<1> QED BY <1>4, <1>6 DEF Reaches

LEMMA DescriptorsGrow ==
    ASSUME NEW fs, NEW next, NEW m \in Nat, DescriptorsOK(fs, next, m), NEW m2 \in Nat, m <= m2
    PROVE  DescriptorsOK(fs, next, m2)
<1>1. \A i \in 0 .. m - 1 : i \in 0 .. m2 - 1
  OBVIOUS
<1>2. [node : 0 .. m - 1, cursor : Nat] \subseteq [node : 0 .. m2 - 1, cursor : Nat]
  BY <1>1
<1>3. fs \in [DOMAIN fs -> [node : 0 .. m2 - 1, cursor : Nat]]
  BY <1>2 DEF DescriptorsOK
<1> QED BY <1>3 DEF DescriptorsOK

LEMMA AllocIs ==
    ASSUME NEW m \in Nat, DescriptorsOK(fds, nextFd, m), NEW m2 \in Nat, m <= m2,
           NEW i \in 0 .. m2 - 1, AllocFd(i)
    PROVE  /\ DescriptorsOK(fds', nextFd', m2)
           /\ DOMAIN fds' = DOMAIN fds \union {nextFd} /\ nextFd \notin DOMAIN fds
           /\ fds'[nextFd] = [node |-> i, cursor |-> 0]
           /\ \A fd \in DOMAIN fds : fds'[fd] = fds[fd]
<1> DEFINE D == DOMAIN fds
           R == [node : 0 .. m2 - 1, cursor : Nat]
<1>1. /\ nextFd \in FirstFd .. MaxFd + 1 /\ nextFd <= MaxFd /\ nextFd' = nextFd + 1
      /\ D \subseteq FirstFd .. nextFd - 1
  BY DEF DescriptorsOK, AllocFd
<1>2. fds \in [D -> R]
  BY DescriptorsGrow DEF DescriptorsOK
<1>3. [node |-> i, cursor |-> 0] \in R
  OBVIOUS
<1> DEFINE new == [node |-> i, cursor |-> 0]
<1>4. fds' = [fd \in D \union {nextFd} |-> IF fd = nextFd THEN new ELSE fds[fd]]
  BY DEF AllocFd
<1> HIDE DEF new, R, D
<1>5. MaxFd \in Nat
  BY FsAssumption
<1>6. nextFd \notin D
  BY <1>1, <1>5 DEF FirstFd
<1>7. /\ fds' \in [D \union {nextFd} -> R] /\ fds'[nextFd] = new
      /\ \A fd \in D : fds'[fd] = fds[fd]
  BY <1>2, <1>3, <1>4, <1>6 DEF new
<1>8. DOMAIN fds' = D \union {nextFd}
  BY <1>7
<1>9. nextFd' \in FirstFd .. MaxFd + 1 /\ DOMAIN fds' \subseteq FirstFd .. nextFd' - 1
  BY <1>1, <1>5, <1>8 DEF FirstFd
<1> QED BY <1>6, <1>7, <1>8, <1>9 DEF DescriptorsOK, new, D, R

\* A step that changes the tree alone.
LEMMA TreeStep ==
    ASSUME NEW m, Sized(m), NEW m2, m2 <= MaxNodes, Keeps(nodes, m, nodes', m2),
           SameData(nodes, m, nodes'), UNCHANGED <<fds, nextFd>>, result' \in {"ok", "err"},
           LoopsByRename
    PROVE  StepSound
<1>1. /\ m \in Nat \ {0} /\ m2 \in Nat \ {0} /\ m <= m2 /\ TreeOK(nodes, m) /\ TreeOK(nodes', m2)
      /\ DescriptorsOK(fds, nextFd, m) /\ DescriptorsOK(fds', nextFd', m)
  BY DEF Sized, Evolves, Keeps, TreeOK
<1>2. DescriptorsOK(fds', nextFd', m2)
  BY <1>1, DescriptorsGrow
<1>3. m2 \in 1 .. MaxNodes
  BY <1>1, FsAssumption
<1>4. TreeInv'
  BY <1>1, <1>2, <1>3 DEF TreeInv, Sized
<1>5. OpensKnown(m)
  BY DEF OpensKnown, OpenedIn
<1>6. GoneStays
  BY <1>1, <1>5, GoneLemma
<1>7. \A i \in 0 .. m - 1 : /\ nodes'[i].dir = nodes[i].dir
                            /\ Len(nodes[i].data) <= Len(nodes'[i].data)
                            /\ Len(nodes'[i].data) \in Nat
  BY <1>1, SameIsLong DEF SameData
<1>8. CutByTruncation
  BY ONLY <1>1, <1>7, CutLemma, UNCHANGED <<fds, nextFd>>
<1> QED BY <1>4, <1>6, <1>8 DEF StepSound

LEMMA GrowStep ==
    ASSUME NEW m, Sized(m), NEW m2, m2 <= MaxNodes, Evolves(nodes, m, nodes', m2),
           SameData(nodes, m, nodes'), UNCHANGED <<fds, nextFd>>, result' \in {"ok", "err"}
    PROVE  StepSound
<1>1. TreeOK(nodes, m) /\ Keeps(nodes, m, nodes', m2)
  BY DEF Sized, Evolves
<1>2. LoopsByRename
  BY <1>1, GrowsLoopless
<1> QED BY <1>1, <1>2, TreeStep

\* A step that opens the node i, of the tree as it is or of one with more nodes.
LEMMA AllocStep ==
    ASSUME NEW m, Sized(m), NEW m2, m2 <= MaxNodes, Evolves(nodes, m, nodes', m2),
           SameData(nodes, m, nodes'), NEW i \in 0 .. m2 - 1, AllocFd(i),
           i = Root \/ i >= m \/ NamedIn(nodes, i) \/ OpenedIn(fds, i),
           result' \in {"ok", "err"}
    PROVE  StepSound
<1>1. /\ m \in Nat \ {0} /\ m2 \in Nat \ {0} /\ m <= m2 /\ TreeOK(nodes, m) /\ TreeOK(nodes', m2)
      /\ DescriptorsOK(fds, nextFd, m)
  BY DEF Sized, Evolves, Keeps, TreeOK
<1>2. /\ DescriptorsOK(fds', nextFd', m2)
      /\ DOMAIN fds' = DOMAIN fds \union {nextFd} /\ nextFd \notin DOMAIN fds
      /\ fds'[nextFd] = [node |-> i, cursor |-> 0]
      /\ \A fd \in DOMAIN fds : fds'[fd] = fds[fd]
  BY <1>1, AllocIs
<1>3. m2 \in 1 .. MaxNodes
  BY <1>1, FsAssumption
<1>4. TreeInv'
  BY <1>1, <1>2, <1>3 DEF TreeInv, Sized
<1>5. OpensKnown(m)
  BY <1>2 DEF OpensKnown, OpenedIn
<1>6. GoneStays
  BY <1>1, <1>5, GoneLemma DEF Evolves
<1>7. \A k \in 0 .. m - 1 : /\ nodes'[k].dir = nodes[k].dir
                            /\ Len(nodes[k].data) <= Len(nodes'[k].data)
                            /\ Len(nodes'[k].data) \in Nat
  BY <1>1, SameIsLong DEF SameData, Evolves
<1>8. \A fd \in DOMAIN fds \intersect DOMAIN fds' :
          fds'[fd].node = fds[fd].node /\ fds'[fd].cursor = fds[fd].cursor
  BY <1>2
<1>9. CutByTruncation
  BY <1>1, <1>2, <1>7, <1>8, CutLemma
<1> QED BY <1>1, GrowsLoopless, <1>4, <1>6, <1>9 DEF StepSound

-----------------------------------------------------------------------------
(***************************************************************************)
(* Each call.                                                              *)
(***************************************************************************)

LEMMA OpenRootStep == ASSUME NEW m, Sized(m), OpenRoot PROVE StepSound
<1>1. TreeOK(nodes, m) /\ m \in 1 .. MaxNodes /\ MaxNodes \in Nat
  BY FsAssumption DEF Sized
<1>2. m <= MaxNodes /\ Root \in 0 .. m - 1
  BY <1>1 DEF Root
<1>3. nodes' = nodes /\ AllocFd(Root) /\ result' \in {"ok", "err"}
  BY DEF OpenRoot
<1>4. Evolves(nodes, m, nodes', m) /\ SameData(nodes, m, nodes')
  BY <1>1, <1>3, EvolvesReflexive
<1> QED BY <1>2, <1>3, <1>4, AllocStep

LEMMA CloseStep ==
    ASSUME NEW m, Sized(m), NEW fd \in DOMAIN fds, Close(fd)
    PROVE  StepSound
<1>1. /\ TreeOK(nodes, m) /\ m \in 1 .. MaxNodes /\ MaxNodes \in Nat
      /\ DescriptorsOK(fds, nextFd, m)
  BY FsAssumption DEF Sized
<1>2. /\ nodes' = nodes /\ nextFd' = nextFd /\ result' \in {"ok", "err"}
      /\ fds' = [k \in DOMAIN fds \ {fd} |-> fds[k]]
  BY DEF Close
<1>3. DOMAIN fds' \subseteq DOMAIN fds /\ \A k \in DOMAIN fds' : fds'[k] = fds[k]
  BY <1>2
<1>4. DescriptorsOK(fds', nextFd', m)
  <2>1. fds' \in [DOMAIN fds' -> [node : 0 .. m - 1, cursor : Nat]]
    BY <1>1, <1>2, <1>3 DEF DescriptorsOK
  <2> QED BY <1>1, <1>2, <1>3, <2>1 DEF DescriptorsOK
<1>5. Evolves(nodes, m, nodes', m) /\ SameData(nodes, m, nodes')
  BY <1>1, <1>2, EvolvesReflexive
<1>6. TreeInv'
  BY <1>1, <1>2, <1>4 DEF TreeInv, Sized
<1>7. OpensKnown(m)
  BY <1>3 DEF OpensKnown, OpenedIn
<1>8. GoneStays
  BY <1>1, <1>5, <1>7, GoneLemma DEF Evolves
<1>9. \A i \in 0 .. m - 1 : /\ nodes'[i].dir = nodes[i].dir
                            /\ Len(nodes[i].data) <= Len(nodes'[i].data)
                            /\ Len(nodes'[i].data) \in Nat
  BY <1>1, <1>5, SameIsLong DEF SameData, Evolves
<1>10. CutByTruncation
  BY <1>1, <1>3, <1>4, <1>9, CutLemma
<1> QED BY <1>1, <1>5, GrowsLoopless, <1>6, <1>8, <1>10 DEF StepSound

\* A step that moves the cursor of a descriptor, within its file as it is then.
LEMMA MoveStep ==
    ASSUME NEW m, Sized(m), NEW fd \in DOMAIN fds, NEW c \in Nat,
           Evolves(nodes, m, nodes', m), fds' = [fds EXCEPT ![fd].cursor = c], nextFd' = nextFd,
           result' = "ok", c <= Len(nodes'[fds[fd].node].data),
           \A i \in 0 .. m - 1 : Len(nodes[i].data) <= Len(nodes'[i].data)
    PROVE  StepSound
<1>1. /\ TreeOK(nodes, m) /\ m \in 1 .. MaxNodes /\ MaxNodes \in Nat
      /\ DescriptorsOK(fds, nextFd, m) /\ TreeOK(nodes', m)
  BY FsAssumption DEF Sized, Evolves, Keeps
<1> DEFINE R == [node : 0 .. m - 1, cursor : Nat]
<1>2. fds \in [DOMAIN fds -> R]
  BY <1>1 DEF DescriptorsOK
<1>3. /\ fds' \in [DOMAIN fds -> R] /\ DOMAIN fds' = DOMAIN fds
      /\ \A k \in DOMAIN fds : fds'[k].node = fds[k].node
      /\ fds'[fd].cursor = c /\ \A k \in DOMAIN fds : k # fd => fds'[k].cursor = fds[k].cursor
  BY <1>2
<1>4. DescriptorsOK(fds', nextFd', m)
  BY <1>1, <1>3 DEF DescriptorsOK
<1>5. TreeInv'
  BY <1>1, <1>4 DEF TreeInv, Sized
<1>6. OpensKnown(m)
  BY <1>3 DEF OpensKnown, OpenedIn
<1>7. GoneStays
  BY <1>1, <1>6, GoneLemma DEF Evolves
<1>8. \A i \in 0 .. m - 1 : /\ nodes'[i].dir = nodes[i].dir
                            /\ Len(nodes[i].data) <= Len(nodes'[i].data)
                            /\ Len(nodes'[i].data) \in Nat
  BY <1>1, SameIsLong DEF Evolves
<1>9. \A k \in DOMAIN fds \intersect DOMAIN fds' :
         /\ fds'[k].node = fds[k].node
         /\ \/ fds'[k].cursor = fds[k].cursor
            \/ fds'[k].cursor <= Len(nodes'[fds[k].node].data)
  BY <1>3
<1>10. CutByTruncation
  BY <1>1, <1>4, <1>8, <1>9, CutLemma
<1> QED BY <1>1, GrowsLoopless, <1>5, <1>7, <1>10 DEF StepSound

LEMMA ReadStep ==
    ASSUME NEW m, Sized(m), NEW fd \in DOMAIN fds, NEW n \in 1 .. MaxSize, Read(fd, n)
    PROVE  StepSound
<1>1. TreeOK(nodes, m) /\ DescriptorsOK(fds, nextFd, m) /\ MaxSize \in Nat
  BY FsAssumption DEF Sized
<1> DEFINE i == fds[fd].node
           l == Len(nodes[i].data)
           end == fds[fd].cursor + n
           c == IF end <= l THEN end ELSE l
<1>2. i \in 0 .. m - 1 /\ fds[fd].cursor \in Nat
  BY <1>1 DEF DescriptorsOK
<1>3. nodes[i].data \in Content
  BY <1>1, <1>2 DEF TreeOK, Node
<1>4. l \in Nat
  BY <1>3, BoundedIsSeq, FsAssumption, LenProperties DEF Content
<1>5. end \in Nat
  BY <1>1, <1>2
<1>6. /\ nodes' = nodes /\ nextFd' = nextFd /\ result' = "ok"
      /\ fds' = [fds EXCEPT ![fd].cursor = c]
  BY DEF Read
<1> HIDE DEF l, end
<1>7. c \in Nat /\ c <= l
  BY <1>4, <1>5
<1>8. Evolves(nodes, m, nodes', m) /\ SameData(nodes, m, nodes')
  BY <1>1, <1>6, EvolvesReflexive
<1>9. \A k \in 0 .. m - 1 : Len(nodes[k].data) <= Len(nodes'[k].data)
  BY <1>1, <1>8, SameIsLong DEF SameData, Evolves
<1>10. c <= Len(nodes'[fds[fd].node].data)
  BY <1>6, <1>7 DEF l
<1> HIDE DEF c
<1> QED BY <1>6, <1>7, <1>8, <1>9, <1>10, MoveStep

\* The data after a write is long enough for the old data and for the bytes, and
\* starts with bytes written at its start.
LEMMA OverwrittenIs ==
    ASSUME NEW data \in Content, NEW start \in Nat, NEW bytes \in SeqOf(Byte, MaxSize),
           start + Len(bytes) <= MaxSize
    PROVE  LET w == Overwritten(data, start, bytes) IN
           /\ w \in Content /\ Len(w) >= Len(data) /\ Len(w) >= start + Len(bytes)
           /\ Len(bytes) \in Nat
           /\ \A k \in 1 .. Len(bytes) : w[start + k] = bytes[k]
<1> DEFINE all == Byte \union {Zero}
           b == Len(bytes)
           l == Len(data)
           end == start + b
           n == IF end > l THEN end ELSE l
           w == [k \in 1 .. n |-> IF k > start /\ k <= end THEN bytes[k - start]
                                  ELSE IF k <= l THEN data[k] ELSE Zero]
<1>1. MaxSize \in Nat
  BY FsAssumption
<1>2. \A s : s \in Content <=> s \in Seq(all) /\ Len(s) <= MaxSize
  BY <1>1, BoundedIsSeq DEF Content
<1>3. bytes \in Seq(Byte) /\ b \in Nat
  BY <1>1, BoundedIsSeq, LenProperties
<1>4. data \in Seq(all) /\ l \in Nat /\ l <= MaxSize
  BY <1>2, LenProperties
<1>5. Overwritten(data, start, bytes) = w
  BY DEF Overwritten
<1>6. n \in Nat /\ n <= MaxSize /\ n >= l /\ n >= end /\ end \in Nat
  BY <1>1, <1>3, <1>4
<1>7. \A k \in 1 .. l : data[k] \in all
  BY <1>4, ElementOfSeq
<1>8. \A k \in 1 .. b : bytes[k] \in all
  BY <1>3, ElementOfSeq
<1>9. ASSUME NEW k \in 1 .. n PROVE w[k] \in all
  <2>1. CASE k > start /\ k <= end
    <3>1. k - start \in 1 .. b
      BY <1>3, <2>1
    <3> QED BY <1>8, <2>1, <3>1
  <2>2. CASE ~ (k > start /\ k <= end) /\ k <= l
    BY <1>7, <2>2
  <2>3. CASE ~ (k > start /\ k <= end) /\ ~ (k <= l)
    BY <2>3
  <2> QED BY <2>1, <2>2, <2>3
<1>10. w \in [1 .. n -> all]
  <2>1. w = [k \in 1 .. n |-> w[k]]
    OBVIOUS
  <2> HIDE DEF w
  <2> QED BY <1>9, <2>1
<1>11. \A k \in 1 .. b : w[start + k] = bytes[k]
  <2> SUFFICES ASSUME NEW k \in 1 .. b PROVE w[start + k] = bytes[k]
    OBVIOUS
  <2>1. /\ start + k \in 1 .. n /\ start + k > start /\ start + k <= end
        /\ (start + k) - start = k
    BY <1>3, <1>6
  <2> QED BY <2>1
<1> HIDE DEF w, n
<1>12. w \in Seq(all) /\ Len(w) = n
  BY <1>6, <1>10
<1>13. w \in Content
  BY <1>2, <1>6, <1>12
<1> QED BY <1>3, <1>5, <1>6, <1>11, <1>12, <1>13

LEMMA WriteStep ==
    ASSUME NEW m, Sized(m), NEW fd \in DOMAIN fds, NEW bytes \in SeqOf(Byte, MaxSize),
           Write(fd, bytes)
    PROVE  StepSound
<1>1. TreeOK(nodes, m) /\ DescriptorsOK(fds, nextFd, m)
  BY DEF Sized
<1> DEFINE i == fds[fd].node
           start == fds[fd].cursor
           w == Overwritten(nodes[i].data, start, bytes)
           c == start + Len(bytes)
<1>2. i \in 0 .. m - 1 /\ start \in Nat /\ ~ nodes[i].dir
  BY <1>1 DEF DescriptorsOK, Write
<1>3. nodes[i].data \in Content
  BY <1>1, <1>2 DEF TreeOK, Node
<1>4. /\ nextFd' = nextFd /\ result' = "ok" /\ start + Len(bytes) <= MaxSize
      /\ nodes' = [nodes EXCEPT ![i] = File(w)]
      /\ fds' = [fds EXCEPT ![fd].cursor = c]
  BY DEF Write
<1>5. /\ w \in Content /\ Len(w) >= Len(nodes[i].data) /\ Len(w) >= c
      /\ Len(bytes) \in Nat
  BY <1>2, <1>3, <1>4, OverwrittenIs
<1>6. c \in Nat
  BY <1>2, <1>5
<1> HIDE DEF w, c
<1>7. /\ Evolves(nodes, m, nodes', m) /\ nodes'[i].data = w
      /\ \A k \in 0 .. m - 1 : k # i => nodes'[k] = nodes[k]
  <2>1. FileSet(nodes, m, [nodes EXCEPT ![i] = File(w)], i, w)
    BY <1>1, <1>2, <1>5, SetFileTree
  <2> QED BY <1>4, <2>1 DEF FileSet
<1>8. \A k \in 0 .. m - 1 : Len(nodes[k].data) <= Len(nodes'[k].data)
  <2> SUFFICES ASSUME NEW k \in 0 .. m - 1 PROVE Len(nodes[k].data) <= Len(nodes'[k].data)
    OBVIOUS
  <2>1. CASE k = i
    <3>1. nodes'[k].data = w
      BY <1>7, <2>1
    <3>2. Len(w) \in Nat /\ Len(nodes[i].data) \in Nat
      BY <1>3, <1>5, BoundedIsSeq, FsAssumption, LenProperties DEF Content
    <3> QED BY <1>5, <2>1, <3>1, <3>2
  <2>2. CASE k # i
    BY <1>1, <1>7, <2>2, SameIsLong DEF Evolves
  <2> QED BY <2>1, <2>2
<1>9. c <= Len(nodes'[fds[fd].node].data)
  <2>1. Len(w) \in Nat
    BY <1>5, BoundedIsSeq, FsAssumption, LenProperties DEF Content
  <2> QED BY <1>5, <1>6, <1>7, <2>1
<1> QED BY <1>4, <1>6, <1>7, <1>8, <1>9, MoveStep

\* A walk from an open node leads to a node that is known.
LEMMA WalkKnown ==
    ASSUME NEW m, Sized(m), NEW fd \in DOMAIN fds, NEW path \in Path,
           Walk(fds[fd].node, path) >= 0
    PROVE  LET i == Walk(fds[fd].node, path) IN
           i \in 0 .. m - 1 /\ (NamedIn(nodes, i) \/ OpenedIn(fds, i))
<1> DEFINE d == fds[fd].node
           i == WalkIn(nodes, d, path)
<1>1. TreeOK(nodes, m) /\ d \in 0 .. m - 1
  BY DEF Sized, DescriptorsOK
<1>2. path \in Seq(Name)
  BY BoundedIsSeq, FsAssumption DEF Path
<1>3. OpenedIn(fds, d)
  BY DEF OpenedIn
<1>4. i >= 0
  BY DEF Walk
<1> HIDE DEF d
<1>5. i \in Place(m) /\ (i >= 0 => i = d \/ NamedIn(nodes, i))
  BY <1>1, <1>2, WalkInTree
<1> HIDE DEF i
<1>6. i \in 0 .. m - 1
  BY <1>4, <1>5 DEF Place, NoEntry, NotDir
<1>7. NamedIn(nodes, i) \/ OpenedIn(fds, i)
  BY <1>3, <1>4, <1>5
<1> QED BY <1>6, <1>7 DEF i, d, Walk

LEMMA OpenExistingStep ==
    ASSUME NEW m, Sized(m), NEW fd \in DOMAIN fds, NEW path \in Path,
           NEW exclusive \in BOOLEAN, NEW directory \in BOOLEAN, NEW truncate \in BOOLEAN,
           OpenExisting(fd, path, exclusive, directory, truncate)
    PROVE  StepSound
<1> DEFINE i == Walk(fds[fd].node, path)
<1>1. /\ TreeOK(nodes, m) /\ m \in 1 .. MaxNodes /\ MaxNodes \in Nat
      /\ DescriptorsOK(fds, nextFd, m)
  BY FsAssumption DEF Sized
<1>2. i >= 0 /\ AllocFd(i) /\ result' \in {"ok", "err"}
  BY DEF OpenExisting
<1>3. nodes' = IF truncate /\ ~ nodes[i].dir THEN [nodes EXCEPT ![i] = File(<<>>)] ELSE nodes
  BY DEF OpenExisting
<1>4. i \in 0 .. m - 1 /\ (NamedIn(nodes, i) \/ OpenedIn(fds, i))
  BY <1>2, WalkKnown
<1> HIDE DEF i
<1>5. CASE nodes' = nodes
  <2>1. Evolves(nodes, m, nodes', m) /\ SameData(nodes, m, nodes')
    BY <1>1, <1>5, EvolvesReflexive
  <2>2. m <= MaxNodes
    BY <1>1
  <2> QED BY <1>2, <1>4, <2>1, <2>2, AllocStep
<1>6. CASE ~ nodes[i].dir /\ nodes' = [nodes EXCEPT ![i] = File(<<>>)]
  <2>1. <<>> \in Content
    BY NewNodes
  <2>2. /\ Evolves(nodes, m, nodes', m) /\ nodes'[i].data = <<>>
        /\ \A k \in 0 .. m - 1 : k # i => nodes'[k] = nodes[k]
    <3>1. FileSet(nodes, m, [nodes EXCEPT ![i] = File(<<>>)], i, <<>>)
      BY <1>1, <1>4, <1>6, <2>1, SetFileTree
    <3> QED BY <1>6, <3>1 DEF FileSet
  <2>3. /\ DescriptorsOK(fds', nextFd', m)
        /\ DOMAIN fds' = DOMAIN fds \union {nextFd} /\ nextFd \notin DOMAIN fds
        /\ fds'[nextFd] = [node |-> i, cursor |-> 0]
        /\ \A k \in DOMAIN fds : fds'[k] = fds[k]
    BY <1>1, <1>2, <1>4, AllocIs
  <2>4. TreeInv'
    BY <1>1, <1>2, <2>2, <2>3 DEF TreeInv, Sized, Evolves, Keeps
  <2>5. OpensKnown(m)
    BY <1>4, <2>3 DEF OpensKnown, OpenedIn
  <2>6. GoneStays
    BY <1>1, <2>2, <2>5, GoneLemma DEF Evolves
  <2>7. CutByTruncation
    <3> SUFFICES ASSUME NEW k \in DOMAIN fds \intersect DOMAIN fds',
                        ~ ReadPanics(k), ReadPanics(k)'
                 PROVE  /\ nodes'[fds[k].node].data = <<>>
                        /\ \E other \in DOMAIN fds' \ DOMAIN fds : fds'[other].node = fds[k].node
      BY DEF CutByTruncation
    <3>1. fds'[k] = fds[k] /\ fds[k].node \in 0 .. m - 1
      BY <1>1, <2>3 DEF DescriptorsOK
    <3>2. fds[k].node = i
      <4> SUFFICES ASSUME fds[k].node # i PROVE FALSE
        OBVIOUS
      <4>1. nodes'[fds[k].node] = nodes[fds[k].node]
        BY <2>2, <3>1
      <4> QED BY <3>1, <4>1 DEF ReadPanics
    <3>3. nextFd \in DOMAIN fds' \ DOMAIN fds /\ fds'[nextFd].node = i
      BY <2>3
    <3> QED BY <2>2, <3>2, <3>3
  <2> QED BY <1>1, <2>2, GrowsLoopless, <2>4, <2>6, <2>7 DEF StepSound
<1> QED BY <1>3, <1>5, <1>6

LEMMA OpenCreateStep ==
    ASSUME NEW m, Sized(m), NEW fd \in DOMAIN fds, NEW path \in Path, NEW directory \in BOOLEAN,
           OpenCreate(fd, path, directory)
    PROVE  StepSound
<1> DEFINE d == fds[fd].node
           new == IF directory THEN EmptyDirectory ELSE File(<<>>)
           parent == Parent(d, path)
<1>1. /\ TreeOK(nodes, m) /\ m \in 1 .. MaxNodes /\ MaxNodes \in Nat
      /\ d \in 0 .. m - 1
  BY FsAssumption DEF Sized, DescriptorsOK
<1>2. /\ Walk(d, path) = NoEntry /\ Fresh < MaxNodes
      /\ \/ /\ parent >= 0
            /\ nodes' = Bind(Push(nodes, new), parent, Last(path), Fresh)
            /\ AllocFd(Fresh)
            /\ result' = "ok"
         \/ /\ parent < 0
            /\ nodes' = Push(nodes, new)
            /\ result' = "err"
            /\ UNCHANGED <<fds, nextFd>>
  BY DEF OpenCreate
<1>3. Fresh = m
  BY <1>1, TreeSize DEF Fresh
<1>4. new \in Node /\ OfAKind(new) /\ DOMAIN new.entries = {}
  BY NewNodes DEF OfAKind
<1>5. path \in Seq(Name)
  BY BoundedIsSeq, FsAssumption DEF Path
<1>6. path # <<>>
  <2> SUFFICES ASSUME path = <<>> PROVE FALSE
    OBVIOUS
  <2>1. NameByName(nodes, d, Name)
    BY WalkStep
  <2>2. WalkIn(nodes, d, <<>>) = d
    BY <2>1 DEF NameByName
  <2>3. d = NoEntry
    BY <1>2, <2>2 DEF Walk
  <2> QED BY <1>1, <2>3 DEF NoEntry
<1>7. /\ parent \in Place(m) /\ Last(path) \in Name
      /\ Walk(d, path) = Look(nodes, parent, Last(path))
  BY <1>1, <1>5, <1>6, EntryInTree
<1> HIDE DEF new, d, parent
<1>8. m + 1 <= MaxNodes /\ m \in 0 .. (m + 1) - 1 /\ m >= m /\ m \in Nat
  BY <1>1, <1>2, <1>3
<1>9. CASE /\ parent >= 0
           /\ nodes' = Bind(Push(nodes, new), parent, Last(path), Fresh)
           /\ AllocFd(Fresh)
           /\ result' = "ok"
  <2>1. parent \in 0 .. m - 1 /\ nodes[parent].dir
    BY <1>1, <1>2, <1>7, <1>9, LookInTree
  <2>2. Created(nodes, m, Bind(Push(nodes, new), parent, Last(path), m), parent, Last(path), new)
    BY <1>1, <1>4, <1>7, <2>1, CreateTree
  <2>3. Evolves(nodes, m, nodes', m + 1) /\ SameData(nodes, m, nodes')
    BY <1>3, <1>9, <2>2 DEF Created
  <2>4. AllocFd(m) /\ result' \in {"ok", "err"}
    BY <1>3, <1>9
  <2> QED BY <1>8, <2>3, <2>4, AllocStep
<1>10. CASE /\ nodes' = Push(nodes, new)
            /\ result' = "err"
            /\ UNCHANGED <<fds, nextFd>>
  <2>1. Evolves(nodes, m, nodes', m + 1) /\ \A k \in 0 .. m - 1 : nodes'[k] = nodes[k]
    BY <1>1, <1>4, <1>10, PushTree
  <2>2. SameData(nodes, m, nodes')
    BY <2>1 DEF SameData
  <2> QED BY <1>8, <1>10, <2>1, <2>2, GrowStep
<1> QED BY <1>2, <1>9, <1>10

LEMMA CreateDirectoryAtStep ==
    ASSUME NEW m, Sized(m), NEW fd \in DOMAIN fds, NEW path \in Path, CreateDirectoryAt(fd, path)
    PROVE  StepSound
<1> DEFINE d == fds[fd].node
           end == Descended(State(nodes, d), path)
<1>1. TreeOK(nodes, m) /\ d \in 0 .. m - 1
  BY DEF Sized, DescriptorsOK
<1>2. path \in Seq(Name)
  BY BoundedIsSeq, FsAssumption DEF Path
<1>3. Made(nodes, m, end)
  BY <1>1, <1>2, DescendedMakes
<1>4. /\ Cardinality(DOMAIN end.nodes) <= MaxNodes
      /\ nodes' = end.nodes /\ result' \in {"ok", "err"} /\ UNCHANGED <<fds, nextFd>>
  BY DEF CreateDirectoryAt, State
<1> HIDE DEF end
<1>5. PICK k : Evolves(nodes, m, end.nodes, k) /\ SameData(nodes, m, end.nodes)
  BY <1>3 DEF Made
<1>6. k <= MaxNodes
  BY <1>4, <1>5, TreeSize DEF Evolves, Keeps
<1> QED BY <1>4, <1>5, <1>6, GrowStep

LEMMA UnlinkStep ==
    ASSUME NEW m, Sized(m), NEW fd \in DOMAIN fds, NEW path \in Path,
           UnlinkFileAt(fd, path) \/ RemoveDirectoryAt(fd, path)
    PROVE  StepSound
<1> DEFINE d == fds[fd].node
<1>1. /\ TreeOK(nodes, m) /\ d \in 0 .. m - 1 /\ m \in 1 .. MaxNodes /\ MaxNodes \in Nat
  BY FsAssumption DEF Sized, DescriptorsOK
<1>2. path \in Seq(Name)
  BY BoundedIsSeq, FsAssumption DEF Path
<1>3. /\ path # <<>> /\ Entry(d, path) >= 0
      /\ nodes' = Unbind(nodes, Parent(d, path), Last(path))
      /\ result' \in {"ok", "err"} /\ UNCHANGED <<fds, nextFd>>
  BY DEF UnlinkFileAt, RemoveDirectoryAt
<1> HIDE DEF d
<1>4. /\ Parent(d, path) \in 0 .. m - 1
      /\ Last(path) \in DOMAIN nodes[Parent(d, path)].entries
  BY <1>1, <1>2, <1>3, EntryInTree
<1>5. Evolves(nodes, m, nodes', m) /\ SameData(nodes, m, nodes')
  BY <1>1, <1>3, <1>4, UnbindTree
<1>6. m <= MaxNodes
  BY <1>1
<1> QED BY <1>3, <1>5, <1>6, GrowStep

LEMMA RenameStep ==
    ASSUME NEW m, Sized(m), NEW oldFd \in DOMAIN fds, NEW oldPath \in Path,
           NEW newFd \in DOMAIN fds, NEW newPath \in Path,
           RenameFinds(oldFd, oldPath), RenameAt(oldFd, oldPath, newFd, newPath)
    PROVE  StepSound
<1> DEFINE old == fds[oldFd].node
           new == fds[newFd].node
           p == Parent(old, oldPath)
           name == Last(oldPath)
           to == Parent(new, newPath)
<1>1. /\ TreeOK(nodes, m) /\ old \in 0 .. m - 1 /\ new \in 0 .. m - 1
      /\ m \in 1 .. MaxNodes /\ MaxNodes \in Nat
  BY FsAssumption DEF Sized, DescriptorsOK
<1>2. oldPath \in Seq(Name) /\ newPath \in Seq(Name)
  BY BoundedIsSeq, FsAssumption DEF Path
<1>3. oldPath # <<>> /\ Entry(old, oldPath) >= 0
  BY DEF RenameFinds
<1>4. /\ newPath # <<>> /\ to >= 0
      /\ \/ nodes[to].dir /\ nodes' = Bind(Unbind(nodes, p, name), to, Last(newPath), Entry(old, oldPath))
         \/ nodes' = Unbind(nodes, p, name)
      /\ result' \in {"ok", "err"} /\ UNCHANGED <<fds, nextFd>>
  BY DEF RenameAt
<1>5. /\ p \in 0 .. m - 1 /\ name \in DOMAIN nodes[p].entries
      /\ Entry(old, oldPath) = nodes[p].entries[name]
  BY <1>1, <1>2, <1>3, EntryInTree
<1>6. to \in Place(m) /\ Last(newPath) \in Name
  BY <1>1, <1>2, <1>4, EntryInTree
<1> HIDE DEF p, name, to, old, new
<1>7. to \in 0 .. m - 1
  BY <1>4, <1>6 DEF Place, NoEntry, NotDir
<1> DEFINE moved == nodes[p].entries[name]
<1>8. m <= MaxNodes
  BY <1>1
<1>9. CASE nodes' = Unbind(nodes, p, name)
  <2>1. Evolves(nodes, m, nodes', m) /\ SameData(nodes, m, nodes')
    BY <1>1, <1>5, <1>9, UnbindTree
  <2> QED BY <1>4, <1>8, <2>1, GrowStep
<1>10. CASE nodes[to].dir /\ nodes' = Bind(Unbind(nodes, p, name), to, Last(newPath), moved)
  <2>1. /\ Keeps(nodes, m, nodes', m) /\ SameData(nodes, m, nodes')
        /\ OneMoved(nodes, m, nodes', to, moved)
    BY <1>1, <1>5, <1>6, <1>7, <1>10, RenameTree
  <2>2. DOMAIN nodes = 0 .. m - 1 /\ DOMAIN nodes' = 0 .. m - 1
    BY <1>1, <2>1 DEF Keeps, TreeOK
  <2> HIDE DEF moved
  <2>3. ASSUME NEW d \in DOMAIN nodes', NEW i \in Held(nodes', d) \ Held(nodes, d)
        PROVE  d = to /\ i = moved
    <3>1. PICK n \in DOMAIN nodes'[d].entries : i = nodes'[d].entries[n]
      BY <2>3 DEF Held
    <3>2. ~ (n \in DOMAIN nodes[d].entries /\ nodes[d].entries[n] = nodes'[d].entries[n])
      BY <2>2, <2>3, <3>1 DEF Held
    <3> QED BY <2>1, <2>2, <3>1, <3>2 DEF OneMoved
  <2>4. ASSUME Reaches(nodes', moved, to) PROVE Reaches(nodes, moved, to)
    <3> SUFFICES ASSUME NEW C \in SUBSET (DOMAIN nodes \ {to}), moved \in C
                 PROVE  \E d \in C : ~ (Held(nodes, d) \subseteq C)
      BY DEF Reaches
    <3>1. PICK d \in C : ~ (Held(nodes', d) \subseteq C)
      BY <2>2, <2>4 DEF Reaches
    <3>2. Held(nodes', d) \subseteq Held(nodes, d)
      BY <2>2, <2>3, <3>1
    <3> QED BY <3>1, <3>2
  <2>5. LoopsByRename
    <3> SUFFICES ASSUME NEW d \in DOMAIN nodes', NEW i \in Held(nodes', d) \ Held(nodes, d),
                        Reaches(nodes', i, d)
                 PROVE  /\ Reaches(nodes, i, d)
                        /\ Entry(fds[oldFd].node, oldPath) = i
                        /\ Parent(fds[newFd].node, newPath) = d
      BY DEF LoopsByRename
    <3>1. d = to /\ i = moved
      BY <2>3
    <3> QED BY <1>5, <2>4, <3>1 DEF moved, to, old, new
  <2> QED BY <1>4, <1>8, <2>1, <2>5, TreeStep
<1> QED BY <1>4, <1>5, <1>9, <1>10

-----------------------------------------------------------------------------
(***************************************************************************)
(* A preload.                                                              *)
(***************************************************************************)

\* A prefix of the path leads to a file.
FileOn(ns, path) ==
    \E k \in 1 .. Len(path) :
        LET i == WalkIn(ns, Root, SubSeq(path, 1, k)) IN i >= 0 /\ ~ ns[i].dir

LEMMA FileOnAppend ==
    ASSUME NEW ns, NEW s \in Seq(Name), NEW x \in Name
    PROVE  /\ ~ FileOn(ns, <<>>)
           /\ FileOn(ns, Append(s, x)) <=>
                  \/ FileOn(ns, s)
                  \/ LET i == WalkIn(ns, Root, Append(s, x)) IN i >= 0 /\ ~ ns[i].dir
<1> DEFINE t == Append(s, x)
           F(q) == LET i == WalkIn(ns, Root, q) IN i >= 0 /\ ~ ns[i].dir
<1>1. Len(t) = Len(s) + 1 /\ Len(s) \in Nat
  BY AppendProperties, LenProperties
<1>2. /\ \A k \in 1 .. Len(s) : SubSeq(t, 1, k) = SubSeq(s, 1, k)
      /\ SubSeq(t, 1, Len(s) + 1) = t
  BY PrefixOfAppend
<1>3. FileOn(ns, t) <=> \E k \in 1 .. Len(t) : F(SubSeq(t, 1, k))
  BY DEF FileOn
<1>4. FileOn(ns, s) <=> \E k \in 1 .. Len(s) : F(SubSeq(s, 1, k))
  BY DEF FileOn
<1>5. ~ FileOn(ns, <<>>)
  <2>1. Len(<<>>) = 0
    BY EmptySeq
  <2> QED BY <2>1 DEF FileOn
<1> HIDE DEF t, F
<1>6. \A k \in 1 .. Len(t) : k \in 1 .. Len(s) \/ k = Len(s) + 1
  BY <1>1
<1>7. (\A k \in 1 .. Len(s) : k \in 1 .. Len(t)) /\ Len(s) + 1 \in 1 .. Len(t)
  BY <1>1
<1>8. FileOn(ns, t) <=> FileOn(ns, s) \/ F(t)
  BY <1>2, <1>3, <1>4, <1>6, <1>7
<1> QED BY <1>5, <1>8 DEF t, F

\* How far the directories along a path are, in the tree ns of m nodes: all found,
\* some made (they are new, and the last is empty), or stopped by a file.
AllFound(ns, m, s, st) ==
    /\ WalkIn(ns, Root, s) \in 0 .. m - 1 /\ ns[WalkIn(ns, Root, s)].dir
    /\ st = State(ns, WalkIn(ns, Root, s))
    /\ ~ FileOn(ns, s)
SomeMade(ns, m, s, st, k) ==
    /\ Evolves(ns, m, st.nodes, k) /\ SameData(ns, m, st.nodes) /\ SameEntries(ns, m, st.nodes)
    /\ st = State(st.nodes, st.current) /\ st.current \in 0 .. k - 1
    /\ st.nodes[st.current].dir /\ DOMAIN st.nodes[st.current].entries = {}
    /\ WalkIn(st.nodes, Root, s) = st.current
    /\ WalkIn(ns, Root, s) = NoEntry
    /\ ~ FileOn(ns, s)
Stopped(ns, s, st) == st = State(ns, NotDir) /\ FileOn(ns, s)
Along(ns, m, s, st) ==
    AllFound(ns, m, s, st) \/ (\E k : SomeMade(ns, m, s, st, k)) \/ Stopped(ns, s, st)

\* A directory made at the end of a path is where the longer path leads.
LEMMA MadeIsFound ==
    ASSUME NEW ns, NEW k, TreeOK(ns, k), NEW s \in Seq(Name), NEW x \in Name,
           NEW c \in 0 .. k - 1, WalkIn(ns, Root, s) = c,
           NEW ns2, NEW node, Created(ns, k, ns2, c, x, node), SameEntries(ns, k, ns2)
    PROVE  WalkIn(ns2, Root, Append(s, x)) = k
<1>1. Root \in 0 .. k - 1 /\ k \in Nat
  BY DEF TreeOK, Root
<1>2. Evolves(ns, k, ns2, k + 1)
  BY DEF Created
<1>3. WalkIn(ns2, Root, s) = c
  <2>1. WalkIn(ns, Root, s) >= 0
    BY <1>1
  <2> QED BY <1>1, <1>2, <2>1, WalkStays
<1>4. NameByName(ns2, Root, Name)
  BY WalkStep
<1>5. WalkIn(ns2, Root, Append(s, x)) = Look(ns2, WalkIn(ns2, Root, s), x)
  BY ONLY <1>4, s \in Seq(Name), x \in Name DEF NameByName
<1>6. ns2[c].dir /\ x \in DOMAIN ns2[c].entries /\ ns2[c].entries[x] = k
  BY DEF Created
<1>7. ~ (c < 0)
  BY <1>1
<1>8. Look(ns2, c, x) = k
  BY <1>6, <1>7 DEF Look
<1> QED BY <1>3, <1>5, <1>8

LEMMA AlongStep ==
    ASSUME NEW ns, NEW m, TreeOK(ns, m), NEW s \in Seq(Name), NEW st, Along(ns, m, s, st),
           NEW x \in Name
    PROVE  Along(ns, m, Append(s, x), Descend(st, x))
<1> DEFINE w == WalkIn(ns, Root, s)
           v == WalkIn(ns, Root, Append(s, x))
           r == Descend(st, x)
<1>1. m \in Nat \ {0} /\ Root \in 0 .. m - 1
  BY DEF TreeOK, Root
<1>2. v = Look(ns, w, x)
  <2>1. NameByName(ns, Root, Name)
    BY WalkStep
  <2> QED BY ONLY <2>1, s \in Seq(Name), x \in Name DEF NameByName
<1>3. FileOn(ns, Append(s, x)) <=> FileOn(ns, s) \/ (v >= 0 /\ ~ ns[v].dir)
  BY FileOnAppend
<1>4. w \in Place(m) /\ v \in Place(m)
  <2>1. Append(s, x) \in Seq(Name)
    BY AppendProperties
  <2> QED BY <1>1, <2>1, WalkInTree
<1> HIDE DEF w, v, r
<1>5. CASE AllFound(ns, m, s, st)
  <2>1. w \in 0 .. m - 1 /\ ns[w].dir /\ st = State(ns, w) /\ ~ FileOn(ns, s)
    BY <1>5 DEF AllFound, w
  <2>2. Iteration(ns, m, w, x, r)
    BY <1>4, <2>1, DescendIs DEF r
  <2>3. ~ (w < 0) /\ w >= 0
    BY <1>1, <2>1
  <2>4. CASE v >= 0 /\ ns[v].dir /\ r = State(ns, v)
    <3>1. v \in 0 .. m - 1
      BY <1>1, <1>4, <2>4 DEF Place, NoEntry, NotDir
    <3>2. AllFound(ns, m, Append(s, x), r)
      BY <1>3, <2>1, <2>4, <3>1 DEF AllFound, v
    <3> QED BY <3>2 DEF Along, r
  <2>5. CASE v >= 0 /\ ~ ns[v].dir /\ r = State(ns, NotDir)
    BY <1>3, <2>5 DEF Along, Stopped, r
  <2>6. CASE /\ v = NoEntry
             /\ r = State(r.nodes, m)
             /\ Created(ns, m, r.nodes, w, x, EmptyDirectory) /\ SameEntries(ns, m, r.nodes)
    <3>1. r.current = m
      BY <2>6 DEF State
    <3>2. /\ Evolves(ns, m, r.nodes, m + 1) /\ SameData(ns, m, r.nodes)
          /\ r.nodes[m].dir /\ DOMAIN r.nodes[m].entries = {}
      BY <2>6, NewNodes DEF Created
    <3>3. WalkIn(r.nodes, Root, Append(s, x)) = m
      BY <2>1, <2>6, MadeIsFound DEF w
    <3>4. m \in 0 .. (m + 1) - 1
      BY <1>1
    <3>5. ~ FileOn(ns, Append(s, x))
      BY <1>3, <2>1, <2>6 DEF NoEntry
    <3>6. SomeMade(ns, m, Append(s, x), r, m + 1)
      BY <2>6, <3>1, <3>2, <3>3, <3>4, <3>5 DEF SomeMade, v
    <3> QED BY <3>6 DEF Along, r
  <2> QED BY <1>2, <2>1, <2>2, <2>3, <2>4, <2>5, <2>6 DEF Iteration
<1>6. ASSUME NEW k, SomeMade(ns, m, s, st, k) PROVE Along(ns, m, Append(s, x), r)
  <2> DEFINE os == st.nodes
             c == st.current
  <2>1. /\ Evolves(ns, m, os, k) /\ SameData(ns, m, os) /\ SameEntries(ns, m, os)
        /\ st = State(os, c) /\ c \in 0 .. k - 1
        /\ os[c].dir /\ DOMAIN os[c].entries = {}
        /\ WalkIn(os, Root, s) = c /\ w = NoEntry /\ ~ FileOn(ns, s)
    BY <1>6 DEF SomeMade, w
  <2> HIDE DEF os, c
  <2>2. TreeOK(os, k) /\ k \in Nat
    BY <2>1 DEF Evolves, Keeps, TreeOK
  <2>3. c \in Place(k) /\ ~ (c < 0) /\ c >= 0
    BY <2>1, <2>2 DEF Place
  <2>4. Iteration(os, k, c, x, r)
    BY <2>1, <2>2, <2>3, DescendIs DEF r
  <2>5. Look(os, c, x) = NoEntry
    BY <2>1, <2>3 DEF Look
  <2>6. NoEntry # NotDir /\ ~ (NoEntry >= 0) /\ NoEntry < 0
    BY DEF NoEntry, NotDir
  <2>7. /\ r = State(r.nodes, k)
        /\ Created(os, k, r.nodes, c, x, EmptyDirectory) /\ SameEntries(os, k, r.nodes)
    BY <2>3, <2>4, <2>5, <2>6 DEF Iteration
  <2>8. v = NoEntry
    BY <1>2, <2>1, <2>6 DEF Look
  <2>9. r.current = k
    BY <2>7 DEF State
  <2>10. /\ Evolves(os, k, r.nodes, k + 1) /\ SameData(os, k, r.nodes)
         /\ r.nodes[k].dir /\ DOMAIN r.nodes[k].entries = {}
    BY <2>7, NewNodes DEF Created
  <2>11. /\ Evolves(ns, m, r.nodes, k + 1) /\ SameData(ns, m, r.nodes)
         /\ SameEntries(ns, m, r.nodes)
    BY <2>1, <2>7, <2>10, EvolvesTransitive
  <2>12. WalkIn(r.nodes, Root, Append(s, x)) = k
    BY <2>1, <2>2, <2>7, MadeIsFound
  <2>13. k \in 0 .. (k + 1) - 1
    BY <2>2
  <2>14. ~ FileOn(ns, Append(s, x))
    BY <1>3, <2>1, <2>6, <2>8
  <2>15. SomeMade(ns, m, Append(s, x), r, k + 1)
    BY <2>7, <2>8, <2>9, <2>10, <2>11, <2>12, <2>13, <2>14 DEF SomeMade, v
  <2> QED BY <2>15 DEF Along
<1>7. CASE Stopped(ns, s, st)
  <2>1. st = State(ns, NotDir) /\ FileOn(ns, s)
    BY <1>7 DEF Stopped
  <2>2. NotDir \in Place(m) /\ NotDir < 0 /\ ~ (NotDir >= 0)
    BY DEF Place, NotDir
  <2>3. Iteration(ns, m, NotDir, x, r)
    BY <2>1, <2>2, DescendIs DEF r
  <2>4. r = State(ns, NotDir)
    BY <2>2, <2>3 DEF Iteration
  <2> QED BY <1>3, <2>1, <2>4 DEF Along, Stopped, r
<1> QED BY <1>5, <1>6, <1>7 DEF Along, r

LEMMA DescendedAlong ==
    ASSUME NEW ns, NEW m, TreeOK(ns, m)
    PROVE  \A s \in Seq(Name) : Along(ns, m, s, Descended(State(ns, Root), s))
<1> DEFINE D(s) == Descended(State(ns, Root), s)
           P == {s \in Seq(Name) : Along(ns, m, s, D(s))}
<1>1. /\ D(<<>>) = State(ns, Root)
      /\ \A s \in Seq(Name) : \A x \in Name : D(Append(s, x)) = Descend(D(s), x)
  <2>1. PartByPart(State(ns, Root), Name)
    BY DescendedStep
  <2> QED BY <2>1 DEF PartByPart
<1> HIDE DEF D
<1>2. <<>> \in P
  <2>1. NameByName(ns, Root, Name)
    BY WalkStep
  <2>2. WalkIn(ns, Root, <<>>) = Root
    BY <2>1 DEF NameByName
  <2>3. Root \in 0 .. m - 1 /\ ns[Root].dir
    BY DEF TreeOK, Root
  <2>4. ~ FileOn(ns, <<>>)
    <3>1. Len(<<>>) = 0
      BY EmptySeq
    <3> QED BY <3>1 DEF FileOn
  <2>5. AllFound(ns, m, <<>>, State(ns, Root))
    BY <2>2, <2>3, <2>4 DEF AllFound
  <2> QED BY <1>1, <2>5, EmptySeq DEF Along
<1>3. ASSUME NEW s \in P, NEW x \in Name PROVE Append(s, x) \in P
  BY <1>1, AlongStep, AppendProperties
<1>4. P = Seq(Name)
  <2> HIDE DEF P
  <2>1. P \in SUBSET Seq(Name)
    BY DEF P
  <2> QED BY <1>2, <1>3, <2>1, SeqSetInduction
<1> QED BY <1>4 DEF D

\* What a preload meets: a file in the way of its directories, a node at its path, or
\* directories, some of them new, and nothing at its path.
Blocked(path, st) == st = State(nodes, NotDir) /\ InTheWay(path)
Meets(m, path, st) ==
    /\ st.nodes = nodes /\ st.current >= 0
    /\ Walk(Root, path) \in 0 .. m - 1
    /\ Walk(Root, path) = Root \/ NamedIn(nodes, Walk(Root, path))
    /\ InTheWay(path) <=> nodes[Walk(Root, path)].dir
Clear(m, path, st, k) ==
    /\ path # <<>> /\ Front(path) \in Seq(Name) /\ Last(path) \in Name
    /\ path = Append(Front(path), Last(path))
    /\ Evolves(nodes, m, st.nodes, k) /\ SameData(nodes, m, st.nodes)
    /\ SameEntries(nodes, m, st.nodes)
    /\ st.current \in 0 .. k - 1 /\ st.nodes[st.current].dir
    /\ Last(path) \notin DOMAIN st.nodes[st.current].entries
    /\ WalkIn(st.nodes, Root, Front(path)) = st.current
    /\ WalkIn(st.nodes, Root, path) = NoEntry
    /\ Walk(Root, path) = NoEntry
    /\ ~ InTheWay(path)

LEMMA Approach ==
    ASSUME NEW m, TreeOK(nodes, m), NEW path \in Path
    PROVE  LET st == PreloadParents(path) IN
           Blocked(path, st) \/ Meets(m, path, st) \/ \E k : Clear(m, path, st, k)
<1> DEFINE st == PreloadParents(path)
           i == WalkIn(nodes, Root, path)
<1>1. path \in Seq(Name)
  BY BoundedIsSeq, FsAssumption DEF Path
<1>2. st = Descended(State(nodes, Root), Front(path))
  BY DEF PreloadParents, State
<1>3. m \in Nat \ {0} /\ Root \in 0 .. m - 1 /\ Root = 0 /\ nodes[Root].dir
  BY DEF TreeOK, Root
<1>4. NameByName(nodes, Root, Name)
  BY WalkStep
<1>5. CASE path = <<>>
  <2>1. Len(path) = 0 /\ <<>> \in Seq(Name)
    BY <1>5, EmptySeq
  <2>2. Front(path) = <<>>
    <3>1. Front(path) = SubSeq(path, 1, Len(path) - 1)
      BY DEF Front
    <3> QED BY <2>1, <3>1, SubSeqEmpty
  <2>3. PartByPart(State(nodes, Root), Name)
    BY DescendedStep
  <2>4. st = State(nodes, Root)
    BY <1>2, <2>2, <2>3 DEF PartByPart
  <2>5. st.nodes = nodes /\ st.current = Root
    BY <2>4 DEF State
  <2>6. i = Root
    BY <1>4, <1>5 DEF NameByName
  <2>7. InTheWay(path)
    BY <1>3, <2>6 DEF InTheWay, Walk
  <2>8. Meets(m, path, st)
    <3> HIDE DEF st
    <3>1. Walk(Root, path) = Root
      BY <2>6 DEF Walk
    <3> QED BY <1>3, <2>5, <2>7, <3>1 DEF Meets
  <2> QED BY <2>8
<1>6. CASE path # <<>>
  <2> DEFINE f == Front(path)
             x == Last(path)
  <2>1. f \in Seq(Name) /\ x \in Name /\ path = Append(f, x)
    BY <1>1, <1>6, FrontAndLast
  <2>2. Len(path) = Len(f) + 1 /\ Len(f) \in Nat
    BY <2>1, AppendProperties, LenProperties
  <2>3. Along(nodes, m, f, st)
    BY <1>2, <2>1, DescendedAlong
  <2> HIDE DEF f, x, st
  <2>4. i = Look(nodes, WalkIn(nodes, Root, f), x)
    BY ONLY <1>4, <2>1 DEF NameByName
  <2>5. InTheWay(path) <=> FileOn(nodes, f) \/ (i >= 0 /\ nodes[i].dir)
    <3>1. \A k \in 1 .. Len(f) : SubSeq(path, 1, k) = SubSeq(f, 1, k)
      BY <2>1, PrefixOfAppend
    <3>2. Len(path) - 1 = Len(f)
      BY <2>2
    <3> DEFINE G(q) == LET j == WalkIn(nodes, Root, q) IN j >= 0 /\ ~ nodes[j].dir
    <3>3. FileOn(nodes, f) <=> \E k \in 1 .. Len(f) : G(SubSeq(f, 1, k))
      BY DEF FileOn
    <3>4. InTheWay(path) <=> \/ \E k \in 1 .. Len(f) : G(SubSeq(path, 1, k))
                             \/ i >= 0 /\ nodes[i].dir
      BY <3>2 DEF InTheWay, Walk
    <3> HIDE DEF G
    <3> QED BY <3>1, <3>3, <3>4
  <2>6. i \in Place(m) /\ (i >= 0 => i = Root \/ NamedIn(nodes, i))
    BY <1>1, <1>3, WalkInTree
  <2>7. Walk(Root, path) = i
    BY DEF Walk
  <2> HIDE DEF i
  <2>8. i < 0 \/ i \in 0 .. m - 1
    BY <2>6 DEF Place, NoEntry, NotDir
  <2>9. NoEntry < 0 /\ ~ (NoEntry >= 0)
    BY DEF NoEntry
  <2>10. CASE AllFound(nodes, m, f, st)
    <3> DEFINE c == WalkIn(nodes, Root, f)
    <3>1. c \in 0 .. m - 1 /\ nodes[c].dir /\ st = State(nodes, c) /\ ~ FileOn(nodes, f)
      BY <2>10 DEF AllFound
    <3>2. st.nodes = nodes /\ st.current = c
      BY <3>1 DEF State
    <3> HIDE DEF c
    <3>3. c >= 0 /\ ~ (c < 0) /\ c \in Place(m)
      BY <1>3, <3>1 DEF Place
    <3>4. CASE i \in 0 .. m - 1
      <4>1. i >= 0
        BY <1>3, <3>4
      <4>2. Meets(m, path, st)
        BY <2>5, <2>6, <2>7, <3>1, <3>2, <3>3, <3>4, <4>1 DEF Meets
      <4> QED BY <4>2 DEF st
    <3>5. CASE i < 0
      <4>1. x \notin DOMAIN nodes[c].entries /\ i = NoEntry
        <5>1. i = Look(nodes, c, x)
          BY <2>4 DEF c
        <5>2. CASE x \in DOMAIN nodes[c].entries
          <6>1. i = nodes[c].entries[x]
            BY <3>1, <3>3, <5>1, <5>2 DEF Look
          <6>2. nodes[c].entries[x] \in 1 .. m - 1
            BY <3>1, <5>2 DEF TreeOK
          <6> QED BY <1>3, <3>5, <6>1, <6>2
        <5>3. CASE x \notin DOMAIN nodes[c].entries
          BY <3>1, <3>3, <5>1, <5>3 DEF Look
        <5> QED BY <5>2, <5>3
      <4>2. Evolves(nodes, m, nodes, m) /\ SameData(nodes, m, nodes) /\ SameEntries(nodes, m, nodes)
        BY EvolvesReflexive
      <4>3. ~ InTheWay(path)
        BY <2>5, <2>9, <3>1, <4>1
      <4>4. WalkIn(nodes, Root, path) = NoEntry /\ WalkIn(nodes, Root, f) = c
        BY <4>1 DEF i, c
      <4>5. Clear(m, path, st, m)
        BY <1>6, <2>1, <2>7, <3>1, <3>2, <4>1, <4>2, <4>3, <4>4 DEF Clear, f, x
      <4> QED BY <4>5 DEF st
    <3> QED BY <2>8, <3>4, <3>5
  <2>11. ASSUME NEW k, SomeMade(nodes, m, f, st, k) PROVE Clear(m, path, st, k)
    <3> DEFINE os == st.nodes
               c == st.current
    <3>1. /\ Evolves(nodes, m, os, k) /\ SameData(nodes, m, os) /\ SameEntries(nodes, m, os)
          /\ c \in 0 .. k - 1
          /\ os[c].dir /\ DOMAIN os[c].entries = {}
          /\ WalkIn(os, Root, f) = c /\ WalkIn(nodes, Root, f) = NoEntry /\ ~ FileOn(nodes, f)
      BY <2>11 DEF SomeMade
    <3> HIDE DEF os, c
    <3>2. k \in Nat
      BY <3>1 DEF Evolves, Keeps, TreeOK
    <3>3. ~ (c < 0)
      BY <3>1, <3>2
    <3>4. NameByName(os, Root, Name)
      BY WalkStep
    <3>5. WalkIn(os, Root, path) = Look(os, WalkIn(os, Root, f), x)
      BY ONLY <2>1, <3>4 DEF NameByName
    <3>6. WalkIn(os, Root, path) = NoEntry /\ x \notin DOMAIN os[c].entries
      BY <3>1, <3>3, <3>5 DEF Look
    <3>7. i = NoEntry
      BY <2>4, <2>9, <3>1 DEF Look
    <3>8. ~ InTheWay(path)
      BY <2>5, <2>9, <3>1, <3>7
    <3> QED BY <1>6, <2>1, <2>7, <3>1, <3>6, <3>7, <3>8 DEF Clear, f, x, os, c
  <2>12. CASE Stopped(nodes, f, st)
    <3>1. Blocked(path, st)
      BY <2>5, <2>12 DEF Blocked, Stopped
    <3> QED BY <3>1 DEF st
  <2>13. Blocked(path, st) \/ Meets(m, path, st) \/ \E k : Clear(m, path, st, k)
    BY <2>3, <2>10, <2>11, <2>12 DEF Along, st
  <2> QED BY <2>13 DEF st
<1> QED BY <1>5, <1>6

\* The descriptors after a preload: those before it and one for each node left.
Left(m, left) ==
    /\ DescriptorsOK(fds', nextFd', m)
    /\ DOMAIN fds \subseteq DOMAIN fds' /\ \A fd \in DOMAIN fds : fds'[fd] = fds[fd]
    /\ \A fd \in DOMAIN fds' \ DOMAIN fds : \E j \in 1 .. Len(left) : fds'[fd].node = left[j]

LEMMA LeaveOpenIs ==
    ASSUME NEW m \in Nat, DescriptorsOK(fds, nextFd, m), NEW m2 \in Nat, m <= m2,
           NEW left \in Seq(0 .. m2 - 1), LeaveOpen(left),
           nextFd' \in Nat, nextFd + Len(left) <= nextFd', nextFd' <= MaxFd + 1
    PROVE  Left(m2, left)
<1> DEFINE R == [node : 0 .. m2 - 1, cursor : Nat]
           l == Len(left)
           opened == nextFd .. nextFd + l - 1
           D == DOMAIN fds
           value(fd) == IF fd \in opened THEN [node |-> left[fd - nextFd + 1], cursor |-> 0]
                        ELSE fds[fd]
<1>1. l \in Nat /\ MaxFd \in Nat
  BY LenProperties, FsAssumption
<1>2. /\ nextFd \in FirstFd .. MaxFd + 1 /\ D \subseteq FirstFd .. nextFd - 1
      /\ fds \in [D -> R]
  BY DescriptorsGrow DEF DescriptorsOK
<1>3. fds' = [fd \in D \union opened |-> value(fd)]
  BY DEF LeaveOpen
<1>4. \A fd \in D : fd \notin opened
  BY <1>1, <1>2 DEF FirstFd
<1>5. ASSUME NEW fd \in opened PROVE fd - nextFd + 1 \in 1 .. l
  <2>1. fd \in Int /\ nextFd <= fd /\ fd <= nextFd + l - 1 /\ nextFd \in Int
    BY <1>1, <1>2 DEF FirstFd
  <2> QED BY <1>1, <2>1
<1> HIDE DEF opened, D, l
<1>6. ASSUME NEW fd \in opened
      PROVE  value(fd) \in R /\ \E j \in 1 .. l : value(fd).node = left[j]
  <2>1. left[fd - nextFd + 1] \in 0 .. m2 - 1
    BY <1>5, <1>6, ElementOfSeq DEF l
  <2> QED BY <1>5, <2>1
<1>7. \A fd \in D : value(fd) = fds[fd] /\ value(fd) \in R
  BY <1>2, <1>4
<1> HIDE DEF value, R
<1>8. /\ fds' \in [D \union opened -> R] /\ DOMAIN fds' = D \union opened
      /\ \A fd \in D \union opened : fds'[fd] = value(fd)
  BY <1>3, <1>6, <1>7
<1>9. \A fd \in D \union opened : fd \in FirstFd .. nextFd' - 1
  <2> DEFINE next == nextFd'
  <2>1. /\ nextFd \in Nat /\ 3 <= nextFd /\ nextFd + l <= next
        /\ next \in Nat /\ l \in Nat /\ D \subseteq 3 .. nextFd - 1
    BY <1>1, <1>2 DEF FirstFd, l
  <2>2. \A fd \in opened : fd \in Int /\ nextFd <= fd /\ fd <= nextFd + l - 1
    BY <2>1 DEF opened
  <2> HIDE DEF next
  <2>3. ASSUME NEW fd \in D PROVE fd \in 3 .. next - 1
    BY ONLY <2>1, fd \in D
  <2>4. ASSUME NEW fd \in opened PROVE fd \in 3 .. next - 1
    BY ONLY <2>1, <2>2, fd \in opened
  <2> QED BY <2>3, <2>4 DEF FirstFd, next
<1>10. nextFd' \in FirstFd .. MaxFd + 1
  BY <1>1, <1>2 DEF FirstFd, l
<1>11. DescriptorsOK(fds', nextFd', m2)
  BY <1>8, <1>9, <1>10 DEF DescriptorsOK, R
<1>12. /\ DOMAIN fds \subseteq DOMAIN fds' /\ \A fd \in DOMAIN fds : fds'[fd] = fds[fd]
       /\ \A fd \in DOMAIN fds' \ DOMAIN fds : \E j \in 1 .. Len(left) : fds'[fd].node = left[j]
  BY <1>6, <1>7, <1>8 DEF D, l
<1> QED BY <1>11, <1>12 DEF Left

\* A preload that shortens no file and leaves known nodes open.
LEMMA LeaveStep ==
    ASSUME NEW m, Sized(m), NEW m2, m2 <= MaxNodes, Evolves(nodes, m, nodes', m2),
           NEW left, Left(m2, left),
           \A j \in 1 .. Len(left) : left[j] = Root \/ NamedIn(nodes, left[j]),
           \A i \in 0 .. m - 1 : Len(nodes[i].data) <= Len(nodes'[i].data),
           result' \in {"ok", "err"}
    PROVE  StepSound
<1>1. /\ m2 \in Nat \ {0} /\ TreeOK(nodes, m) /\ TreeOK(nodes', m2)
      /\ DescriptorsOK(fds, nextFd, m)
  BY DEF Sized, Evolves, Keeps, TreeOK
<1>2. m2 \in 1 .. MaxNodes
  BY <1>1, FsAssumption
<1>3. DescriptorsOK(fds', nextFd', m2)
  BY DEF Left
<1>4. TreeInv'
  BY <1>1, <1>2, <1>3 DEF TreeInv, Sized
<1>5. OpensKnown(m)
  <2> SUFFICES ASSUME NEW fd \in DOMAIN fds'
               PROVE  \/ fds'[fd].node = Root
                      \/ NamedIn(nodes, fds'[fd].node) \/ OpenedIn(fds, fds'[fd].node)
    BY DEF OpensKnown
  <2>1. CASE fd \in DOMAIN fds
    BY <2>1 DEF Left, OpenedIn
  <2>2. CASE fd \notin DOMAIN fds
    <3>1. PICK j \in 1 .. Len(left) : fds'[fd].node = left[j]
      BY <2>2 DEF Left
    <3> QED BY <3>1
  <2> QED BY <2>1, <2>2
<1>6. GoneStays
  BY <1>1, <1>5, GoneLemma DEF Evolves
<1>7. \A i \in 0 .. m - 1 : /\ nodes'[i].dir = nodes[i].dir
                            /\ Len(nodes[i].data) <= Len(nodes'[i].data)
                            /\ Len(nodes'[i].data) \in Nat
  BY <1>1, SameIsLong DEF Evolves
<1>8. \A fd \in DOMAIN fds \intersect DOMAIN fds' :
          fds'[fd].node = fds[fd].node /\ fds'[fd].cursor = fds[fd].cursor
  BY DEF Left
<1>9. CutByTruncation
  BY <1>1, <1>3, <1>7, <1>8, CutLemma
<1> QED BY <1>1, GrowsLoopless, <1>4, <1>6, <1>9 DEF StepSound

\* What was written at the start of a file is a prefix of its data.
LEMMA WrittenIsPrefix ==
    ASSUME NEW data \in Content, NEW bytes \in SeqOf(Byte, MaxSize)
    PROVE  LET w == Overwritten(data, 0, bytes) IN
           w \in Content /\ Len(w) >= Len(data) /\ IsPrefix(bytes, w)
<1> DEFINE w == Overwritten(data, 0, bytes)
           b == Len(bytes)
           all == Byte \union {Zero}
<1>1. MaxSize \in Nat
  BY FsAssumption
<1>2. bytes \in Seq(Byte) /\ b \in Nat /\ b <= MaxSize
  BY <1>1, BoundedIsSeq, LenProperties
<1>3. 0 \in Nat /\ 0 + b <= MaxSize
  BY <1>1, <1>2
<1>4. /\ w \in Content /\ Len(w) >= Len(data) /\ Len(w) >= 0 + b
      /\ \A k \in 1 .. b : w[0 + k] = bytes[k]
  BY <1>3, OverwrittenIs
<1> HIDE DEF w, b
<1>5. w \in Seq(all) /\ Len(w) \in Nat
  BY <1>1, <1>4, BoundedIsSeq, LenProperties DEF Content
<1>6. b <= Len(w) /\ \A k \in 1 .. b : w[k] = bytes[k]
  BY <1>2, <1>4, <1>5
<1>7. \A k \in 1 .. b : w[k] \in all /\ bytes[k] \in all
  BY <1>2, <1>5, <1>6, ElementOfSeq DEF b
<1>8. /\ SubSeq(bytes, 1, b) \in Seq(all) /\ Len(SubSeq(bytes, 1, b)) = b
      /\ \A k \in 1 .. b : SubSeq(bytes, 1, b)[k] = bytes[k]
  BY <1>2, <1>7, SubSeqProperties
<1>9. /\ SubSeq(w, 1, b) \in Seq(all) /\ Len(SubSeq(w, 1, b)) = b
      /\ \A k \in 1 .. b : SubSeq(w, 1, b)[k] = w[k]
  BY <1>2, <1>7, SubSeqProperties
<1>10. \A k \in 1 .. b : SubSeq(bytes, 1, b)[k] = SubSeq(w, 1, b)[k]
  BY <1>6, <1>8, <1>9
<1>11. SubSeq(bytes, 1, b) = SubSeq(w, 1, b)
  BY <1>8, <1>9, <1>10, SeqEqual
<1>12. IsPrefix(bytes, w)
  BY <1>6, <1>11 DEF IsPrefix, b
<1> QED BY <1>4, <1>12 DEF w

\* What PreloadsOnlyAdd says of one preload.
PreloadKeeps(path, contents) ==
    /\ \A d \in DOMAIN nodes : \A n \in DOMAIN nodes[d].entries :
           n \in DOMAIN nodes'[d].entries /\ nodes'[d].entries[n] = nodes[d].entries[n]
    /\ \A i \in DOMAIN nodes : i # Walk(Root, path) => nodes'[i].data = nodes[i].data
    /\ result' = "err" <=> InTheWay(path)
    /\ result' = "ok" =>
           LET i == WalkIn(nodes', Root, path) IN
           i >= 0 /\ IsPrefix(contents, nodes'[i].data)

\* The data of every node is as long as it was, where it is the same but in one node.
LEMMA LongEnough ==
    ASSUME NEW m, TreeOK(nodes, m), NEW m2, Evolves(nodes, m, nodes', m2), NEW i,
           \A k \in 0 .. m - 1 : k # i => nodes'[k].data = nodes[k].data,
           i \in 0 .. m - 1 => Len(nodes'[i].data) >= Len(nodes[i].data)
    PROVE  \A k \in 0 .. m - 1 : Len(nodes[k].data) <= Len(nodes'[k].data)
<1> SUFFICES ASSUME NEW k \in 0 .. m - 1 PROVE Len(nodes[k].data) <= Len(nodes'[k].data)
  OBVIOUS
<1>1. CASE k # i
  BY <1>1, SameIsLong DEF Evolves
<1>2. CASE k = i
  <2>1. nodes[k].data \in Content
    BY DEF TreeOK, Node
  <2>2. Len(nodes[k].data) \in Nat
    BY <2>1, BoundedIsSeq, FsAssumption, LenProperties DEF Content
  <2>3. Len(nodes'[k].data) \in Nat
    BY SameIsLong DEF Evolves
  <2> QED BY <1>2, <2>2, <2>3
<1> QED BY <1>1, <1>2

LEMMA PreloadBlocked ==
    ASSUME NEW m, Sized(m), NEW path \in Path, NEW contents \in SeqOf(Byte, MaxSize),
           PreloadFile(path, contents), Blocked(path, PreloadParents(path))
    PROVE  /\ StepSound /\ PreloadKeeps(path, contents)
           /\ result' = "err" => nodes' = nodes
<1> DEFINE p == PreloadParents(path)
<1>1. /\ TreeOK(nodes, m) /\ m \in 1 .. MaxNodes /\ MaxNodes \in Nat
      /\ DescriptorsOK(fds, nextFd, m) /\ MaxFd \in Nat /\ Root \in 0 .. m - 1
  BY FsAssumption DEF Sized, Root
<1>2. p.nodes = nodes /\ p.current = NotDir /\ InTheWay(path)
  BY DEF Blocked, State
<1>3. NotDir < 0 /\ ~ (NotDir >= 0)
  BY DEF NotDir
<1>4. /\ nodes' = nodes /\ LeaveOpen(<<Root>>) /\ nextFd' = nextFd + 1 /\ result' = "err"
      /\ nextFd + 1 <= MaxFd
  BY <1>2, <1>3 DEF PreloadFile
<1>5. nextFd \in Nat
  BY <1>1 DEF DescriptorsOK, FirstFd
<1>6. <<Root>> \in Seq(0 .. m - 1) /\ Len(<<Root>>) = 1 /\ <<Root>>[1] = Root
  BY <1>1
<1>7. Left(m, <<Root>>)
  <2>1. m \in Nat /\ m <= m /\ nextFd' \in Nat /\ nextFd + Len(<<Root>>) <= nextFd' /\ nextFd' <= MaxFd + 1
    BY <1>1, <1>4, <1>5, <1>6
  <2> QED BY <1>1, <1>4, <1>6, <2>1, LeaveOpenIs
<1>8. /\ Evolves(nodes, m, nodes', m) /\ SameData(nodes, m, nodes')
      /\ SameEntries(nodes, m, nodes')
  BY <1>1, <1>4, EvolvesReflexive
<1>9. \A i \in 0 .. m - 1 : Len(nodes[i].data) <= Len(nodes'[i].data)
  BY <1>1, <1>8, SameIsLong DEF SameData, Evolves
<1>10. \A j \in 1 .. Len(<<Root>>) : <<Root>>[j] = Root
  BY <1>6
<1>11. m <= MaxNodes /\ result' \in {"ok", "err"}
  BY <1>1, <1>4
<1>12. StepSound
  BY <1>7, <1>8, <1>9, <1>10, <1>11, LeaveStep
<1>13. PreloadKeeps(path, contents)
  BY <1>2, <1>4 DEF PreloadKeeps
<1> QED BY <1>4, <1>12, <1>13

LEMMA PreloadMeets ==
    ASSUME NEW m, Sized(m), NEW path \in Path, NEW contents \in SeqOf(Byte, MaxSize),
           PreloadFile(path, contents), Meets(m, path, PreloadParents(path))
    PROVE  /\ StepSound /\ PreloadKeeps(path, contents)
           /\ result' = "err" => nodes' = nodes
<1> DEFINE p == PreloadParents(path)
           i == Walk(Root, path)
           w == Overwritten(nodes[i].data, 0, contents)
<1>1. /\ TreeOK(nodes, m) /\ m \in 1 .. MaxNodes /\ MaxNodes \in Nat
      /\ DescriptorsOK(fds, nextFd, m) /\ MaxFd \in Nat /\ Root \in 0 .. m - 1
      /\ DOMAIN nodes = 0 .. m - 1
  BY TreeSize, FsAssumption DEF Sized, Root
<1>2. /\ p.nodes = nodes /\ p.current >= 0 /\ i \in 0 .. m - 1
      /\ i = Root \/ NamedIn(nodes, i)
      /\ InTheWay(path) <=> nodes[i].dir
  BY DEF Meets
<1>3. WalkIn(p.nodes, Root, path) = i
  BY <1>2 DEF Walk
<1>4. i # NoEntry /\ i >= 0
  BY <1>1, <1>2 DEF NoEntry
<1>5. p.current # NoEntry /\ ~ (p.current < 0)
  <2>1. Made(nodes, m, p)
    <3>1. Front(path) \in Seq(Name)
      <4>1. path \in Seq(Name)
        BY BoundedIsSeq, FsAssumption DEF Path
      <4>2. CASE path # <<>>
        BY <4>1, <4>2, FrontAndLast
      <4>3. CASE path = <<>>
        <5>1. Len(path) = 0 /\ <<>> \in Seq(Name)
          BY <4>3, EmptySeq
        <5>2. Front(path) = SubSeq(path, 1, Len(path) - 1)
          BY DEF Front
        <5> QED BY <5>1, <5>2, SubSeqEmpty
      <4> QED BY <4>2, <4>3
    <3>2. p = Descended(State(nodes, Root), Front(path))
      BY DEF PreloadParents, State
    <3> QED BY <1>1, <3>1, <3>2, DescendedMakes
  <2>2. PICK k : p.current \in Place(k) /\ TreeOK(p.nodes, k)
    BY <2>1 DEF Made, Evolves, Keeps
  <2> HIDE DEF p
  <2>3. k \in Nat
    BY <2>2 DEF TreeOK
  <2> QED BY <1>2, <2>2, <2>3 DEF Place, NoEntry, NotDir
<1>6. nextFd + 1 <= MaxFd /\ nextFd' = nextFd + 2
  BY <1>2, <1>5 DEF PreloadFile
<1>7. \/ nodes[i].dir /\ nodes' = nodes /\ LeaveOpen(<<Root, i>>) /\ result' = "err"
      \/ /\ ~ nodes[i].dir
         /\ nodes' = [nodes EXCEPT ![i] = File(w)]
         /\ LeaveOpen(<<Root>>) /\ result' = "ok"
  BY <1>2, <1>3, <1>4, <1>5 DEF PreloadFile
<1>8. nextFd \in Nat
  BY <1>1 DEF DescriptorsOK, FirstFd
<1> HIDE DEF p, i, w
<1>9. CASE nodes[i].dir /\ nodes' = nodes /\ LeaveOpen(<<Root, i>>) /\ result' = "err"
  <2> DEFINE left == <<Root, i>>
  <2>1. left \in Seq(0 .. m - 1) /\ Len(left) = 2 /\ left[1] = Root /\ left[2] = i
    BY <1>1, <1>2
  <2>2. \A j \in 1 .. Len(left) : left[j] = Root \/ NamedIn(nodes, left[j])
    BY <1>2, <2>1
  <2> HIDE DEF left
  <2>3. LeaveOpen(left)
    BY <1>9 DEF left
  <2>4. Left(m, left)
    <3>1. m \in Nat /\ m <= m /\ nextFd' \in Nat /\ nextFd + Len(left) <= nextFd' /\ nextFd' <= MaxFd + 1
      BY <1>1, <1>6, <1>8, <2>1
    <3> QED BY <1>1, <2>1, <2>3, <3>1, LeaveOpenIs
  <2>5. /\ Evolves(nodes, m, nodes', m) /\ SameData(nodes, m, nodes')
    BY <1>1, <1>9, EvolvesReflexive
  <2>6. \A k \in 0 .. m - 1 : Len(nodes[k].data) <= Len(nodes'[k].data)
    BY <1>1, <2>5, SameIsLong DEF SameData, Evolves
  <2>7. m <= MaxNodes /\ result' \in {"ok", "err"}
    BY <1>1, <1>9
  <2>8. StepSound
    BY <2>2, <2>4, <2>5, <2>6, <2>7, LeaveStep
  <2>9. PreloadKeeps(path, contents)
    BY <1>2, <1>9 DEF PreloadKeeps
  <2> QED BY <1>9, <2>8, <2>9
<1>10. CASE /\ ~ nodes[i].dir
            /\ nodes' = [nodes EXCEPT ![i] = File(w)]
            /\ LeaveOpen(<<Root>>) /\ result' = "ok"
  <2>1. nodes[i].data \in Content
    BY <1>1, <1>2 DEF TreeOK, Node
  <2>2. w \in Content /\ Len(w) >= Len(nodes[i].data) /\ IsPrefix(contents, w)
    BY <2>1, WrittenIsPrefix DEF w
  <2>3. FileSet(nodes, m, nodes', i, w)
    BY <1>1, <1>2, <1>10, <2>2, SetFileTree
  <2>4. /\ Evolves(nodes, m, nodes', m) /\ SameEntries(nodes, m, nodes')
        /\ nodes'[i].data = w
        /\ \A k \in 0 .. m - 1 : k # i => nodes'[k].data = nodes[k].data
    BY <2>3 DEF FileSet
  <2>5. \A k \in 0 .. m - 1 : Len(nodes[k].data) <= Len(nodes'[k].data)
    BY <1>1, <2>2, <2>4, LongEnough
  <2>6. <<Root>> \in Seq(0 .. m - 1) /\ Len(<<Root>>) = 1 /\ <<Root>>[1] = Root
    BY <1>1
  <2>7. Left(m, <<Root>>)
    <3>1. m \in Nat /\ m <= m /\ nextFd' \in Nat /\ nextFd + Len(<<Root>>) <= nextFd' /\ nextFd' <= MaxFd + 1
      BY <1>1, <1>6, <1>8, <2>6
    <3> QED BY <1>1, <1>10, <2>6, <3>1, LeaveOpenIs
  <2>8. \A j \in 1 .. Len(<<Root>>) : <<Root>>[j] = Root
    BY <2>6
  <2>9. m <= MaxNodes /\ result' \in {"ok", "err"}
    BY <1>1, <1>10
  <2>10. StepSound
    BY <2>4, <2>5, <2>7, <2>8, <2>9, LeaveStep
  <2>11. WalkIn(nodes', Root, path) = i
    <3>1. path \in Seq(Name)
      BY BoundedIsSeq, FsAssumption DEF Path
    <3>2. WalkIn(nodes, Root, path) = i
      BY DEF i, Walk
    <3> QED BY <1>1, <1>4, <2>4, <3>1, <3>2, WalkStays
  <2>12. \A d \in DOMAIN nodes : \A n \in DOMAIN nodes[d].entries :
             n \in DOMAIN nodes'[d].entries /\ nodes'[d].entries[n] = nodes[d].entries[n]
    BY <1>1, <2>4 DEF SameEntries
  <2>13. \A k \in DOMAIN nodes : k # Walk(Root, path) => nodes'[k].data = nodes[k].data
    BY <1>1, <2>4 DEF i
  <2>14. result' = "ok" /\ ~ InTheWay(path) /\ result' # "err"
    BY <1>2, <1>10
  <2>15. PreloadKeeps(path, contents)
    BY <1>4, <2>2, <2>4, <2>11, <2>12, <2>13, <2>14 DEF PreloadKeeps
  <2> QED BY <2>10, <2>14, <2>15
<1> QED BY <1>7, <1>9, <1>10

LEMMA PreloadClear ==
    ASSUME NEW m, Sized(m), NEW path \in Path, NEW contents \in SeqOf(Byte, MaxSize),
           PreloadFile(path, contents), NEW k, Clear(m, path, PreloadParents(path), k)
    PROVE  /\ StepSound /\ PreloadKeeps(path, contents)
           /\ result' = "err" => nodes' = nodes
<1> DEFINE p == PreloadParents(path)
           os == p.nodes
           c == p.current
           opened == Bind(Push(os, File(<<>>)), c, Last(path), k)
           w == Overwritten(<<>>, 0, contents)
<1>1. /\ TreeOK(nodes, m) /\ m \in 1 .. MaxNodes /\ MaxNodes \in Nat
      /\ DescriptorsOK(fds, nextFd, m) /\ MaxFd \in Nat /\ Root \in 0 .. m - 1
      /\ DOMAIN nodes = 0 .. m - 1
  BY TreeSize, FsAssumption DEF Sized, Root
<1>2. /\ Front(path) \in Seq(Name) /\ Last(path) \in Name
      /\ path = Append(Front(path), Last(path))
      /\ Evolves(nodes, m, os, k) /\ SameData(nodes, m, os) /\ SameEntries(nodes, m, os)
      /\ c \in 0 .. k - 1 /\ os[c].dir /\ Last(path) \notin DOMAIN os[c].entries
      /\ WalkIn(os, Root, Front(path)) = c /\ WalkIn(os, Root, path) = NoEntry
      /\ Walk(Root, path) = NoEntry /\ ~ InTheWay(path)
  BY DEF Clear
<1>3. /\ TreeOK(os, k) /\ k \in Nat \ {0} /\ m <= k
      /\ Cardinality(DOMAIN os) = k /\ Root \in 0 .. k - 1
  <2>1. TreeOK(os, k) /\ k \in Nat \ {0} /\ m <= k
    BY <1>2 DEF Evolves, Keeps, TreeOK
  <2> QED BY <2>1, TreeSize DEF Root
<1>4. ~ (c < 0)
  BY <1>2, <1>3
<1>5. /\ nextFd + 1 <= MaxFd /\ nextFd' = nextFd + 2
      /\ Cardinality(DOMAIN opened) <= MaxNodes
      /\ \/ opened[k].dir
         \/ /\ nodes' = [opened EXCEPT ![k] = File(Overwritten(opened[k].data, 0, contents))]
            /\ LeaveOpen(<<Root>>) /\ result' = "ok"
  BY <1>2, <1>3, <1>4 DEF PreloadFile
<1>6. nextFd \in Nat
  BY <1>1 DEF DescriptorsOK, FirstFd
<1> HIDE DEF p, os, c, opened, w
\* The file is pushed and bound.
<1>7. Created(os, k, opened, c, Last(path), File(<<>>)) /\ SameEntries(os, k, opened)
  <2>1. /\ File(<<>>) \in Node /\ OfAKind(File(<<>>)) /\ DOMAIN File(<<>>).entries = {}
    BY NewNodes DEF OfAKind
  <2>2. Created(os, k, opened, c, Last(path), File(<<>>))
    BY <1>2, <1>3, <2>1, CreateTree DEF opened
  <2> QED BY <1>2, <2>2 DEF Created
<1>8. /\ Evolves(os, k, opened, k + 1) /\ SameData(os, k, opened)
      /\ ~ opened[k].dir /\ opened[k].data = <<>>
  BY <1>7, NewNodes DEF Created
<1>9. /\ Evolves(nodes, m, opened, k + 1) /\ SameData(nodes, m, opened)
      /\ SameEntries(nodes, m, opened)
  BY <1>1, <1>2, <1>7, <1>8, EvolvesTransitive
<1>10. TreeOK(opened, k + 1) /\ k + 1 <= MaxNodes /\ k \in 0 .. (k + 1) - 1
  <2>1. TreeOK(opened, k + 1)
    BY <1>8 DEF Evolves, Keeps
  <2>2. k + 1 <= MaxNodes
    BY <1>5, <2>1, TreeSize
  <2> QED BY <1>3, <2>1, <2>2
<1>11. WalkIn(opened, Root, path) = k
  <2>1. WalkIn(opened, Root, Append(Front(path), Last(path))) = k
    BY ONLY <1>2, <1>3, <1>7, MadeIsFound
  <2> QED BY <1>2, <2>1
\* The bytes are written.
<1>12. /\ nodes' = [opened EXCEPT ![k] = File(w)]
       /\ LeaveOpen(<<Root>>) /\ result' = "ok"
  BY <1>5, <1>8 DEF w
<1>13. w \in Content /\ IsPrefix(contents, w)
  BY WrittenIsPrefix, NewNodes DEF w
<1>14. FileSet(opened, k + 1, nodes', k, w)
  BY <1>8, <1>10, <1>12, <1>13, SetFileTree
<1>15. /\ Evolves(opened, k + 1, nodes', k + 1) /\ SameEntries(opened, k + 1, nodes')
       /\ nodes'[k].data = w
       /\ \A j \in 0 .. (k + 1) - 1 : j # k => nodes'[j] = opened[j]
  BY <1>14 DEF FileSet
<1>16. Evolves(nodes, m, nodes', k + 1) /\ SameEntries(nodes, m, nodes')
  BY <1>1, <1>9, <1>15, EvolvesTransitive
<1>17. \A j \in 0 .. m - 1 : nodes'[j].data = nodes[j].data
  <2> SUFFICES ASSUME NEW j \in 0 .. m - 1 PROVE nodes'[j].data = nodes[j].data
    OBVIOUS
  <2>1. j \in 0 .. (k + 1) - 1 /\ j # k
    BY <1>1, <1>3
  <2>2. nodes'[j].data = opened[j].data
    BY <1>15, <2>1
  <2> QED BY <1>9, <2>2 DEF SameData
<1>18. \A j \in 0 .. m - 1 : Len(nodes[j].data) <= Len(nodes'[j].data)
  BY <1>1, <1>16, <1>17, SameIsLong DEF Evolves
<1>19. <<Root>> \in Seq(0 .. (k + 1) - 1) /\ Len(<<Root>>) = 1 /\ <<Root>>[1] = Root
  BY <1>3
<1>20. Left(k + 1, <<Root>>)
  <2>1. /\ m \in Nat /\ k + 1 \in Nat /\ m <= k + 1 /\ nextFd' \in Nat
        /\ nextFd + Len(<<Root>>) <= nextFd' /\ nextFd' <= MaxFd + 1
    BY <1>1, <1>3, <1>5, <1>6, <1>19
  <2> QED BY <1>1, <1>12, <1>19, <2>1, LeaveOpenIs
<1>21. \A j \in 1 .. Len(<<Root>>) : <<Root>>[j] = Root
  BY <1>19
<1>22. StepSound
  <2>1. result' \in {"ok", "err"}
    BY <1>12
  <2> QED BY <1>10, <1>16, <1>18, <1>20, <1>21, <2>1, LeaveStep
<1>23. WalkIn(nodes', Root, path) = k
  <2>1. path \in Seq(Name)
    BY BoundedIsSeq, FsAssumption DEF Path
  <2>2. WalkIn(opened, Root, path) >= 0 /\ Root \in 0 .. (k + 1) - 1
    BY <1>3, <1>11
  <2>3. WalkIn(nodes', Root, path) = WalkIn(opened, Root, path)
    BY ONLY <1>10, <1>15, <2>1, <2>2, WalkStays
  <2> QED BY <1>11, <2>3
<1>24. \A d \in DOMAIN nodes : \A n \in DOMAIN nodes[d].entries :
           n \in DOMAIN nodes'[d].entries /\ nodes'[d].entries[n] = nodes[d].entries[n]
  BY <1>1, <1>16 DEF SameEntries
<1>25. \A j \in DOMAIN nodes : nodes'[j].data = nodes[j].data
  BY <1>1, <1>17
<1>26. k >= 0 /\ result' = "ok" /\ result' # "err"
  BY <1>3, <1>12
<1>27. PreloadKeeps(path, contents)
  BY <1>2, <1>13, <1>15, <1>23, <1>24, <1>25, <1>26 DEF PreloadKeeps
<1> QED BY <1>22, <1>26, <1>27

LEMMA PreloadStep ==
    ASSUME NEW m, Sized(m), NEW path \in Path, NEW contents \in SeqOf(Byte, MaxSize),
           PreloadFile(path, contents)
    PROVE  /\ StepSound /\ PreloadKeeps(path, contents)
           /\ result' = "err" => nodes' = nodes
<1>1. TreeOK(nodes, m)
  BY DEF Sized
<1> DEFINE p == PreloadParents(path)
<1>2. Blocked(path, p) \/ Meets(m, path, p) \/ \E k : Clear(m, path, p, k)
  BY <1>1, Approach
<1> QED BY <1>2, PreloadBlocked, PreloadMeets, PreloadClear

-----------------------------------------------------------------------------
(***************************************************************************)
(* A call that fails.                                                      *)
(***************************************************************************)

\* What FailuresTakeLittle says of a step.
LittleTaken ==
    /\ \A i \in DOMAIN nodes : nodes'[i].data = nodes[i].data
    /\ Names(nodes') \subseteq Names(nodes)
    /\ \A x, y \in Names(nodes) \ Names(nodes') : x = y

LEMMA NamesAre ==
    ASSUME NEW ns, NEW x
    PROVE  x \in Names(ns) <=> \E d \in DOMAIN ns : \E n \in DOMAIN ns[d].entries :
                                   x = <<d, n, ns[d].entries[n]>>
BY DEF Names

\* Every entry but one is in place.
LEMMA UnbindKeeps ==
    ASSUME NEW ns, NEW m, TreeOK(ns, m), NEW p \in 0 .. m - 1, NEW name \in DOMAIN ns[p].entries
    PROVE  LET u == Unbind(ns, p, name) IN
           \A d \in 0 .. m - 1 : \A n \in DOMAIN ns[d].entries :
               \/ d = p /\ n = name
               \/ n \in DOMAIN u[d].entries /\ u[d].entries[n] = ns[d].entries[n]
<1>1. ns \in [0 .. m - 1 -> Node]
  BY DEF TreeOK
<1> DEFINE u == Unbind(ns, p, name)
           rest == [n \in DOMAIN ns[p].entries \ {name} |-> ns[p].entries[n]]
<1>2. ns[p] \in [dir : BOOLEAN, data : Content, entries : Entries]
  BY <1>1 DEF Node
<1>3. u = [ns EXCEPT ![p] = [ns[p] EXCEPT !.entries = rest]]
  BY DEF Unbind
<1>4. u[p].entries = rest
  BY <1>1, <1>2, <1>3
<1>5. \A d \in 0 .. m - 1 : d # p => u[d] = ns[d]
  BY <1>1, <1>3
<1> QED BY <1>4, <1>5

LEMMA UnbindTakesOne ==
    ASSUME NEW m, TreeOK(nodes, m), NEW p \in 0 .. m - 1, NEW name \in DOMAIN nodes[p].entries,
           nodes' = Unbind(nodes, p, name)
    PROVE  LittleTaken
<1>1. Evolves(nodes, m, nodes', m) /\ SameData(nodes, m, nodes')
  BY UnbindTree
<1>2. m \in Nat /\ DOMAIN nodes = 0 .. m - 1 /\ DOMAIN nodes' = 0 .. m - 1 /\ TreeOK(nodes', m)
  BY <1>1 DEF Evolves, Keeps, TreeOK
<1>3. ASSUME NEW x \in Names(nodes') PROVE x \in Names(nodes)
  <2>1. PICK d \in 0 .. m - 1 : \E n \in DOMAIN nodes'[d].entries : x = <<d, n, nodes'[d].entries[n]>>
    BY <1>2, <1>3, NamesAre
  <2>2. PICK n \in DOMAIN nodes'[d].entries : x = <<d, n, nodes'[d].entries[n]>>
    BY <2>1
  <2>3. nodes'[d].entries[n] \in 1 .. m - 1
    BY <1>2 DEF TreeOK
  <2>4. n \in DOMAIN nodes[d].entries /\ nodes[d].entries[n] = nodes'[d].entries[n]
    BY <1>1, <1>2, <2>3 DEF Evolves, Grows
  <2> QED BY <1>2, <2>2, <2>4, NamesAre
<1>4. ASSUME NEW x \in Names(nodes) \ Names(nodes') PROVE x = <<p, name, nodes[p].entries[name]>>
  <2>1. PICK d \in 0 .. m - 1 : \E n \in DOMAIN nodes[d].entries : x = <<d, n, nodes[d].entries[n]>>
    BY <1>2, <1>4, NamesAre
  <2>2. PICK n \in DOMAIN nodes[d].entries : x = <<d, n, nodes[d].entries[n]>>
    BY <2>1
  <2>3. ~ (n \in DOMAIN nodes'[d].entries /\ nodes'[d].entries[n] = nodes[d].entries[n])
    BY <1>2, <1>4, <2>2, NamesAre
  <2>4. d = p /\ n = name
    BY <2>3, UnbindKeeps
  <2> QED BY <2>2, <2>4
<1> QED BY <1>1, <1>2, <1>3, <1>4 DEF LittleTaken, SameData

LEMMA PushTakesNone ==
    ASSUME NEW m, TreeOK(nodes, m), NEW node \in Node, OfAKind(node), DOMAIN node.entries = {},
           nodes' = Push(nodes, node)
    PROVE  LittleTaken
<1>1. /\ Evolves(nodes, m, nodes', m + 1)
      /\ nodes'[m] = node /\ \A k \in 0 .. m - 1 : nodes'[k] = nodes[k]
  BY PushTree
<1>2. m \in Nat /\ DOMAIN nodes = 0 .. m - 1 /\ DOMAIN nodes' = 0 .. (m + 1) - 1
  BY <1>1 DEF Evolves, Keeps, TreeOK
<1>3. \A k \in 0 .. (m + 1) - 1 : k = m \/ k \in 0 .. m - 1
  BY <1>2
<1>4. \A k \in 0 .. m - 1 : k \in 0 .. (m + 1) - 1
  BY <1>2
<1>5. ASSUME NEW x PROVE x \in Names(nodes') <=> x \in Names(nodes)
  BY <1>1, <1>2, <1>3, <1>4, NamesAre
<1> QED BY <1>1, <1>2, <1>5 DEF LittleTaken

LEMMA FailingStep ==
    ASSUME NEW m, Sized(m), VirtualNext, result' = "err"
    PROVE  nodes' = nodes \/ LittleTaken
<1>1. TreeOK(nodes, m)
  BY DEF Sized
<1>2. "err" # "ok"
  OBVIOUS
<1>3. ASSUME NEW fd \in DOMAIN fds, NEW path \in Path, NEW directory \in BOOLEAN,
             OpenCreate(fd, path, directory)
      PROVE  LittleTaken
  <2> DEFINE new == IF directory THEN EmptyDirectory ELSE File(<<>>)
  <2>1. new \in Node /\ OfAKind(new) /\ DOMAIN new.entries = {}
    BY NewNodes DEF OfAKind
  <2>2. nodes' = Push(nodes, new)
    BY <1>2, <1>3 DEF OpenCreate
  <2> HIDE DEF new
  <2> QED BY <1>1, <2>1, <2>2, PushTakesNone
<1>4. ASSUME NEW fd \in DOMAIN fds, NEW path \in Path, CreateDirectoryAt(fd, path)
      PROVE  nodes' = nodes
  <2> DEFINE d == fds[fd].node
             end == Descended(State(nodes, d), path)
  <2>1. d \in 0 .. m - 1
    BY DEF Sized, DescriptorsOK
  <2>2. path \in Seq(Name)
    BY BoundedIsSeq, FsAssumption DEF Path
  <2>3. Made(nodes, m, end)
    BY <1>1, <2>1, <2>2, DescendedMakes
  <2>4. nodes' = end.nodes /\ ~ (end.current >= 0)
    BY <1>2, <1>4 DEF CreateDirectoryAt, State
  <2> HIDE DEF end
  <2> QED BY <2>3, <2>4 DEF Made, AtNewDirectory
<1>5. ASSUME NEW oldFd \in DOMAIN fds, NEW oldPath \in Path, RenameFinds(oldFd, oldPath),
             NEW newFd \in DOMAIN fds, NEW newPath \in Path,
             RenameAt(oldFd, oldPath, newFd, newPath)
      PROVE  LittleTaken
  <2> DEFINE old == fds[oldFd].node
  <2>1. old \in 0 .. m - 1
    BY DEF Sized, DescriptorsOK
  <2>2. oldPath \in Seq(Name)
    BY BoundedIsSeq, FsAssumption DEF Path
  <2>3. oldPath # <<>> /\ Entry(old, oldPath) >= 0
    BY <1>5 DEF RenameFinds
  <2>4. nodes' = Unbind(nodes, Parent(old, oldPath), Last(oldPath))
    BY <1>2, <1>5 DEF RenameAt
  <2> HIDE DEF old
  <2>5. /\ Parent(old, oldPath) \in 0 .. m - 1
        /\ Last(oldPath) \in DOMAIN nodes[Parent(old, oldPath)].entries
    BY <1>1, <2>1, <2>2, <2>3, EntryInTree
  <2> QED BY <1>1, <2>4, <2>5, UnbindTakesOne
<1>6. ASSUME NEW path \in Path, NEW contents \in SeqOf(Byte, MaxSize),
             PreloadFile(path, contents)
      PROVE  nodes' = nodes
  BY <1>2, <1>6, PreloadStep
<1>7. CASE Next
  <2>1. ASSUME NEW fd \in DOMAIN fds, Close(fd) PROVE FALSE
    BY <1>2, <2>1 DEF Close
  <2>2. ASSUME NEW fd \in DOMAIN fds, NEW n \in 1 .. MaxSize, Read(fd, n) PROVE FALSE
    BY <1>2, <2>2 DEF Read
  <2>3. ASSUME NEW fd \in DOMAIN fds, NEW bytes \in SeqOf(Byte, MaxSize), Write(fd, bytes)
        PROVE  FALSE
    BY <1>2, <2>3 DEF Write
  <2>4. ASSUME NEW fd \in DOMAIN fds, NEW path \in Path,
               NEW exclusive \in BOOLEAN, NEW directory \in BOOLEAN, NEW truncate \in BOOLEAN,
               OpenExisting(fd, path, exclusive, directory, truncate)
        PROVE  FALSE
    BY <1>2, <2>4 DEF OpenExisting
  <2>5. ASSUME NEW fd \in DOMAIN fds, NEW path \in Path,
               UnlinkFileAt(fd, path) \/ RemoveDirectoryAt(fd, path)
        PROVE  FALSE
    BY <1>2, <2>5 DEF UnlinkFileAt, RemoveDirectoryAt
  <2>6. ~ OpenRoot
    BY <1>2 DEF OpenRoot
  <2>7. BadDescriptor => nodes' = nodes
    BY DEF BadDescriptor
  <2> QED BY <1>3, <1>4, <1>5, <1>7, <2>1, <2>2, <2>3, <2>4, <2>5, <2>6, <2>7 DEF Next
<1> QED BY <1>6, <1>7 DEF VirtualNext

-----------------------------------------------------------------------------
(***************************************************************************)
(* The theorems.                                                           *)
(***************************************************************************)

LEMMA StutterStep ==
    ASSUME TreeInv, UNCHANGED vars
    PROVE  StepSound
<1>1. PICK m : Sized(m)
  BY DEF TreeInv
<1>2. nodes' = nodes /\ fds' = fds /\ nextFd' = nextFd /\ result' = result
  BY DEF vars
<1>3. TreeInv'
  BY <1>1, <1>2 DEF TreeInv, Sized
<1>4. GoneStays
  BY <1>2 DEF GoneStays, Named, Opened
<1>5. CutByTruncation
  BY <1>2 DEF CutByTruncation, ReadPanics
<1>6. LoopsByRename
  BY <1>2 DEF LoopsByRename
<1> QED BY <1>3, <1>4, <1>5, <1>6 DEF StepSound

LEMMA EveryStep ==
    ASSUME TreeInv, [VirtualNext]_vars
    PROVE  StepSound
<1>1. PICK m : Sized(m)
  BY DEF TreeInv
<1>2. CASE UNCHANGED vars
  BY <1>2, StutterStep
<1>3. CASE OpenRoot
  BY <1>1, <1>3, OpenRootStep
<1>4. CASE BadDescriptor
  <2>1. m \in 1 .. MaxNodes /\ TreeOK(nodes, m) /\ MaxNodes \in Nat
    BY <1>1, FsAssumption DEF Sized
  <2>2. nodes' = nodes /\ UNCHANGED <<fds, nextFd>> /\ result' \in {"ok", "err"} /\ m <= MaxNodes
    BY <1>4, <2>1 DEF BadDescriptor
  <2>3. Evolves(nodes, m, nodes', m) /\ SameData(nodes, m, nodes')
    BY <2>1, <2>2, EvolvesReflexive
  <2> QED BY <1>1, <2>2, <2>3, GrowStep
<1>5. ASSUME NEW fd \in DOMAIN fds, Close(fd) PROVE StepSound
  BY <1>1, <1>5, CloseStep
<1>6. ASSUME NEW fd \in DOMAIN fds, NEW n \in 1 .. MaxSize, Read(fd, n) PROVE StepSound
  BY <1>1, <1>6, ReadStep
<1>7. ASSUME NEW fd \in DOMAIN fds, NEW bytes \in SeqOf(Byte, MaxSize), Write(fd, bytes)
      PROVE  StepSound
  BY <1>1, <1>7, WriteStep
<1>8. ASSUME NEW fd \in DOMAIN fds, NEW path \in Path,
             NEW exclusive \in BOOLEAN, NEW directory \in BOOLEAN, NEW truncate \in BOOLEAN,
             OpenExisting(fd, path, exclusive, directory, truncate)
      PROVE  StepSound
  BY <1>1, <1>8, OpenExistingStep
<1>9. ASSUME NEW fd \in DOMAIN fds, NEW path \in Path, NEW directory \in BOOLEAN,
             OpenCreate(fd, path, directory)
      PROVE  StepSound
  BY <1>1, <1>9, OpenCreateStep
<1>10. ASSUME NEW fd \in DOMAIN fds, NEW path \in Path, CreateDirectoryAt(fd, path)
       PROVE  StepSound
  BY <1>1, <1>10, CreateDirectoryAtStep
<1>11. ASSUME NEW fd \in DOMAIN fds, NEW path \in Path,
              UnlinkFileAt(fd, path) \/ RemoveDirectoryAt(fd, path)
       PROVE  StepSound
  BY <1>1, <1>11, UnlinkStep
<1>12. ASSUME NEW oldFd \in DOMAIN fds, NEW oldPath \in Path, RenameFinds(oldFd, oldPath),
              NEW newFd \in DOMAIN fds, NEW newPath \in Path,
              RenameAt(oldFd, oldPath, newFd, newPath)
       PROVE  StepSound
  BY <1>1, <1>12, RenameStep
<1>13. ASSUME NEW path \in Path, NEW contents \in SeqOf(Byte, MaxSize),
              PreloadFile(path, contents)
       PROVE  StepSound
  BY <1>1, <1>13, PreloadStep
<1>14. CASE Next
  BY <1>3, <1>4, <1>5, <1>6, <1>7, <1>8, <1>9, <1>10, <1>11, <1>12, <1>14 DEF Next
<1>15. CASE \E path \in Path, contents \in SeqOf(Byte, MaxSize) : PreloadFile(path, contents)
  BY <1>13, <1>15
<1> QED BY <1>2, <1>14, <1>15 DEF VirtualNext

LEMMA TreeInit == ASSUME Init PROVE TreeInv
<1>1. /\ nodes = [i \in {Root} |-> EmptyDirectory] /\ fds = [fd \in {} |-> <<>>]
      /\ nextFd = FirstFd /\ result = "ok"
  BY DEF Init
<1>2. 0 .. 1 - 1 = {Root}
  BY DEF Root
<1>3. /\ EmptyDirectory \in Node /\ EmptyDirectory.dir /\ OfAKind(EmptyDirectory)
      /\ DOMAIN EmptyDirectory.entries = {}
  BY NewNodes DEF OfAKind
<1>4. nodes \in [0 .. 1 - 1 -> Node] /\ nodes[Root] = EmptyDirectory
  BY <1>1, <1>2, <1>3
<1>5. TreeOK(nodes, 1)
  <2>1. \A i \in 0 .. 1 - 1 : nodes[i] = EmptyDirectory
    BY <1>2, <1>4
  <2> QED BY <1>3, <1>4, <2>1 DEF TreeOK
<1>6. DescriptorsOK(fds, nextFd, 1)
  <2>1. MaxFd \in Nat /\ MaxFd >= 2
    BY FsAssumption
  <2>2. nextFd \in FirstFd .. MaxFd + 1
    BY <1>1, <2>1 DEF FirstFd
  <2>3. DOMAIN fds = {} /\ fds \in [DOMAIN fds -> [node : 0 .. 1 - 1, cursor : Nat]]
    BY <1>1
  <2> QED BY <2>2, <2>3 DEF DescriptorsOK
<1>7. 1 \in 1 .. MaxNodes
  BY FsAssumption
<1>8. Sized(1)
  BY <1>5, <1>6, <1>7 DEF Sized
<1> QED BY <1>1, <1>8 DEF TreeInv

LEMMA TreeInvSound == ASSUME TreeInv PROVE NodesSound
<1>1. PICK m : Sized(m)
  BY DEF TreeInv
<1>2. /\ m \in 1 .. MaxNodes /\ DOMAIN nodes = 0 .. m - 1 /\ TreeOK(nodes, m)
      /\ DescriptorsOK(fds, nextFd, m) /\ result \in {"ok", "err"}
  BY <1>1, TreeSize DEF Sized, TreeInv
<1>3. ASSUME NEW i \in DOMAIN nodes
      PROVE  /\ nodes[i].dir \in BOOLEAN
             /\ nodes[i].data \in SeqOf(Byte \union {Zero}, MaxSize)
             /\ DOMAIN nodes[i].entries \subseteq Name
             /\ \A n \in DOMAIN nodes[i].entries : nodes[i].entries[n] \in DOMAIN nodes
             /\ IF nodes[i].dir THEN nodes[i].data = <<>> ELSE DOMAIN nodes[i].entries = {}
  <2>1. nodes[i] \in Node
    BY <1>2 DEF TreeOK
  <2>2. nodes[i].dir \in BOOLEAN /\ nodes[i].data \in Content /\ nodes[i].entries \in Entries
    BY <2>1 DEF Node
  <2>3. DOMAIN nodes[i].entries \subseteq Name
    BY <2>2, EntriesAre
  <2>4. \A n \in DOMAIN nodes[i].entries : nodes[i].entries[n] \in DOMAIN nodes
    <3>1. \A n \in DOMAIN nodes[i].entries : nodes[i].entries[n] \in 1 .. m - 1
      BY <1>2 DEF TreeOK
    <3> QED BY <1>2, <3>1
  <2>5. OfAKind(nodes[i])
    BY <1>2 DEF TreeOK
  <2> QED BY <2>2, <2>3, <2>4, <2>5 DEF Content, OfAKind
<1>4. ASSUME NEW fd \in DOMAIN fds
      PROVE  fds[fd].node \in DOMAIN nodes /\ fds[fd].cursor \in Nat
  BY <1>2 DEF DescriptorsOK
<1>5. TypeOK
  BY <1>2, <1>3, <1>4 DEF TypeOK, DescriptorsOK
<1>6. NamesOf(Root) = {}
  BY <1>2 DEF NamesOf, TreeOK, Root
<1>7. ASSUME NEW i \in DOMAIN nodes PROVE Cardinality(NamesOf(i)) <= 1
  <2>1. \A x, y \in NamesOf(i) : x = y
    BY <1>2 DEF NamesOf, TreeOK
  <2>2. CASE NamesOf(i) = {}
    BY <2>2, FS_EmptySet
  <2>3. CASE NamesOf(i) # {}
    <3>1. PICK x : x \in NamesOf(i)
      BY <2>3
    <3>2. NamesOf(i) = {x}
      BY <2>1, <3>1
    <3> QED BY <3>2, FS_Singleton
  <2> QED BY <2>2, <2>3
<1> QED BY <1>5, <1>6, <1>7 DEF NodesSound, OneName

\* Every node keeps its type and at most one name, and every entry and descriptor leads
\* to a node: no sequence of opens, creations, renames, unlinks and preloads, with any
\* failure among them, gives a node of src/filesystem.rs a second name or the root one.
THEOREM NodesSoundAlways == VirtualSpec => []NodesSound
<1>1. TreeInv /\ [VirtualNext]_vars => TreeInv'
  BY EveryStep DEF StepSound
<1>2. VirtualSpec => []TreeInv
  BY TreeInit, <1>1, PTL DEF VirtualSpec
<1> QED BY <1>2, TreeInvSound, PTL

\* A node that has neither a name nor a descriptor gets none again: what was unlinked
\* and closed is out of every call's reach.
THEOREM UnlinkedStaysGoneAlways == VirtualSpec => UnlinkedStaysGone
<1>1. TreeInv /\ [VirtualNext]_vars => TreeInv'
  BY EveryStep DEF StepSound
<1>2. TreeInv /\ [VirtualNext]_vars => [GoneStays]_vars
  BY EveryStep DEF StepSound
<1>3. VirtualSpec => [][GoneStays]_vars
  BY TreeInit, <1>1, <1>2, PTL DEF VirtualSpec
<1> QED BY <1>3 DEF GoneStays, UnlinkedStaysGone

\* The cursor of an open descriptor passes the end of its file, where read would panic,
\* only in the step that opens the file once more and truncates it.
THEOREM PastEndOnlyByTruncationAlways == VirtualSpec => PastEndOnlyByTruncation
<1>1. TreeInv /\ [VirtualNext]_vars => TreeInv'
  BY EveryStep DEF StepSound
<1>2. TreeInv /\ [VirtualNext]_vars => [CutByTruncation]_vars
  BY EveryStep DEF StepSound
<1>3. VirtualSpec => [][CutByTruncation]_vars
  BY TreeInit, <1>1, <1>2, PTL DEF VirtualSpec
<1> QED BY <1>3 DEF CutByTruncation, PastEndOnlyByTruncation

\* A loop of directories without a way from the root is closed only by a rename that
\* moves a directory into what it reaches, which src/filesystem.rs does not refuse.
THEOREM LoopsOnlyByRenameAlways == VirtualSpec => LoopsOnlyByRename
<1>1. TreeInv /\ [VirtualNext]_vars => TreeInv'
  BY EveryStep DEF StepSound
<1>2. TreeInv /\ [VirtualNext]_vars => [nodes' # nodes => LoopsByRename]_vars
  BY EveryStep DEF StepSound
<1>3. VirtualSpec => [][nodes' # nodes => LoopsByRename]_vars
  BY TreeInit, <1>1, <1>2, PTL DEF VirtualSpec
<1> QED BY <1>3 DEF LoopsByRename, LoopsOnlyByRename

\* A call of src/filesystem.rs, or a preload of src/composition.rs, that fails after it
\* changed the tree changed no data, gave no name and took at most one.
THEOREM FailuresTakeLittleAlways == VirtualSpec => FailuresTakeLittle
<1>1. TreeInv /\ [VirtualNext]_vars => TreeInv'
  BY EveryStep DEF StepSound
<1>2. TreeInv /\ [VirtualNext]_vars => [nodes' # nodes /\ result' = "err" => LittleTaken]_vars
  BY FailingStep DEF TreeInv
<1>3. VirtualSpec => [][nodes' # nodes /\ result' = "err" => LittleTaken]_vars
  BY TreeInit, <1>1, <1>2, PTL DEF VirtualSpec
<1> QED BY <1>3 DEF LittleTaken, FailuresTakeLittle

Preloads ==
    \A path \in Path, contents \in SeqOf(Byte, MaxSize) :
        PreloadFile(path, contents) => PreloadKeeps(path, contents)

\* A preload, whatever programs did before it and wherever it fails, keeps every name
\* and every other file; it fails just where a node of the other kind stands in the
\* way, and otherwise its contents are found at its path.
THEOREM PreloadsOnlyAddAlways == VirtualSpec => PreloadsOnlyAdd
<1>1. TreeInv /\ [VirtualNext]_vars => TreeInv'
  BY EveryStep DEF StepSound
<1>2. TreeInv => Preloads
  BY PreloadStep DEF Preloads, TreeInv
<1>3. TreeInv /\ [VirtualNext]_vars => [Preloads]_vars
  BY <1>2
<1>4. VirtualSpec => [][Preloads]_vars
  BY TreeInit, <1>1, <1>3, PTL DEF VirtualSpec
<1> QED BY <1>4 DEF Preloads, PreloadKeeps, PreloadsOnlyAdd

=============================================================================
