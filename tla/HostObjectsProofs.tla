-------------------------- MODULE HostObjectsProofs -------------------------
(***************************************************************************)
(* What a message, the client, the router and the virtual environment      *)
(* promise, for any names, endpoints, handlers, middleware, directories,   *)
(* files and bounds.  Lists are filtered everywhere, so the lemmas on      *)
(* Filter come first; they go by induction over a set of numbers or of     *)
(* lists.                                                                  *)
(***************************************************************************)
EXTENDS HostObjects, WellFoundedInduction, SequenceTheorems, FiniteSetTheorems, TLAPS

-----------------------------------------------------------------------------
(***************************************************************************)
(* Induction.                                                              *)
(***************************************************************************)

Less == {ij \in Nat \X Nat : ij[1] < ij[2]}

LEMMA LessWellFounded == IsWellFoundedOn(Less, Nat)
BY NatLessThanWellFounded DEF Less, OpToRel

\* A set of naturals with a member has a least one.
LEMMA LeastMember ==
    ASSUME NEW S \in SUBSET Nat, S # {}
    PROVE  \E i \in S : \A j \in S : i <= j
<1>1. PICK i \in S : \A j \in S : ~ (<<j, i>> \in Less)
  BY LessWellFounded, WFMin, Zenon
<1>2. ASSUME NEW j \in S PROVE i <= j
  <2>1. <<j, i>> \in Nat \X Nat /\ ~ (<<j, i>>[1] < <<j, i>>[2])
    BY <1>1 DEF Less
  <2> QED BY <2>1
<1> QED BY <1>2

\* Induction over a set of numbers.
LEMMA NatSetInduction ==
    ASSUME NEW P \in SUBSET Nat, 0 \in P, \A n \in P : n + 1 \in P
    PROVE  P = Nat
<1> SUFFICES ASSUME Nat \ P # {} PROVE FALSE
  OBVIOUS
<1>1. PICK i \in Nat \ P : \A j \in Nat \ P : i <= j
  BY LeastMember
<1>2. i # 0 /\ i - 1 \in Nat /\ i - 1 \notin Nat \ P
  BY <1>1
<1> QED BY <1>1, <1>2

\* Induction over a set of sequences.
LEMMA SeqSetInduction ==
    ASSUME NEW T, NEW P \in SUBSET Seq(T), <<>> \in P,
           \A s \in P : \A x \in T : Append(s, x) \in P
    PROVE  P = Seq(T)
<1> DEFINE N == {n \in Nat : \A s \in Seq(T) : Len(s) = n => s \in P}
<1>1. 0 \in N
  BY EmptySeq
<1>2. ASSUME NEW n \in N PROVE n + 1 \in N
  <2> SUFFICES ASSUME NEW s \in Seq(T), Len(s) = n + 1 PROVE s \in P
    OBVIOUS
  <2>1. s # <<>>
    BY EmptySeq
  <2>2. PICK t \in Seq(T) : \E x \in T : s = Append(t, x)
    BY <2>1, SequenceEmptyOrAppend
  <2>3. PICK x \in T : s = Append(t, x)
    BY <2>2
  <2>4. Len(s) = Len(t) + 1 /\ Len(t) \in Nat
    BY <2>3, AppendProperties, LenProperties
  <2>5. t \in P
    BY <2>4
  <2> QED BY <2>3, <2>5
<1>3. N = Nat
  BY <1>1, <1>2, NatSetInduction
<1>4. ASSUME NEW s \in Seq(T) PROVE s \in P
  BY <1>3, LenProperties
<1> QED BY <1>4

-----------------------------------------------------------------------------
(***************************************************************************)
(* Filter keeps, in their order, the elements that are in the set.         *)
(***************************************************************************)

KeptBy(s, S, n, f) ==
    f = [i \in 0 .. n |-> IF i = 0 THEN <<>>
                          ELSE IF s[i] \in S THEN Append(f[i - 1], s[i])
                          ELSE f[i - 1]]

LEMMA KeptEquations ==
    ASSUME NEW s, NEW S, NEW n \in Nat, NEW f, KeptBy(s, S, n, f)
    PROVE  /\ f[0] = <<>>
           /\ \A i \in 1 .. n : f[i] = IF s[i] \in S THEN Append(f[i - 1], s[i]) ELSE f[i - 1]
<1> DEFINE h == [i \in 0 .. n |-> IF i = 0 THEN <<>>
                                  ELSE IF s[i] \in S THEN Append(f[i - 1], s[i])
                                  ELSE f[i - 1]]
<1>1. f = h
  BY DEF KeptBy
<1>2. /\ h[0] = <<>>
      /\ \A i \in 1 .. n : h[i] = IF s[i] \in S THEN Append(f[i - 1], s[i]) ELSE f[i - 1]
  OBVIOUS
<1> HIDE DEF h
<1>3. f[0] = h[0] /\ \A i \in 1 .. n : f[i] = h[i]
  BY <1>1
<1> QED BY <1>2, <1>3

LEMMA KeptExists == ASSUME NEW s, NEW S, NEW n \in Nat PROVE \E f : KeptBy(s, S, n, f)
<1> DEFINE N == {m \in Nat : \E f : KeptBy(s, S, m, f)}
<1>1. 0 \in N
  <2>1. KeptBy(s, S, 0, [i \in 0 .. 0 |-> <<>>])
    BY DEF KeptBy
  <2> QED BY <2>1
<1>2. ASSUME NEW m \in N PROVE m + 1 \in N
  <2>1. PICK f : KeptBy(s, S, m, f)
    OBVIOUS
  <2>7. m \in Nat
    OBVIOUS
  <2>3. /\ f[0] = <<>>
        /\ \A i \in 1 .. m : f[i] = IF s[i] \in S THEN Append(f[i - 1], s[i]) ELSE f[i - 1]
    BY ONLY <2>1, <2>7, KeptEquations
  <2> DEFINE g == [i \in 0 .. m + 1 |-> IF i <= m THEN f[i]
                                        ELSE IF s[i] \in S THEN Append(f[i - 1], s[i])
                                        ELSE f[i - 1]]
  <2>2. /\ \A i \in 0 .. m : g[i] = f[i]
        /\ g[m + 1] = IF s[m + 1] \in S THEN Append(f[m], s[m + 1]) ELSE f[m]
    OBVIOUS
  <2> DEFINE h == [i \in 0 .. m + 1 |-> IF i = 0 THEN <<>>
                                        ELSE IF s[i] \in S THEN Append(g[i - 1], s[i])
                                        ELSE g[i - 1]]
  <2>4. ASSUME NEW i \in 0 .. m + 1 PROVE g[i] = h[i]
    <3> HIDE DEF g
    <3>1. CASE i = 0
      BY <2>2, <2>3, <3>1
    <3>2. CASE i \in 1 .. m
      BY <2>2, <2>3, <3>2
    <3>3. CASE i = m + 1
      BY <2>2, <3>3
    <3> QED BY <3>1, <3>2, <3>3
  <2>5. g = h
    BY <2>4
  <2>6. KeptBy(s, S, m + 1, g)
    BY <2>5 DEF KeptBy
  <2> QED BY <2>6
<1>3. N = Nat
  BY <1>1, <1>2, NatSetInduction
<1> QED BY <1>3

\* What is kept of two lists agrees as long as the lists do.
LEMMA KeptAgree ==
    ASSUME NEW s, NEW t, NEW S, NEW n \in Nat, NEW m \in Nat, n <= m,
           \A i \in 1 .. n : s[i] = t[i],
           NEW f, KeptBy(s, S, n, f), NEW g, KeptBy(t, S, m, g)
    PROVE  f[n] = g[n]
<1> DEFINE N == {i \in Nat : i <= n => f[i] = g[i]}
<1>1. /\ f[0] = <<>> /\ g[0] = <<>>
      /\ \A i \in 1 .. n : f[i] = IF s[i] \in S THEN Append(f[i - 1], s[i]) ELSE f[i - 1]
      /\ \A i \in 1 .. m : g[i] = IF t[i] \in S THEN Append(g[i - 1], t[i]) ELSE g[i - 1]
  BY KeptEquations
<1>2. 0 \in N
  BY <1>1
<1>3. ASSUME NEW i \in N PROVE i + 1 \in N
  BY <1>1
<1>4. N = Nat
  BY <1>2, <1>3, NatSetInduction
<1> QED BY <1>4

LEMMA FilterIs ==
    ASSUME NEW s, NEW S, Len(s) \in Nat
    PROVE  \E f : KeptBy(s, S, Len(s), f) /\ Filter(s, S) = f[Len(s)]
<1>1. \E f : KeptBy(s, S, Len(s), f)
  BY KeptExists
<1> QED BY <1>1 DEF KeptBy, Filter

LEMMA FilterEmpty == \A S : Filter(<<>>, S) = <<>>
<1>1. Len(<<>>) = 0
  BY EmptySeq
<1>2. ASSUME NEW S PROVE Filter(<<>>, S) = <<>>
  <2>1. PICK f : KeptBy(<<>>, S, Len(<<>>), f) /\ Filter(<<>>, S) = f[Len(<<>>)]
    BY <1>1, FilterIs
  <2> QED BY <1>1, <2>1 DEF KeptBy
<1> QED BY <1>2

LEMMA FilterAppend ==
    ASSUME NEW T, NEW s \in Seq(T), NEW x \in T, NEW S
    PROVE  Filter(Append(s, x), S) = IF x \in S THEN Append(Filter(s, S), x) ELSE Filter(s, S)
<1> DEFINE t == Append(s, x)
<1>1. /\ t \in Seq(T) /\ Len(s) \in Nat /\ Len(t) = Len(s) + 1
      /\ \A i \in 1 .. Len(s) : s[i] = t[i]
      /\ t[Len(s) + 1] = x
  BY AppendProperties, LenProperties
<1> HIDE DEF t
<1>2. PICK f : KeptBy(s, S, Len(s), f) /\ Filter(s, S) = f[Len(s)]
  BY <1>1, FilterIs
<1>3. PICK g : KeptBy(t, S, Len(t), g) /\ Filter(t, S) = g[Len(t)]
  BY <1>1, FilterIs
<1>4. f[Len(s)] = g[Len(s)]
  BY <1>1, <1>2, <1>3, KeptAgree
<1>5. g[Len(s) + 1] = IF x \in S THEN Append(g[Len(s)], x) ELSE g[Len(s)]
  <2>1. \A i \in 1 .. Len(t) : g[i] = IF t[i] \in S THEN Append(g[i - 1], t[i]) ELSE g[i - 1]
    BY <1>1, <1>3, KeptEquations
  <2>2. Len(s) + 1 \in 1 .. Len(t) /\ Len(s) + 1 - 1 = Len(s)
    BY <1>1
  <2>3. g[Len(s) + 1] = IF t[Len(s) + 1] \in S THEN Append(g[Len(s) + 1 - 1], t[Len(s) + 1])
                        ELSE g[Len(s) + 1 - 1]
    BY ONLY <2>1, <2>2
  <2> QED BY ONLY <1>1, <2>2, <2>3
<1>6. Filter(t, S) = IF x \in S THEN Append(Filter(s, S), x) ELSE Filter(s, S)
  BY <1>1, <1>2, <1>3, <1>4, <1>5
<1> QED BY <1>6 DEF t

\* What the filter keeps are elements of the list that are in the set.
LEMMA FilterType ==
    ASSUME NEW T, NEW s \in Seq(T), NEW S
    PROVE  /\ Filter(s, S) \in Seq(T \intersect S) /\ Filter(s, S) \in Seq(T)
           /\ Len(Filter(s, S)) \in Nat /\ Len(Filter(s, S)) <= Len(s)
<1> DEFINE P == {t \in Seq(T) : /\ Filter(t, S) \in Seq(T \intersect S)
                                /\ Len(Filter(t, S)) <= Len(t)}
<1>1. <<>> \in P
  <2>1. <<>> \in Seq(T) /\ <<>> \in Seq(T \intersect S) /\ Len(<<>>) = 0 /\ Filter(<<>>, S) = <<>>
    BY EmptySeq, FilterEmpty
  <2>2. Filter(<<>>, S) \in Seq(T \intersect S)
    BY <2>1, Zenon
  <2>3. Len(Filter(<<>>, S)) <= Len(<<>>)
    BY ONLY <2>1
  <2> QED BY <2>1, <2>2, <2>3, Zenon
<1>2. ASSUME NEW t \in P, NEW x \in T PROVE Append(t, x) \in P
  <2>1. /\ Append(t, x) \in Seq(T) /\ Len(Append(t, x)) = Len(t) + 1
        /\ Len(t) \in Nat /\ Len(Filter(t, S)) \in Nat
    BY AppendProperties, LenProperties
  <2>2. Filter(Append(t, x), S) = IF x \in S THEN Append(Filter(t, S), x) ELSE Filter(t, S)
    BY FilterAppend
  <2>3. CASE x \in S
    <3>1. /\ Append(Filter(t, S), x) \in Seq(T \intersect S)
          /\ Len(Append(Filter(t, S), x)) = Len(Filter(t, S)) + 1
      BY <2>3, AppendProperties
    <3> QED BY <2>1, <2>2, <2>3, <3>1
  <2>4. CASE x \notin S
    BY <2>1, <2>2, <2>4
  <2> QED BY <2>3, <2>4
<1>3. P = Seq(T)
  BY <1>1, <1>2, SeqSetInduction
<1>4. Filter(s, S) \in Seq(T \intersect S) /\ Len(Filter(s, S)) <= Len(s)
  BY <1>3
<1>5. Filter(s, S) \in Seq(T)
  BY <1>4, SeqMonotonic
<1> QED BY <1>4, <1>5, LenProperties

\* A filter of a filter keeps what both keep.
LEMMA FilterTwice ==
    ASSUME NEW T, NEW s \in Seq(T), NEW A, NEW B
    PROVE  Filter(Filter(s, A), B) = Filter(s, A \intersect B)
<1> DEFINE P == {t \in Seq(T) : Filter(Filter(t, A), B) = Filter(t, A \intersect B)}
<1>1. <<>> \in P
  BY EmptySeq, FilterEmpty
<1>2. ASSUME NEW t \in P, NEW x \in T PROVE Append(t, x) \in P
  <2>1. Append(t, x) \in Seq(T) /\ Filter(t, A) \in Seq(T)
    BY AppendProperties, FilterType
  <2>2. Filter(Append(t, x), A) = IF x \in A THEN Append(Filter(t, A), x) ELSE Filter(t, A)
    BY FilterAppend
  <2>3. Filter(Append(Filter(t, A), x), B)
            = IF x \in B THEN Append(Filter(Filter(t, A), B), x) ELSE Filter(Filter(t, A), B)
    <3> DEFINE own == Filter(t, A)
    <3>1. own \in Seq(T)
      BY <2>1
    <3> HIDE DEF own
    <3>2. Filter(Append(own, x), B) = IF x \in B THEN Append(Filter(own, B), x) ELSE Filter(own, B)
      BY <3>1, FilterAppend
    <3> QED BY <3>2 DEF own
  <2>4. Filter(Append(t, x), A \intersect B)
            = IF x \in A \intersect B THEN Append(Filter(t, A \intersect B), x)
              ELSE Filter(t, A \intersect B)
    BY FilterAppend
  <2>5. Filter(Filter(t, A), B) = Filter(t, A \intersect B)
    OBVIOUS
  <2>6. Filter(Filter(Append(t, x), A), B) = Filter(Append(t, x), A \intersect B)
    <3>1. CASE x \in A /\ x \in B
      BY <2>2, <2>3, <2>4, <2>5, <3>1
    <3>2. CASE x \in A /\ x \notin B
      BY <2>2, <2>3, <2>4, <2>5, <3>2
    <3>3. CASE x \notin A
      BY <2>2, <2>4, <2>5, <3>3
    <3> QED BY <3>1, <3>2, <3>3
  <2> QED BY <2>1, <2>6
<1>3. P = Seq(T)
  BY <1>1, <1>2, SeqSetInduction
<1> QED BY <1>3

\* A filter that keeps every element changes nothing.
LEMMA FilterAll ==
    ASSUME NEW T, NEW s \in Seq(T), NEW S, T \subseteq S
    PROVE  Filter(s, S) = s
<1> DEFINE P == {t \in Seq(T) : Filter(t, S) = t}
<1>1. <<>> \in P
  BY EmptySeq, FilterEmpty
<1>2. ASSUME NEW t \in P, NEW x \in T PROVE Append(t, x) \in P
  <2>1. Append(t, x) \in Seq(T) /\ Filter(Append(t, x), S) = Append(Filter(t, S), x)
    BY AppendProperties, FilterAppend
  <2> QED BY <2>1
<1>3. P = Seq(T)
  BY <1>1, <1>2, SeqSetInduction
<1> QED BY <1>3

\* What a filter keeps and what it drops are all of the list.
LEMMA FilterSplits ==
    ASSUME NEW T, NEW s \in Seq(T), NEW A, NEW B, A \intersect B = {}, T \subseteq A \union B
    PROVE  Len(Filter(s, A)) + Len(Filter(s, B)) = Len(s)
<1> DEFINE P == {t \in Seq(T) : Len(Filter(t, A)) + Len(Filter(t, B)) = Len(t)}
<1>1. <<>> \in P
  BY EmptySeq, FilterEmpty
<1>2. ASSUME NEW t \in P, NEW x \in T PROVE Append(t, x) \in P
  <2>1. /\ Append(t, x) \in Seq(T) /\ Len(Append(t, x)) = Len(t) + 1
        /\ Len(t) \in Nat /\ Len(Filter(t, A)) \in Nat /\ Len(Filter(t, B)) \in Nat
    BY AppendProperties, LenProperties, FilterType
  <2>2. /\ Len(Append(Filter(t, A), x)) = Len(Filter(t, A)) + 1
        /\ Len(Append(Filter(t, B), x)) = Len(Filter(t, B)) + 1
    BY FilterType, AppendProperties
  <2>3. /\ Filter(Append(t, x), A) = IF x \in A THEN Append(Filter(t, A), x) ELSE Filter(t, A)
        /\ Filter(Append(t, x), B) = IF x \in B THEN Append(Filter(t, B), x) ELSE Filter(t, B)
    BY FilterAppend
  <2>4. (x \in A /\ x \notin B) \/ (x \notin A /\ x \in B)
    OBVIOUS
  <2>5. Len(Filter(t, A)) + Len(Filter(t, B)) = Len(t)
    OBVIOUS
  <2>6. Len(Filter(Append(t, x), A)) + Len(Filter(Append(t, x), B)) = Len(Append(t, x))
    <3>1. CASE x \in A /\ x \notin B
      <4>1. /\ Len(Filter(Append(t, x), A)) = Len(Filter(t, A)) + 1
            /\ Len(Filter(Append(t, x), B)) = Len(Filter(t, B))
        BY <2>2, <2>3, <3>1
      <4> QED BY ONLY <2>1, <2>5, <4>1
    <3>2. CASE x \notin A /\ x \in B
      <4>1. /\ Len(Filter(Append(t, x), A)) = Len(Filter(t, A))
            /\ Len(Filter(Append(t, x), B)) = Len(Filter(t, B)) + 1
        BY <2>2, <2>3, <3>2
      <4> QED BY ONLY <2>1, <2>5, <4>1
    <3> QED BY <2>4, <3>1, <3>2
  <2> QED BY <2>1, <2>6
<1>3. P = Seq(T)
  BY <1>1, <1>2, SeqSetInduction
<1> QED BY <1>3

\* A filter keeps something where an element of the list is in the set.
LEMMA FilterFinds ==
    ASSUME NEW T, NEW s \in Seq(T), NEW S, NEW k \in 1 .. Len(s), s[k] \in S
    PROVE  Filter(s, S) # <<>>
<1> DEFINE P == {t \in Seq(T) : (\E i \in 1 .. Len(t) : t[i] \in S) => Filter(t, S) # <<>>}
<1>1. <<>> \in P
  BY EmptySeq
<1>2. ASSUME NEW t \in P, NEW x \in T PROVE Append(t, x) \in P
  <2>1. /\ Append(t, x) \in Seq(T) /\ Len(Append(t, x)) = Len(t) + 1 /\ Len(t) \in Nat
        /\ Append(t, x)[Len(t) + 1] = x
        /\ \A i \in 1 .. Len(t) : Append(t, x)[i] = t[i]
    BY AppendProperties, LenProperties
  <2>2. Filter(Append(t, x), S) = IF x \in S THEN Append(Filter(t, S), x) ELSE Filter(t, S)
    BY FilterAppend
  <2>3. Filter(t, S) \in Seq(T)
    BY FilterType
  <2>4. Append(Filter(t, S), x) # <<>>
    BY <2>3, AppendProperties
  <2>5. ASSUME NEW i \in 1 .. Len(t) + 1, Append(t, x)[i] \in S, x \notin S
        PROVE  \E j \in 1 .. Len(t) : t[j] \in S
    BY <2>1, <2>5
  <2> QED BY <2>1, <2>2, <2>4, <2>5
<1>3. P = Seq(T)
  BY <1>1, <1>2, SeqSetInduction
<1> QED BY <1>3

-----------------------------------------------------------------------------
(***************************************************************************)
(* The router.                                                             *)
(***************************************************************************)

\* Every step of the host's objects is one of the router or leaves it alone.
LEMMA RouterStep == [Next]_vars => [RouterNext]_routerVars
BY DEF Next, vars, routerVars

\* The routes are a list of endpoints and handlers.
RoutesTyped == routes \in Seq([endpoint : Endpoint, handler : Handler])

LEMMA RoutesTypedAlways == Spec => []RoutesTyped
<1>1. RouterInit => RoutesTyped
  BY DEF RouterInit, RoutesTyped
<1>2. RoutesTyped /\ [RouterNext]_routerVars => RoutesTyped'
  <2> SUFFICES ASSUME RoutesTyped, [RouterNext]_routerVars PROVE RoutesTyped'
    OBVIOUS
  <2> USE DEF RoutesTyped
  <2>1. ASSUME NEW ep \in Endpoint, NEW h \in Handler, AddRoute(ep, h) PROVE RoutesTyped'
    <3>1. [endpoint |-> ep, handler |-> h] \in [endpoint : Endpoint, handler : Handler]
      OBVIOUS
    <3> QED BY <2>1, <3>1 DEF AddRoute
  <2>2. CASE UNCHANGED routes
    BY <2>2
  <2> QED BY <2>1, <2>2 DEF RouterNext, UseMiddleware, ServeStatic, routerVars
<1>3. Init => RouterInit
  BY DEF Init
<1> QED BY <1>1, <1>2, <1>3, RouterStep, PTL DEF Spec

-----------------------------------------------------------------------------
(***************************************************************************)
(* The first route that matches.                                           *)
(***************************************************************************)

First(S) == CHOOSE i \in S : \A j \in S : i <= j

LEMMA FirstIs ==
    ASSUME NEW S \in SUBSET Nat, NEW i \in S, \A j \in S : i <= j
    PROVE  First(S) = i
<1>1. \A k \in S : (\A j \in S : k <= j) => k = i
  OBVIOUS
<1> QED BY <1>1 DEF First

\* A route that is added at the end does not become the first that matches.
LEMMA FirstStays ==
    ASSUME NEW n \in Nat, NEW S \in SUBSET (1 .. n), S # {}, NEW T \in SUBSET {n + 1}
    PROVE  First(S \union T) = First(S) /\ First(S) \in S
<1>1. PICK i \in S : \A j \in S : i <= j
  BY LeastMember
<1>2. \A j \in S \union T : i <= j
  BY <1>1
<1>3. First(S \union T) = i
  BY <1>2, FirstIs
<1>4. First(S) = i
  BY <1>1, FirstIs
<1> QED BY <1>3, <1>4

LEMMA MatchingKept ==
    ASSUME RoutesTyped, [RouterNext]_routerVars, NEW e
    PROVE  /\ Matching(e) \subseteq 1 .. Len(routes)
           /\ \E T \in SUBSET {Len(routes) + 1} : Matching(e)' = Matching(e) \union T
           /\ \A k \in Matching(e) : routes'[k] = routes[k]
<1> USE DEF Matching, RoutesTyped
<1>1. ASSUME NEW ep \in Endpoint, NEW h \in Handler, AddRoute(ep, h)
      PROVE  /\ Len(routes') = Len(routes) + 1
             /\ \A k \in 1 .. Len(routes) : routes'[k] = routes[k]
  BY <1>1 DEF AddRoute
<1>2. UNCHANGED routes \/ \E ep \in Endpoint, h \in Handler : AddRoute(ep, h)
  BY DEF RouterNext, UseMiddleware, ServeStatic, routerVars
<1>3. CASE UNCHANGED routes
  <2>1. Matching(e)' = Matching(e) \union {}
    BY <1>3
  <2>2. Matching(e) \subseteq 1 .. Len(routes)
    OBVIOUS
  <2>3. \A k \in Matching(e) : routes'[k] = routes[k]
    BY <1>3
  <2>4. {} \in SUBSET {Len(routes) + 1}
    OBVIOUS
  <2> QED BY <2>1, <2>2, <2>3, <2>4
<1>4. CASE \E ep \in Endpoint, h \in Handler : AddRoute(ep, h)
  <2>1. /\ Len(routes') = Len(routes) + 1 /\ Len(routes) \in Nat
        /\ \A k \in 1 .. Len(routes) : routes'[k] = routes[k]
    BY <1>1, <1>4
  <2> DEFINE T == {k \in {Len(routes) + 1} : routes'[k].endpoint = e}
  <2>2. Matching(e)' = Matching(e) \union T
    BY <2>1
  <2> QED BY <2>1, <2>2
<1> QED BY <1>2, <1>3, <1>4

\* What a route answers it answers for ever, whatever routes and directories are
\* added, as long as no middleware is.
THEOREM RoutesKeptAlways == Spec => RoutesKept
<1>1. RoutesTyped /\ [RouterNext]_routerVars =>
          [middleware' = middleware =>
               \A ep \in Endpoint : Matching(Through(ep)) # {} => Answer(ep)' = Answer(ep)]_routerVars
  <2> SUFFICES ASSUME RoutesTyped, [RouterNext]_routerVars, middleware' = middleware,
                      NEW ep \in Endpoint, Matching(Through(ep)) # {}
               PROVE  Answer(ep)' = Answer(ep)
    OBVIOUS
  <2> DEFINE e == Through(ep)
  <2>1. Through(ep)' = Through(ep)
    BY DEF Through
  <2>2. PICK T \in SUBSET {Len(routes) + 1} : Matching(e)' = Matching(e) \union T
    BY <2>1, MatchingKept
  <2>3. Len(routes) \in Nat /\ Matching(e) \in SUBSET (1 .. Len(routes))
    BY MatchingKept DEF RoutesTyped
  <2>4. First(Matching(e) \union T) = First(Matching(e)) /\ First(Matching(e)) \in Matching(e)
    BY <2>2, <2>3, FirstStays
  <2>5. Answer(ep) = routes[First(Matching(e))].handler
    BY DEF Answer, First
  <2>6. Answer(ep)' = routes'[First(Matching(e)')].handler
    BY <2>1, <2>2 DEF Answer, First
  <2> QED BY <2>2, <2>4, <2>5, <2>6, MatchingKept
<1> QED BY <1>1, RoutesTypedAlways, RouterStep, PTL DEF Spec, RoutesKept

-----------------------------------------------------------------------------
(***************************************************************************)
(* The order of the directories names each of them once.                   *)
(***************************************************************************)

LEMMA OrderCovers ==
    ASSUME NEW S, IsFiniteSet(S), NEW o \in SetToSeqs(S)
    PROVE  /\ o \in Seq(S)
           /\ \A p \in S : \E i \in 1 .. Len(o) : o[i] = p
<1> DEFINE D == 1 .. Cardinality(S)
<1>1. Cardinality(S) \in Nat
  BY FS_CardinalityType
<1>2. o \in [D -> S] /\ \A i, j \in D : i # j => o[i] # o[j]
  BY DEF SetToSeqs
<1>3. o \in Seq(S) /\ Len(o) = Cardinality(S)
  <2>1. o \in Seq(S)
    BY <1>1, <1>2, SeqDef
  <2> QED BY <1>1, <1>2, <2>1, LenProperties
<1>4. Cardinality(D) = Cardinality(S)
  BY <1>1, FS_Interval
<1>5. o \in Injection(D, S)
  BY <1>2 DEF Injection, IsInjective
<1>6. o \in Surjection(D, S)
  BY <1>4, <1>5, FS_Injection
<1>7. \A p \in S : \E i \in D : o[i] = p
  BY <1>6 DEF Surjection
<1> QED BY <1>3, <1>7

LEMMA NoOrder == <<>> \in SetToSeqs({})
<1>1. 1 .. Cardinality({}) = {}
  BY FS_EmptySet
<1>2. <<>> \in [{} -> {}]
  OBVIOUS
<1> QED BY <1>1, <1>2 DEF SetToSeqs

\* The invariant of the router: its types, and finitely many directories.
RouterSound ==
    /\ RouterTypeOK
    /\ IsFiniteSet(DOMAIN staticDirs)

LEMMA RouterStarts == RouterInit => RouterSound
<1> SUFFICES ASSUME RouterInit PROVE RouterSound
  OBVIOUS
<1> USE DEF RouterInit
<1>1. DOMAIN staticDirs = {} /\ staticDirs \in [{} -> Files]
  OBVIOUS
<1>2. order \in SetToSeqs(DOMAIN staticDirs)
  BY <1>1, NoOrder
<1>3. IsFiniteSet(DOMAIN staticDirs)
  BY <1>1, FS_EmptySet
<1>4. routes \in Seq([endpoint : Endpoint, handler : Handler]) /\ middleware \in Seq(Middleware)
  OBVIOUS
<1> QED BY <1>1, <1>2, <1>3, <1>4 DEF RouterSound, RouterTypeOK

LEMMA RouterSteps == RouterSound /\ [RouterNext]_routerVars => RouterSound'
<1> SUFFICES ASSUME RouterSound, [RouterNext]_routerVars PROVE RouterSound'
  OBVIOUS
<1> USE DEF RouterSound, RouterTypeOK
<1>1. CASE UNCHANGED routerVars
  BY <1>1 DEF routerVars
<1>2. ASSUME NEW ep \in Endpoint, NEW h \in Handler, AddRoute(ep, h) PROVE RouterSound'
  <2>1. [endpoint |-> ep, handler |-> h] \in [endpoint : Endpoint, handler : Handler]
    OBVIOUS
  <2>2. routes' \in Seq([endpoint : Endpoint, handler : Handler])
    BY <1>2, <2>1, AppendProperties DEF AddRoute
  <2> QED BY <1>2, <2>2 DEF AddRoute
<1>3. ASSUME NEW m \in Middleware, UseMiddleware(m) PROVE RouterSound'
  <2>1. middleware' \in Seq(Middleware)
    BY <1>3, AppendProperties DEF UseMiddleware
  <2> QED BY <1>3, <2>1 DEF UseMiddleware
<1>4. ASSUME NEW p \in Prefix, NEW fs \in Files, ServeStatic(p, fs) PROVE RouterSound'
  <2>1. DOMAIN staticDirs' = DOMAIN staticDirs \union {p}
    BY <1>4 DEF ServeStatic
  <2>2. DOMAIN staticDirs' \subseteq Prefix
    BY <2>1
  <2>3. staticDirs' \in [DOMAIN staticDirs' -> Files]
    BY <1>4 DEF ServeStatic
  <2>4. IsFiniteSet(DOMAIN staticDirs')
    BY <2>1, FS_AddElement
  <2>5. order' \in SetToSeqs(DOMAIN staticDirs')
    <3>1. CASE p \in DOMAIN staticDirs
      <4>1. DOMAIN staticDirs' = DOMAIN staticDirs /\ order' = order
        BY <1>4, <2>1, <3>1 DEF ServeStatic
      <4> QED BY <4>1
    <3>2. CASE p \notin DOMAIN staticDirs
      BY <1>4, <2>1, <3>2 DEF ServeStatic
    <3> QED BY <3>1, <3>2
  <2>6. UNCHANGED <<routes, middleware>>
    BY <1>4 DEF ServeStatic
  <2> QED BY <2>2, <2>3, <2>4, <2>5, <2>6
<1> QED BY <1>1, <1>2, <1>3, <1>4 DEF RouterNext

LEMMA RouterSoundAlways == Spec => []RouterSound
<1>1. Init => RouterInit
  BY DEF Init
<1> QED BY <1>1, RouterStarts, RouterSteps, RouterStep, PTL DEF Spec

\* Only the directory p holds a file for what is left of the endpoint, and no
\* route has it.
OnlyHolder(ep, p) ==
    /\ p \in Prefix
    /\ Matching(Through(ep)) = {}
    /\ Holds(p, Through(ep)[2])
    /\ \A q \in Prefix \ {p} : ~ Holds(q, Through(ep)[2])

HoldersServe == \A ep, p : OnlyHolder(ep, p) => Answer(ep) = File(p, Through(ep)[2])

LEMMA ServedFrom == RouterSound => HoldersServe
<1> SUFFICES ASSUME RouterSound, NEW ep, NEW p, OnlyHolder(ep, p)
             PROVE  Answer(ep) = File(p, Through(ep)[2])
  BY DEF HoldersServe
<1> DEFINE u == Through(ep)[2]
           holders == {q \in Prefix : Holds(q, u)}
           holding == Filter(order, holders)
<1>1. p \in DOMAIN staticDirs
  BY DEF OnlyHolder, Holds
<1>2. order \in Seq(DOMAIN staticDirs) /\ \E i \in 1 .. Len(order) : order[i] = p
  BY <1>1, OrderCovers DEF RouterSound, RouterTypeOK
<1>3. holders = {p}
  BY DEF OnlyHolder
<1>4. Answer(ep) = IF holding # <<>> THEN File(holding[1], u) ELSE NotFound
  BY DEF Answer, OnlyHolder
<1> HIDE DEF u, holders
<1>5. holding # <<>> /\ holding \in Seq(DOMAIN staticDirs \intersect holders)
  BY <1>2, <1>3, FilterFinds, FilterType
<1> HIDE DEF holding
<1>6. holding[1] = p
  <2>1. holding[1] \in DOMAIN staticDirs \intersect holders
    BY <1>5
  <2> QED BY <1>3, <2>1
<1>7. Answer(ep) = File(p, u)
  BY <1>4, <1>5, <1>6
<1> QED BY <1>7 DEF u

\* A file that only one directory holds is served until its own directory is
\* replaced or its URL is claimed by a route or another directory: directories that
\* are added do not disturb it in whatever order the map is iterated.
THEOREM FilesKeptAlways == Spec => FilesKept
<1> DEFINE Kept ==
        middleware' = middleware =>
           \A ep \in Endpoint :
               LET u == Through(ep)[2] IN
               \A p \in DOMAIN staticDirs :
                   /\ Matching(Through(ep)) = {} /\ Matching(Through(ep))' = {}
                   /\ Holds(p, u) /\ staticDirs'[p] = staticDirs[p]
                   /\ \A q \in Prefix \ {p} : ~ Holds(q, u) /\ ~ Holds(q, u)'
                   => Answer(ep) = File(p, u) /\ Answer(ep)' = File(p, u)
<1>1. RouterSound /\ RouterSound' /\ [RouterNext]_routerVars => [Kept]_routerVars
  <2> SUFFICES ASSUME RouterSound, RouterSound', [RouterNext]_routerVars,
                      middleware' = middleware,
                      NEW ep \in Endpoint, NEW p \in DOMAIN staticDirs,
                      Matching(Through(ep)) = {}, Matching(Through(ep))' = {},
                      Holds(p, Through(ep)[2]), staticDirs'[p] = staticDirs[p],
                      \A q \in Prefix \ {p} :
                          ~ Holds(q, Through(ep)[2]) /\ ~ Holds(q, Through(ep)[2])'
               PROVE  /\ Answer(ep) = File(p, Through(ep)[2])
                      /\ Answer(ep)' = File(p, Through(ep)[2])
    BY Zenon
  <2>1. Through(ep)' = Through(ep)
    BY DEF Through
  <2>2. p \in Prefix
    BY DEF RouterSound, RouterTypeOK
  <2>3. OnlyHolder(ep, p)
    BY <2>2 DEF OnlyHolder
  <2>4. DOMAIN staticDirs \subseteq DOMAIN staticDirs'
    BY DEF RouterNext, AddRoute, UseMiddleware, ServeStatic, routerVars
  <2>5. Holds(p, Through(ep)[2])'
    BY <2>1, <2>4 DEF Holds
  <2>6. OnlyHolder(ep, p)'
    BY <2>2, <2>5 DEF OnlyHolder
  <2>7. HoldersServe'
    BY ServedFrom, PTL
  <2>8. Answer(ep) = File(p, Through(ep)[2])
    BY <2>3, ServedFrom DEF HoldersServe
  <2>9. Answer(ep)' = File(p, Through(ep)[2])'
    BY <2>6, <2>7 DEF HoldersServe
  <2>10. File(p, Through(ep)[2])' = File(p, Through(ep)[2])
    BY <2>1 DEF File
  <2> QED BY <2>8, <2>9, <2>10
<1> QED BY <1>1, RouterSoundAlways, RouterStep, PTL DEF Spec, FilesKept

-----------------------------------------------------------------------------
(***************************************************************************)
(* The virtual environment.                                                *)
(***************************************************************************)

FileType == [path : Path, contents : Data, readOnly : BOOLEAN]

LEMMA EnvironmentStep == [Next]_vars => [Environment!Next]_files
BY DEF Next, vars

\* The first entry of a path that has one.
LEMMA FirstEntry ==
    ASSUME Environment!TypeOK, NEW p, Environment!Entries(p) # {}
    PROVE  /\ Environment!Entries(p) \in SUBSET (1 .. Len(files))
           /\ Environment!First(p) = First(Environment!Entries(p))
           /\ Environment!First(p) \in 1 .. Len(files)
           /\ files[Environment!First(p)].path = p
<1>1. Environment!Entries(p) \in SUBSET (1 .. Len(files)) /\ Len(files) \in Nat
  BY LenProperties DEF Environment!Entries, Environment!TypeOK
<1>2. Environment!First(p) = First(Environment!Entries(p))
  BY DEF Environment!First, First
<1>3. First(Environment!Entries(p) \union {}) \in Environment!Entries(p)
  BY <1>1, FirstStays
<1>4. Environment!First(p) \in Environment!Entries(p)
  BY <1>2, <1>3
<1> QED BY <1>1, <1>2, <1>4 DEF Environment!Entries

\* A file that is added stays behind the one that is read.
LEMMA AddedIsHidden ==
    ASSUME Environment!TypeOK, NEW p, Environment!Entries(p) # {},
           NEW q, NEW d, NEW r, Environment!AddFile(q, d, r)
    PROVE  Environment!ReadFile(p)' = Environment!ReadFile(p)
<1> DEFINE S == Environment!Entries(p)
           n == Len(files)
           T == {k \in {n + 1} : files'[k].path = p}
<1>1. /\ n \in Nat /\ Len(files') = n + 1
      /\ DOMAIN files = 1 .. n /\ DOMAIN files' = 1 .. n + 1
      /\ \A k \in 1 .. n : files'[k] = files[k]
  BY DEF Environment!AddFile, Environment!TypeOK
<1>2. Environment!Entries(p)' = S \union T
  BY <1>1 DEF Environment!Entries
<1>3. S \in SUBSET (1 .. n) /\ First(S \union T) = First(S) /\ First(S) \in 1 .. n
  <2>1. S \in SUBSET (1 .. n) /\ S # {}
    BY FirstEntry
  <2>2. T \in SUBSET {n + 1} /\ n \in Nat
    BY <1>1
  <2> HIDE DEF S, T, n
  <2>3. First(S \union T) = First(S) /\ First(S) \in S
    BY ONLY <2>1, <2>2, FirstStays
  <2> QED BY <2>1, <2>3
<1>4. Environment!First(p) = First(S) /\ Environment!First(p)' = First(S \union T)
  BY <1>2 DEF Environment!First, First
<1>5. Environment!ReadFile(p)' = files'[First(S)].contents
  BY <1>2, <1>3, <1>4 DEF Environment!ReadFile
<1>6. Environment!ReadFile(p) = files[First(S)].contents
  BY <1>4 DEF Environment!ReadFile
<1> QED BY <1>1, <1>3, <1>5, <1>6

\* A write through another path leaves what a path reads.
LEMMA WriteInPlace ==
    ASSUME Environment!TypeOK, NEW p, Environment!Entries(p) # {},
           NEW q, Environment!Entries(q) # {}, NEW d \in Data,
           files' = [files EXCEPT ![Environment!First(q)].contents = d]
    PROVE  /\ files' \in Seq(FileType) /\ Len(files') = Len(files)
           /\ Environment!ReadFile(p)' = IF p = q THEN d ELSE Environment!ReadFile(p)
<1> DEFINE i == Environment!First(p)
           j == Environment!First(q)
<1>1. files \in Seq(FileType)
  BY DEF Environment!TypeOK, FileType
<1>2. i \in 1 .. Len(files) /\ files[i].path = p /\ j \in 1 .. Len(files) /\ files[j].path = q
  BY FirstEntry
<1>3. files' = [files EXCEPT ![j] = [files[j] EXCEPT !.contents = d]]
  BY <1>1, <1>2
<1> HIDE DEF i, j
<1>5. files[j] \in FileType
  BY <1>1, <1>2
<1> DEFINE e == files[j]
           w == [e EXCEPT !.contents = d]
<1>14. w \in FileType
  <2>1. e \in FileType
    BY <1>5
  <2> HIDE DEF e
  <2> QED BY <2>1 DEF FileType
<1>15. files' = [files EXCEPT ![j] = w]
  BY <1>3
<1> HIDE DEF w
<1>4. /\ files' \in Seq(FileType) /\ Len(files') = Len(files)
      /\ DOMAIN files' = DOMAIN files /\ DOMAIN files = 1 .. Len(files)
  <2>1. DOMAIN files = 1 .. Len(files) /\ Len(files) \in Nat
    BY <1>1, LenProperties
  <2>2. files' \in Seq(FileType) /\ Len(files') = Len(files)
    BY ONLY <1>1, <1>2, <1>14, <1>15, ExceptSeq
  <2>3. DOMAIN files' = DOMAIN files
    BY ONLY <1>15
  <2> QED BY <2>1, <2>2, <2>3
<1>6. files'[j].path = files[j].path /\ files'[j].contents = d
  BY <1>2, <1>3, <1>4, <1>5 DEF FileType
<1>7. \A k \in DOMAIN files : k # j => files'[k] = files[k]
  BY <1>3
<1>8. \A k \in DOMAIN files : files'[k].path = files[k].path
  BY <1>6, <1>7
<1>9. Environment!Entries(p)' = Environment!Entries(p)
  BY <1>4, <1>8 DEF Environment!Entries
<1>10. Environment!First(p)' = i
  BY <1>9 DEF Environment!First, i
<1>11. Environment!ReadFile(p)' = files'[i].contents /\ Environment!ReadFile(p) = files[i].contents
  BY <1>9, <1>10 DEF Environment!ReadFile, i
<1>12. CASE p = q
  BY <1>4, <1>6, <1>11, <1>12 DEF i, j
<1>13. CASE p # q
  <2>1. i # j
    BY <1>2, <1>13
  <2> QED BY <1>2, <1>4, <1>7, <1>11, <1>13, <2>1
<1> QED BY <1>4, <1>12, <1>13

LEMMA EnvironmentTyped ==
    /\ Environment!Init => Environment!TypeOK
    /\ Environment!TypeOK /\ [Environment!Next]_files => Environment!TypeOK'
<1> USE DEF Environment!TypeOK
<1>1. Environment!Init => Environment!TypeOK
  BY DEF Environment!Init
<1>2. ASSUME Environment!TypeOK, [Environment!Next]_files PROVE Environment!TypeOK'
  <2>1. ASSUME NEW p \in Path, NEW d \in Data, NEW r \in BOOLEAN, Environment!AddFile(p, d, r)
        PROVE  Environment!TypeOK'
    <3>1. [path |-> p, contents |-> d, readOnly |-> r] \in FileType
      BY DEF FileType
    <3> QED BY <1>2, <2>1, <3>1, AppendProperties
            DEF Environment!AddFile, Environment!File, FileType
  <2>2. ASSUME NEW p \in Path, NEW d \in Data, Environment!WriteFile(p, d)
        PROVE  Environment!TypeOK'
    <3>1. CASE Environment!Entries(p) = {} /\ Environment!AddFile(p, d, FALSE)
      BY <2>1, <3>1
    <3>2. CASE UNCHANGED files
      BY <1>2, <3>2
    <3>3. CASE /\ Environment!Entries(p) # {}
               /\ files' = [files EXCEPT ![Environment!First(p)].contents = d]
      BY <1>2, <3>3, WriteInPlace DEF FileType
    <3> QED BY <2>2, <3>1, <3>2, <3>3 DEF Environment!WriteFile
  <2> QED BY <1>2, <2>1, <2>2 DEF Environment!Next
<1> QED BY <1>1, <1>2

\* Once a path of the environment reads something, only a write to a writable file
\* changes what it reads: a file added under the same path stays hidden.
THEOREM ReadsKeptAlways == Spec => ReadsKept
<1> DEFINE Kept ==
        \A p \in Path :
            Environment!ReadFile(p) # None /\ Environment!ReadFile(p)' # Environment!ReadFile(p) =>
                /\ ~ files[Environment!First(p)].readOnly
                /\ Environment!ReadFile(p)' # None
                /\ Len(files') = Len(files)
<1>1. Environment!TypeOK /\ [Environment!Next]_files => [Kept]_(Environment!vars)
  <2> SUFFICES ASSUME Environment!TypeOK, Environment!Next, NEW p \in Path,
                      Environment!ReadFile(p) # None,
                      Environment!ReadFile(p)' # Environment!ReadFile(p)
               PROVE  /\ ~ files[Environment!First(p)].readOnly
                      /\ Environment!ReadFile(p)' # None
                      /\ Len(files') = Len(files)
    BY DEF Environment!vars
  <2>1. Environment!Entries(p) # {}
    BY DEF Environment!ReadFile
  <2>2. PICK q \in Path, d \in Data :
            \/ Environment!WriteFile(q, d)
            \/ \E r \in BOOLEAN : Environment!AddFile(q, d, r)
    BY DEF Environment!Next
  <2>3. ~ \E r \in BOOLEAN : Environment!AddFile(q, d, r)
    BY <2>1, AddedIsHidden
  <2>4. Environment!Entries(q) # {} /\ files' # files
    <3>1. ASSUME files' = files PROVE FALSE
      <4>1. Environment!Entries(p)' = Environment!Entries(p)
        BY <3>1 DEF Environment!Entries
      <4>2. Environment!First(p)' = Environment!First(p)
        BY <4>1 DEF Environment!First
      <4> QED BY <3>1, <4>1, <4>2 DEF Environment!ReadFile
    <3> QED BY <2>2, <2>3, <3>1 DEF Environment!WriteFile
  <2>5. /\ ~ files[Environment!First(q)].readOnly
        /\ files' = [files EXCEPT ![Environment!First(q)].contents = d]
    BY <2>2, <2>3, <2>4 DEF Environment!WriteFile
  <2>6. /\ Len(files') = Len(files)
        /\ Environment!ReadFile(p)' = IF p = q THEN d ELSE Environment!ReadFile(p)
    BY <2>1, <2>4, <2>5, WriteInPlace
  <2>7. p = q
    BY <2>6
  <2>8. d # None
    BY EnvironmentAssumption
  <2> QED BY <2>5, <2>6, <2>7, <2>8
<1>2. Init => Environment!Init
  BY DEF Init
<1> QED BY <1>1, <1>2, EnvironmentTyped, EnvironmentStep, PTL
        DEF Spec, ReadsKept, Environment!ReadsKept

-----------------------------------------------------------------------------
(***************************************************************************)
(* One component of each element of a list of pairs.                       *)
(***************************************************************************)

Column(s, c) == [i \in DOMAIN s |-> s[i][c]]

LEMMA ColumnEmpty == \A c : Column(<<>>, c) = <<>>
<1>1. DOMAIN <<>> = {}
  BY EmptySeq
<1> QED BY <1>1 DEF Column

LEMMA ColumnType ==
    ASSUME NEW T, NEW s \in Seq(T), NEW c
    PROVE  Column(s, c) \in Seq({y[c] : y \in T}) /\ Len(Column(s, c)) = Len(s)
<1> DEFINE U == {y[c] : y \in T}
           a == Column(s, c)
<1>1. Len(s) \in Nat /\ DOMAIN s = 1 .. Len(s) /\ \A i \in 1 .. Len(s) : s[i] \in T
  BY LenProperties
<1>2. a \in [1 .. Len(s) -> U]
  BY <1>1 DEF Column
<1>3. a \in Seq(U)
  BY <1>1, <1>2, SeqDef
<1> QED BY <1>1, <1>2, <1>3, LenProperties

LEMMA ColumnLength == ASSUME NEW T, NEW s \in Seq(T), NEW c PROVE Len(Column(s, c)) = Len(s)
BY ColumnType

LEMMA ColumnAppend ==
    ASSUME NEW T, NEW s \in Seq(T), NEW x \in T, NEW c
    PROVE  Column(Append(s, x), c) = Append(Column(s, c), x[c])
<1> DEFINE U == {y[c] : y \in T}
           t == Append(s, x)
           a == Column(s, c)
<1>1. Len(s) \in Nat /\ DOMAIN s = 1 .. Len(s) /\ \A i \in 1 .. Len(s) : s[i] \in T
  BY LenProperties
<1>3. a \in Seq(U) /\ Len(a) = Len(s)
  BY ColumnType
<1>4. /\ DOMAIN t = 1 .. Len(s) + 1 /\ t[Len(s) + 1] = x
      /\ \A i \in 1 .. Len(s) : t[i] = s[i]
  BY <1>1, AppendProperties, LenProperties
<1>5. x[c] \in U
  OBVIOUS
<1>6. /\ DOMAIN Append(a, x[c]) = 1 .. Len(s) + 1 /\ Append(a, x[c])[Len(s) + 1] = x[c]
      /\ \A i \in 1 .. Len(s) : Append(a, x[c])[i] = a[i]
      /\ Append(a, x[c]) \in Seq(U)
  <2> HIDE DEF a, U
  <2> QED BY <1>3, <1>5, AppendProperties, LenProperties
<1>7. \A i \in 1 .. Len(s) : a[i] = s[i][c]
  BY <1>1 DEF Column
<1>8. Append(a, x[c]) = [i \in 1 .. Len(s) + 1 |-> Append(a, x[c])[i]]
  <2> HIDE DEF a, U
  <2> QED BY <1>6, <1>1
<1>9. \A i \in 1 .. Len(s) + 1 : Append(a, x[c])[i] = t[i][c]
  <2> HIDE DEF a, t, U
  <2> SUFFICES ASSUME NEW i \in 1 .. Len(s) + 1 PROVE Append(a, x[c])[i] = t[i][c]
    OBVIOUS
  <2>1. CASE i = Len(s) + 1
    BY <1>4, <1>6, <2>1
  <2>2. CASE i \in 1 .. Len(s)
    BY <1>4, <1>6, <1>7, <2>2
  <2>3. Len(s) \in Nat /\ i \in 1 .. Len(s) + 1
    BY <1>1
  <2>4. i = Len(s) + 1 \/ i \in 1 .. Len(s)
    BY ONLY <2>3
  <2> QED BY <2>1, <2>2, <2>4, Zenon
<1>10. Column(t, c) = [i \in 1 .. Len(s) + 1 |-> t[i][c]]
  BY <1>4 DEF Column
<1>11. Column(t, c) = Append(a, x[c])
  <2> HIDE DEF a, t, U
  <2> QED BY <1>8, <1>9, <1>10
<1> QED BY <1>11

-----------------------------------------------------------------------------
(***************************************************************************)
(* The client.                                                             *)
(***************************************************************************)

Answered == Url \X (Reply \union {NotFound})

LEMMA ClientFilter == \A s, S : Client!Filter(s, S) = Filter(s, S)
BY DEF Client!Filter, Filter

LEMMA HistoryIs == Client!HistoryIsAnswered <=> history = Column(Filter(sent, Answered), 1)
BY ClientFilter DEF Client!HistoryIsAnswered, Column, Answered

LEMMA ClientStep == [Next]_vars => [Client!Next]_clientVars
BY DEF Next, vars, clientVars

ClientSound == Client!TypeOK /\ Client!HistoryIsAnswered

LEMMA ClientStarts == Client!Init => ClientSound
<1> SUFFICES ASSUME Client!Init PROVE ClientSound
  OBVIOUS
<1> USE DEF Client!Init
<1>1. Client!TypeOK
  BY DEF Client!TypeOK
<1>2. history = Column(Filter(sent, Answered), 1)
  BY FilterEmpty, ColumnEmpty
<1> QED BY <1>1, <1>2, HistoryIs DEF ClientSound

LEMMA ClientSends ==
    ASSUME ClientSound, NEW u \in Url, Client!Send(u)
    PROVE  Client!TypeOK' /\ history' = Column(Filter(sent', Answered), 1)
<1> DEFINE T == Url \X (Reply \union {NotFound, None})
           x == <<u, Client!Response(u)>>
           own == Filter(sent, Answered)
<1>1. sent \in Seq(T) /\ sent' = Append(sent, x) /\ history = Column(own, 1)
  BY HistoryIs DEF ClientSound, Client!TypeOK, Client!Send
<1>2. x \in T /\ (x \in Answered <=> u # <<>>)
  <2>1. Client!Response(u) \in Reply \union {NotFound, None}
    BY DEF Client!Response, ClientSound, Client!TypeOK
  <2>2. CASE u = <<>>
    <3>1. Client!Response(u) = None
      BY <2>2 DEF Client!Response
    <3> QED BY <2>1, <2>2, <3>1, ClientAssumption DEF Answered
  <2>3. CASE u # <<>>
    <3>1. Client!Response(u) \in Reply \union {NotFound}
      BY <2>3 DEF Client!Response, ClientSound, Client!TypeOK
    <3> QED BY <2>1, <2>3, <3>1 DEF Answered
  <2> QED BY <2>2, <2>3
<1>3. x[1] = u
  OBVIOUS
<1> HIDE DEF x, T
<1>4. own \in Seq(T)
  BY <1>1, FilterType
<1>5. Filter(sent', Answered) = IF u # <<>> THEN Append(own, x) ELSE own
  BY <1>1, <1>2, FilterAppend
<1>6. Column(Append(own, x), 1) = Append(Column(own, 1), u)
  BY <1>2, <1>3, <1>4, ColumnAppend
<1>7. history' = Column(Filter(sent', Answered), 1)
  BY <1>1, <1>5, <1>6 DEF Client!Send
<1>8. sent' \in Seq(T)
  BY <1>1, <1>2, AppendProperties
<1>9. history' \in Seq(Url) /\ UNCHANGED mocks
  BY AppendProperties DEF Client!Send, ClientSound, Client!TypeOK
<1> QED BY <1>7, <1>8, <1>9 DEF Client!TypeOK, ClientSound, T

LEMMA ClientSteps == ClientSound /\ [Client!Next]_clientVars => ClientSound'
<1> SUFFICES ASSUME ClientSound, [Client!Next]_clientVars PROVE ClientSound'
  OBVIOUS
<1>1. (Client!HistoryIsAnswered <=> history = Column(Filter(sent, Answered), 1))'
  BY HistoryIs, PTL
<1>2. ASSUME NEW u \in Url, Client!Send(u) PROVE ClientSound'
  BY <1>1, <1>2, ClientSends DEF ClientSound
<1>3. ASSUME NEW u \in Url, NEW r \in Reply, Client!Mock(u, r) PROVE ClientSound'
  BY <1>1, <1>3, HistoryIs DEF Client!Mock, ClientSound, Client!TypeOK
<1>4. CASE UNCHANGED clientVars
  BY <1>1, <1>4, HistoryIs DEF clientVars, ClientSound, Client!TypeOK
<1> QED BY <1>2, <1>3, <1>4 DEF Client!Next

-----------------------------------------------------------------------------
(***************************************************************************)
(* The headers of a message.                                               *)
(***************************************************************************)

Length == 0 .. MaxLength
Entry == (Key \X {Lower}) \X Length
EntryOf(k, v) == <<<<k, Lower>>, v>>
Own(k) == {<<k, Lower>>} \X Length

\* The values of each key in a list of entries.
ValuesOf(s) == [k \in Key |-> Column(Filter(s, Own(k)), 2)]

LEMMA MessageFilter == \A s, S : Message!Filter(s, S) = Filter(s, S)
BY DEF Message!Filter, Filter

LEMMA ValuesAre == Message!Values = ValuesOf(headers)
<1>1. ASSUME NEW k \in Key PROVE Message!Under(<<k, Lower>>) = Own(k)
  BY DEF Message!Under, Message!ToLowercase, Message!Value, Own, Length
<1>2. Message!Values = [k \in Key |-> Column(Filter(headers, Message!Under(<<k, Lower>>)), 2)]
  BY MessageFilter DEF Message!Values, Column
<1> QED BY <1>1, <1>2 DEF ValuesOf

LEMMA ValuesAreNext == Message!Values' = ValuesOf(headers')
<1>1. ASSUME NEW k \in Key PROVE Message!Under(<<k, Lower>>) = Own(k)
  BY DEF Message!Under, Message!ToLowercase, Message!Value, Own, Length
<1>2. Message!Values' = [k \in Key |-> Column(Filter(headers', Message!Under(<<k, Lower>>)), 2)]
  BY MessageFilter DEF Message!Values, Column
<1> QED BY <1>1, <1>2 DEF ValuesOf

LEMMA FilterNone == ASSUME NEW T, NEW s \in Seq(T) PROVE Filter(s, {}) = <<>>
<1>1. Filter(s, {}) \in Seq(T \intersect {})
  BY FilterType
<1>2. T \intersect {} = {}
  OBVIOUS
<1> HIDE DEF Filter
<1>3. Filter(s, {}) \in Seq({})
  BY <1>1, <1>2
<1> DEFINE t == Filter(s, {})
<1> HIDE DEF t
<1>4. t \in Seq({})
  BY <1>3 DEF t
<1>5. t = <<>>
  BY ONLY <1>4, EmptySeq, SequenceEmptyOrAppend
<1> QED BY <1>5 DEF t

LEMMA ValuesOfEmpty == ValuesOf(<<>>) = [k \in Key |-> <<>>]
BY FilterEmpty, ColumnEmpty DEF ValuesOf

LEMMA ValuesOfTyped ==
    ASSUME NEW s \in Seq(Entry), NEW k \in Key
    PROVE  /\ ValuesOf(s)[k] = Column(Filter(s, Own(k)), 2)
           /\ Len(ValuesOf(s)[k]) = Len(Filter(s, Own(k)))
<1>1. ValuesOf(s)[k] = Column(Filter(s, Own(k)), 2)
  BY DEF ValuesOf
<1>2. Filter(s, Own(k)) \in Seq(Entry)
  BY FilterType
<1>3. Len(Column(Filter(s, Own(k)), 2)) = Len(Filter(s, Own(k)))
  BY <1>2, ColumnLength
<1> QED BY <1>1, <1>3

LEMMA ValuesOfAppend ==
    ASSUME NEW s \in Seq(Entry), NEW k \in Key, NEW v \in Length
    PROVE  /\ Append(s, EntryOf(k, v)) \in Seq(Entry)
           /\ ValuesOf(Append(s, EntryOf(k, v))) = [ValuesOf(s) EXCEPT ![k] = Append(@, v)]
<1> DEFINE x == EntryOf(k, v)
           t == Append(s, x)
           w == [ValuesOf(s) EXCEPT ![k] = Append(@, v)]
<1>1. x \in Entry /\ x[2] = v /\ \A j \in Key : x \in Own(j) <=> j = k
  BY DEF Entry, Own, EntryOf
<1> HIDE DEF x
<1>2. t \in Seq(Entry)
  BY <1>1, AppendProperties
<1>3. ASSUME NEW j \in Key PROVE ValuesOf(t)[j] = w[j]
  <2> DEFINE own == Filter(s, Own(j))
  <2>1. own \in Seq(Entry)
    BY FilterType
  <2>2. Filter(t, Own(j)) = IF j = k THEN Append(own, x) ELSE own
    BY <1>1, FilterAppend
  <2> HIDE DEF own
  <2>3. Column(Append(own, x), 2) = Append(Column(own, 2), v)
    BY <1>1, <2>1, ColumnAppend
  <2>4. ValuesOf(t)[j] = Column(Filter(t, Own(j)), 2) /\ ValuesOf(s)[j] = Column(own, 2)
    BY DEF ValuesOf, own
  <2>5. w[j] = IF j = k THEN Append(ValuesOf(s)[j], v) ELSE ValuesOf(s)[j]
    BY DEF ValuesOf
  <2> HIDE DEF w, t
  <2>6. CASE j = k
    BY <2>2, <2>3, <2>4, <2>5, <2>6
  <2>7. CASE j # k
    BY <2>2, <2>4, <2>5, <2>7
  <2> QED BY <2>6, <2>7
<1>4. ValuesOf(t) = [j \in Key |-> ValuesOf(t)[j]] /\ w = [j \in Key |-> w[j]]
  BY DEF ValuesOf
<1>5. ValuesOf(t) = w
  <2> HIDE DEF w, t
  <2> QED BY <1>3, <1>4
<1> QED BY <1>2, <1>5 DEF x

\* What is left after a name is deleted.
LEMMA ValuesOfDelete ==
    ASSUME NEW s \in Seq(Entry), NEW name \in Key \X Spelling
    PROVE  LET k == name[1]
               t == Message!Filter(s, Message!But(name))
           IN  /\ t \in Seq(Entry) /\ Len(t) \in Nat /\ Len(t) <= Len(s)
               /\ ValuesOf(t) = [ValuesOf(s) EXCEPT ![k] = <<>>]
               /\ Len(t) = Len(s) - Len(ValuesOf(s)[k])
<1> DEFINE k == name[1]
           But == Message!But(name)
           t == Filter(s, But)
           w == [ValuesOf(s) EXCEPT ![k] = <<>>]
<1>1. k \in Key /\ But = ((Key \X Spelling) \ {<<k, Lower>>}) \X Length
  BY DEF Message!But, Message!Name, Message!ToLowercase, Message!Value, Length
<1> HIDE DEF k, But
<1>2. But \intersect Own(k) = {} /\ Entry \subseteq But \union Own(k)
  <2>1. Lower \in Spelling
    BY HeaderAssumption
  <2>2. ASSUME NEW e \in Entry, e[1] = <<k, Lower>> PROVE e \in Own(k)
    BY <2>2 DEF Entry, Own
  <2>3. ASSUME NEW e \in Entry, e[1] # <<k, Lower>> PROVE e \in But
    BY <1>1, <2>1, <2>3 DEF Entry
  <2>4. But \intersect Own(k) = {}
    BY <1>1 DEF Own
  <2> QED BY <2>2, <2>3, <2>4
<1>3. ASSUME NEW j \in Key PROVE But \intersect Own(j) = IF j = k THEN {} ELSE Own(j)
  <2>1. CASE j = k
    BY <1>2, <2>1
  <2>2. CASE j # k
    <3>1. Lower \in Spelling
      BY HeaderAssumption
    <3>2. ASSUME NEW e \in Own(j) PROVE e \in But
      BY <1>1, <2>2, <3>1 DEF Own
    <3> QED BY <2>2, <3>2
  <2> QED BY <2>1, <2>2
<1>4. t \in Seq(Entry) /\ Len(t) \in Nat /\ Len(t) <= Len(s)
  BY FilterType
<1>5. ASSUME NEW j \in Key PROVE ValuesOf(t)[j] = w[j]
  <2>1. Filter(t, Own(j)) = Filter(s, But \intersect Own(j))
    BY FilterTwice
  <2>2. ValuesOf(t)[j] = Column(Filter(t, Own(j)), 2)
    BY DEF ValuesOf
  <2>3. w[j] = IF j = k THEN <<>> ELSE Column(Filter(s, Own(j)), 2)
    BY DEF ValuesOf
  <2> HIDE DEF w, t
  <2>4. CASE j = k
    <3>1. Filter(t, Own(j)) = <<>>
      BY <1>3, <2>1, <2>4, FilterNone
    <3> QED BY <2>2, <2>3, <2>4, <3>1, ColumnEmpty
  <2>5. CASE j # k
    BY <1>3, <2>1, <2>2, <2>3, <2>5
  <2> QED BY <2>4, <2>5
<1>6. ValuesOf(t) = w
  <2>1. ValuesOf(t) = [j \in Key |-> ValuesOf(t)[j]] /\ w = [j \in Key |-> w[j]]
    BY DEF ValuesOf
  <2> HIDE DEF w, t
  <2> QED BY <1>5, <2>1
<1>7. Len(t) + Len(Filter(s, Own(k))) = Len(s)
  BY <1>2, FilterSplits
<1>8. Len(ValuesOf(s)[k]) = Len(Filter(s, Own(k)))
  BY <1>1, ValuesOfTyped
<1>9. Len(Filter(s, Own(k))) \in Nat /\ Len(s) \in Nat
  BY FilterType, LenProperties
<1>10. Len(t) = Len(s) - Len(ValuesOf(s)[k])
  <2> HIDE DEF t
  <2> QED BY ONLY <1>4, <1>7, <1>8, <1>9
<1>11. Message!Filter(s, But) = t
  BY MessageFilter
<1> HIDE DEF t
<1> QED BY <1>4, <1>6, <1>10, <1>11 DEF k, But

LEMMA MessageStep == [Next]_vars => [Message!Next]_messageVars
BY DEF Next, vars, messageVars

LEMMA MessageTyped ==
    /\ Message!Init => Message!TypeOK
    /\ Message!TypeOK /\ [Message!Next]_messageVars => Message!TypeOK'
<1>1. Message!TypeOK <=> headers \in Seq(Entry) /\ Len(headers) <= MaxHeaders /\ body \in Length
  BY DEF Message!TypeOK, Message!Value, Entry, Length
<1>2. (Message!TypeOK)' <=> headers' \in Seq(Entry) /\ Len(headers') <= MaxHeaders /\ body' \in Length
  BY DEF Message!TypeOK, Message!Value, Entry, Length
<1>3. MaxHeaders \in Nat /\ MaxHeaders >= 2 /\ 0 \in Length
  BY HeaderAssumption DEF Length
<1>4. Message!Init => Message!TypeOK
  BY <1>1, <1>3 DEF Message!Init
<1>5. ASSUME Message!TypeOK, [Message!Next]_messageVars PROVE Message!TypeOK'
  <2>1. CASE UNCHANGED messageVars
    BY <1>1, <1>2, <1>5, <2>1 DEF messageVars
  <2>2. ASSUME NEW n \in Length, Message!NewBare(n) PROVE Message!TypeOK'
    <3>1. headers' = <<>> /\ body' = n
      BY <2>2 DEF Message!NewBare
    <3> QED BY <1>2, <1>3, <3>1
  <2>3. ASSUME NEW n \in Length, Message!NewSized(n) PROVE Message!TypeOK'
    <3> DEFINE x == <<<<ContentLength, Lower>>, n>>
    <3>1. headers' = <<x>> /\ body' = n
      BY <2>3 DEF Message!NewSized
    <3>2. x \in Entry
      BY HeaderAssumption DEF Entry
    <3> HIDE DEF x
    <3> QED BY <1>2, <1>3, <3>1, <3>2
  <2>4. ASSUME NEW n \in Length, NEW type \in Length, Message!NewTyped(n, type)
        PROVE  Message!TypeOK'
    <3> DEFINE x == <<<<ContentLength, Lower>>, n>>
               y == <<<<ContentType, Lower>>, type>>
    <3>1. headers' = <<x, y>> /\ body' = n
      BY <2>4 DEF Message!NewTyped
    <3>2. x \in Entry /\ y \in Entry
      BY HeaderAssumption DEF Entry
    <3> HIDE DEF x, y
    <3>3. <<x, y>> \in Seq(Entry) /\ Len(<<x, y>>) = 2
      BY <3>2
    <3> QED BY <1>2, <1>3, <3>1, <3>3
  <2>5. ASSUME NEW n \in Length, Message!SetBody(n) PROVE Message!TypeOK'
    BY <1>1, <1>2, <1>5, <2>5 DEF Message!SetBody
  <2>6. ASSUME NEW name \in Key \X Spelling, Message!Delete(name) PROVE Message!TypeOK'
    <3>1. headers' = Message!Filter(headers, Message!But(name)) /\ body' = body
      BY <2>6 DEF Message!Delete
    <3>2. headers' \in Seq(Entry) /\ Len(headers') \in Nat /\ Len(headers') <= Len(headers)
      BY <1>1, <1>5, <3>1, ValuesOfDelete
    <3>3. Len(headers) \in Nat /\ Len(headers) <= MaxHeaders
      BY <1>1, <1>5, LenProperties
    <3>4. Len(headers') <= MaxHeaders
      BY ONLY <1>3, <3>2, <3>3
    <3> QED BY <1>1, <1>2, <1>5, <3>1, <3>2, <3>4
  <2>7. ASSUME NEW name \in Key \X Spelling, NEW v \in Length, Message!Add(name, v)
        PROVE  Message!TypeOK'
    <3> DEFINE x == <<<<name[1], Lower>>, v>>
    <3>1. Len(headers) < MaxHeaders /\ headers' = Append(headers, x) /\ body' = body
      BY <2>7 DEF Message!Add, Message!ToLowercase
    <3>2. x \in Entry
      BY DEF Entry
    <3> HIDE DEF x
    <3>3. headers' \in Seq(Entry) /\ Len(headers') = Len(headers) + 1 /\ Len(headers) \in Nat
      BY <1>1, <1>5, <3>1, <3>2, AppendProperties, LenProperties
    <3>4. Len(headers') <= MaxHeaders
      BY ONLY <1>3, <3>1, <3>3
    <3> QED BY <1>1, <1>2, <1>5, <3>1, <3>3, <3>4
  <2> QED BY <1>5, <2>1, <2>2, <2>3, <2>4, <2>5, <2>6, <2>7
          DEF Message!Next, Message!Value, Message!Name, Length
<1> QED BY <1>4, <1>5

LEMMA SecondAppended ==
    ASSUME NEW T, NEW s \in Seq(T), NEW y \in T, Len(s) = 1
    PROVE  /\ Append(s, y) \in Seq(T) /\ Len(Append(s, y)) = 2
           /\ Append(s, y)[1] = s[1] /\ Append(s, y)[2] = y
<1>1. /\ Append(s, y) \in Seq(T) /\ Len(Append(s, y)) = Len(s) + 1
      /\ \A i \in 1 .. Len(s) : Append(s, y)[i] = s[i]
      /\ Append(s, y)[Len(s) + 1] = y
  BY AppendProperties
<1>2. 1 \in 1 .. Len(s) /\ Len(s) + 1 = 2
  OBVIOUS
<1> QED BY <1>1, <1>2, Zenon
LEMMA TwoAppended == ASSUME NEW x, NEW y PROVE Append(<<x>>, y) = <<x, y>> /\ Len(<<x, y>>) = 2
<1> DEFINE T == {x, y}
           s == <<x>>
           a == Append(s, y)
           b == <<x, y>>
<1>1. s \in Seq(T) /\ Len(s) = 1 /\ s[1] = x
  OBVIOUS
<1>2. b \in Seq(T) /\ Len(b) = 2 /\ b[1] = x /\ b[2] = y
  OBVIOUS
<1>3. y \in T
  OBVIOUS
<1> HIDE DEF T, s, b
<1>4. a \in Seq(T) /\ Len(a) = 2 /\ a[1] = x /\ a[2] = y
  BY ONLY <1>1, <1>3, SecondAppended
<1> HIDE DEF a
<1>5. \A i \in 1 .. Len(a) : a[i] = b[i]
  BY <1>2, <1>4
<1>6. a = b
  BY ONLY <1>2, <1>4, <1>5, SeqEqual
<1> QED BY <1>2, <1>6 DEF a, b, s

\* FiniteSets is instantiated with the map.
LEMMA MapCardinality == \A S : Message!Multimap!Cardinality(S) = Cardinality(S)
BY DEF Message!Multimap!Cardinality, Cardinality

\* A new message begins the map anew.
LEMMA MessageBegins ==
    ASSUME NEW n \in Length, NEW type \in Length,
           \/ Message!NewBare(n) \/ Message!NewSized(n) \/ Message!NewTyped(n, type)
    PROVE  Message!Multimap!Begin
<1> DEFINE w == ValuesOf(headers')
           held == {k \in Key : w[k] # <<>>}
           e == [k \in Key |-> <<>>]
<1>1. Message!Values' = w
  BY ValuesAreNext
<1>2. ContentLength \in Key /\ ContentType \in Key /\ ContentLength # ContentType
  BY HeaderAssumption
<1>3. <<>> \in Seq(Entry) /\ ValuesOf(<<>>) = e
  BY EmptySeq, ValuesOfEmpty
<1>4. w \in [Key -> {<<>>} \union {<<v>> : v \in Length}] /\ Len(headers') = Cardinality(held)
  <2>1. CASE headers' = <<>>
    <3>1. w = e
      BY <1>3, <2>1
    <3>2. held = {}
      BY <3>1
    <3> QED BY <2>1, <3>1, <3>2, FS_EmptySet
  <2> DEFINE x == EntryOf(ContentLength, n)
             y == EntryOf(ContentType, type)
             s == Append(<<>>, x)
             f == [e EXCEPT ![ContentLength] = Append(@, n)]
  <2>4. s \in Seq(Entry) /\ ValuesOf(s) = f
    <3> HIDE DEF e
    <3>1. /\ Append(<<>>, x) \in Seq(Entry)
          /\ ValuesOf(Append(<<>>, x)) = [ValuesOf(<<>>) EXCEPT ![ContentLength] = Append(@, n)]
      BY <1>2, <1>3, ValuesOfAppend
    <3> QED BY <1>3, <3>1
  <2>5. f = [k \in Key |-> IF k = ContentLength THEN <<n>> ELSE <<>>]
    OBVIOUS
  <2> HIDE DEF f
  <2>2. CASE headers' = <<<<<<ContentLength, Lower>>, n>>>>
    <3>2. s = headers' /\ Len(headers') = 1
      BY <2>2 DEF EntryOf
    <3>3. w = [k \in Key |-> IF k = ContentLength THEN <<n>> ELSE <<>>]
      <4> HIDE DEF s
      <4> QED BY <2>4, <2>5, <3>2
    <3>4. held = {ContentLength}
      <4> HIDE DEF w
      <4> QED BY <1>2, <3>3
    <3>5. w \in [Key -> {<<>>} \union {<<v>> : v \in Length}]
      <4> HIDE DEF w
      <4> QED BY <3>3
    <3> HIDE DEF held
    <3> QED BY <3>2, <3>4, <3>5, FS_Singleton
  <2>3. CASE headers' = <<<<<<ContentLength, Lower>>, n>>, <<<<ContentType, Lower>>, type>>>>
    <3>3. Append(s, y) = headers' /\ Len(headers') = 2
      <4>1. s = <<x>>
        OBVIOUS
      <4> HIDE DEF s, x, y
      <4>2. Append(s, y) = <<x, y>> /\ Len(<<x, y>>) = 2
        BY <4>1, TwoAppended
      <4> QED BY <2>3, <4>2 DEF EntryOf, x, y
    <3> HIDE DEF s
    <3>2. ValuesOf(Append(s, y)) = [ValuesOf(s) EXCEPT ![ContentType] = Append(@, type)]
      BY <1>2, <2>4, ValuesOfAppend
    <3>4. w = [k \in Key |-> IF k = ContentLength THEN <<n>>
                             ELSE IF k = ContentType THEN <<type>> ELSE <<>>]
      BY <1>2, <2>4, <2>5, <3>2, <3>3
    <3> HIDE DEF w
    <3>5. held = {ContentLength} \union {ContentType}
      BY <1>2, <3>4
    <3>6. Cardinality({ContentLength} \union {ContentType}) = 1 + 1
      <4>1. IsFiniteSet({ContentLength}) /\ Cardinality({ContentLength}) = 1
        BY FS_Singleton
      <4>2. ContentType \notin {ContentLength}
        BY <1>2
      <4> QED BY ONLY <4>1, <4>2, FS_AddElement
    <3>7. w \in [Key -> {<<>>} \union {<<v>> : v \in Length}]
      BY <3>4
    <3> HIDE DEF held
    <3>8. Cardinality(held) = 2
      BY ONLY <3>5, <3>6
    <3> QED BY ONLY <3>3, <3>7, <3>8
  <2> QED BY <2>1, <2>2, <2>3 DEF Message!NewBare, Message!NewSized, Message!NewTyped
<1> HIDE DEF w
<1> QED BY <1>1, <1>4, MapCardinality DEF Message!Multimap!Begin, Message!Value, Length

\* The list of entries of a message is a map from names to lists of values, whatever
\* spelling a name is added or deleted under.
THEOREM ImplementsHeaderMapAlways == Spec => ImplementsHeaderMap
<1>1. Init => Message!Init /\ Message!Multimap!Init
  <2>1. Message!Init => Message!Multimap!Init
    BY ValuesAre, ValuesOfEmpty DEF Message!Init, Message!Multimap!Init, Message!Multimap!Empty
  <2> QED BY <2>1 DEF Init
<1>2. Message!TypeOK /\ [Message!Next]_messageVars =>
          [Message!Multimap!Next]_(Message!Multimap!vars)
  <2> SUFFICES ASSUME Message!TypeOK, [Message!Next]_messageVars
               PROVE  Message!Multimap!Next \/ UNCHANGED Message!Multimap!vars
    OBVIOUS
  <2>1. headers \in Seq(Entry)
    BY DEF Message!TypeOK, Message!Value, Entry, Length
  <2>2. Message!Values = ValuesOf(headers)
    BY ValuesAre
  <2>3. Message!Values' = ValuesOf(headers')
    BY ValuesAreNext
  <2>4. ASSUME headers' = headers PROVE UNCHANGED Message!Multimap!vars
    BY <2>2, <2>3, <2>4 DEF Message!Multimap!vars
  <2>5. ASSUME NEW name \in Key \X Spelling, Message!Delete(name)
        PROVE  Message!Multimap!Next
    <3> DEFINE k == name[1]
    <3>1. headers' = Message!Filter(headers, Message!But(name))
      BY <2>5 DEF Message!Delete
    <3>2. /\ ValuesOf(headers') = [ValuesOf(headers) EXCEPT ![k] = <<>>]
          /\ Len(headers') = Len(headers) - Len(ValuesOf(headers)[k])
      BY <2>1, <3>1, ValuesOfDelete
    <3>3. Message!Multimap!Delete(k)
      BY <2>2, <2>3, <3>2 DEF Message!Multimap!Delete
    <3> QED BY <3>3 DEF Message!Multimap!Next
  <2>6. ASSUME NEW name \in Key \X Spelling, NEW v \in Length, Message!Add(name, v)
        PROVE  Message!Multimap!Next
    <3> DEFINE k == name[1]
    <3>1. k \in Key /\ headers' = Append(headers, EntryOf(k, v))
      BY <2>6 DEF Message!Add, Message!ToLowercase, EntryOf
    <3> HIDE DEF k
    <3>2. ValuesOf(headers') = [ValuesOf(headers) EXCEPT ![k] = Append(@, v)]
      BY <2>1, <3>1, ValuesOfAppend
    <3>5. EntryOf(k, v) \in Entry
      BY <3>1 DEF EntryOf, Entry
    <3>3. Len(headers') = Len(headers) + 1
      BY <2>1, <3>1, <3>5, AppendProperties
    <3>4. Message!Multimap!Add(k, v)
      BY <2>2, <2>3, <3>2, <3>3 DEF Message!Multimap!Add
    <3> QED BY <3>1, <3>4 DEF Message!Multimap!Next, Message!Value, Length
  <2>7. ASSUME NEW n \in Length, NEW type \in Length,
               \/ Message!NewBare(n) \/ Message!NewSized(n) \/ Message!NewTyped(n, type)
        PROVE  Message!Multimap!Next
    BY <2>7, MessageBegins DEF Message!Multimap!Next
  <2> QED BY <2>4, <2>5, <2>6, <2>7
          DEF Message!Next, Message!Value, Message!Name, Length, messageVars, Message!SetBody
<1> QED BY <1>1, <1>2, MessageTyped, MessageStep, PTL
        DEF Spec, ImplementsHeaderMap, Message!ImplementsHeaderMap, Message!Multimap!Spec

\* The objects of the host have their types, and the client's history is what was
\* answered, in order.
THEOREM ObjectsSoundAlways == Spec => []ObjectsSound
<1>1. Init => Message!Init /\ Client!Init /\ Environment!Init
  BY DEF Init
<1>2. ObjectsSound <=> Message!TypeOK /\ ClientSound /\ RouterTypeOK /\ Environment!TypeOK
  BY DEF ObjectsSound, TypeOK, ClientSound
<1>3. RouterSound => RouterTypeOK
  BY DEF RouterSound
<1> QED BY <1>1, <1>2, <1>3, MessageTyped, MessageStep, ClientStarts, ClientSteps, ClientStep,
           EnvironmentTyped, EnvironmentStep, RouterSoundAlways, PTL DEF Spec
=============================================================================
