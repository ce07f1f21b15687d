-------------------------- MODULE ComponentProofs ---------------------------
(***************************************************************************)
(* What holds of src/component.rs for every instance.  Of CanonicalMemory: *)
(* where the build checks overflow, allocations never overlap, and the     *)
(* memory holds what was lowered into it, for memories of every size.  Of  *)
(* ComponentBinary: a walk over the bytes that were built finds the        *)
(* sections that were written, for types, names and modules of every size; *)
(* types and worlds can be read back from the bytes they became.           *)
(***************************************************************************)
EXTENDS CanonicalMemory, ComponentBinary, WellFoundedInduction, SequenceTheorems,
        FiniteSetTheorems, TLAPS

-----------------------------------------------------------------------------
(***************************************************************************)
(* CanonicalMemory.                                                        *)
(***************************************************************************)

Region == [kind : {"string", "bytes", "words", "host"}, ptr : Nat, size : Nat,
           align : {1, 2, 4, 8}, value : Values(Byte) \union Values(Word)]

\* Every allocation lies between the null page and the allocation pointer:
\* that is why the next one cannot overlap it.
Bounded ==
    /\ allocPtr \in Nat /\ allocPtr >= 8
    /\ regions \in Seq(Region)
    /\ \A k \in DOMAIN regions : RegionEnd(regions[k]) <= allocPtr

MemoryInv == Bounded /\ RegionsDisjoint

-----------------------------------------------------------------------------
\* Rounding up to a power of two gives the next multiple, or the number itself.
LEMMA RoundsUp ==
    ASSUME NEW p \in Nat, NEW align \in {1, 2, 4, 8}
    PROVE  LET q == ((p + align - 1) \div align) * align
           IN q \in Nat /\ q >= p /\ q % align = 0
  <1>1. CASE align = 1
    BY <1>1
  <1>2. CASE align = 2
    BY <1>2
  <1>4. CASE align = 4
    BY <1>4
  <1>8. CASE align = 8
    BY <1>8
  <1> QED
    BY <1>1, <1>2, <1>4, <1>8

\* Arithmetic that does not overflow is exact.
LEMMA NotWrapped ==
    ASSUME OverflowChecks, NEW n \in Nat, Fits(n)
    PROVE  Wrapped(n) = n
  BY MemoryAssumption DEF Fits, Wrapped

\* Where overflow panics, alloc returns an aligned address at or past the old
\* pointer and leaves the pointer at the end of what it gave out.
LEMMA AllocEffect ==
    ASSUME OverflowChecks, Bounded,
           NEW ptr, NEW size \in Nat, NEW align \in {1, 2, 4, 8},
           Alloc(ptr, size, align)
    PROVE  /\ ptr \in Nat /\ ptr >= allocPtr /\ ptr % align = 0
           /\ allocPtr' = ptr + size
  <1>1. Wrapped(allocPtr + align - 1) = allocPtr + align - 1
    BY NotWrapped DEF Alloc, Bounded
  <1>2. ptr = ((allocPtr + align - 1) \div align) * align
    BY <1>1 DEF Alloc, AlignUp
  <1>3. ptr \in Nat /\ ptr >= allocPtr /\ ptr % align = 0
    BY <1>2, RoundsUp DEF Bounded
  <1>4. Wrapped(ptr + size) = ptr + size
    BY <1>3, NotWrapped DEF Alloc
  <1> QED
    BY <1>3, <1>4 DEF Alloc

\* An allocation recorded where alloc placed it keeps the invariant.
LEMMA AllocatedKeeps ==
    ASSUME OverflowChecks, MemoryInv,
           NEW kind \in {"string", "bytes", "words", "host"},
           NEW ptr, NEW size \in Nat, NEW align \in {1, 2, 4, 8},
           NEW value \in Values(Byte) \union Values(Word),
           Alloc(ptr, size, align), Allocated(kind, ptr, size, align, value)
    PROVE  MemoryInv'
  <1> DEFINE r == [kind |-> kind, ptr |-> ptr, size |-> size, align |-> align, value |-> value]
  <1>1. /\ ptr \in Nat /\ ptr >= allocPtr /\ ptr % align = 0
        /\ allocPtr' = ptr + size
    BY AllocEffect DEF MemoryInv
  <1>2. r \in Region /\ regions' = Append(regions, r)
    BY <1>1 DEF Region, Allocated
  <1>3. /\ regions' \in Seq(Region)
        /\ DOMAIN regions' = 1 .. Len(regions) + 1
        /\ DOMAIN regions = 1 .. Len(regions)
        /\ Len(regions) \in Nat
        /\ regions'[Len(regions) + 1] = r
        /\ \A k \in 1 .. Len(regions) : regions'[k] = regions[k]
    BY <1>2 DEF MemoryInv, Bounded
  <1>4. allocPtr \in Nat /\ allocPtr >= 8
    BY DEF MemoryInv, Bounded
  <1>5. ASSUME NEW k \in 1 .. Len(regions)
        PROVE  /\ regions[k].ptr \in Nat /\ regions[k].size \in Nat
               /\ regions[k].ptr + regions[k].size <= allocPtr
               /\ regions[k].ptr >= 8 /\ regions[k].ptr % regions[k].align = 0
    <2>1. regions[k] \in Region
      BY <1>3 DEF MemoryInv, Bounded
    <2>2. regions[k].ptr + regions[k].size <= allocPtr
      BY <1>3 DEF MemoryInv, Bounded, RegionEnd
    <2>3. regions[k].ptr >= 8 /\ regions[k].ptr % regions[k].align = 0
      BY <1>3 DEF MemoryInv, RegionsDisjoint
    <2> QED
      BY <2>1, <2>2, <2>3 DEF Region
  <1>6. r.ptr = ptr /\ r.size = size /\ r.align = align
    OBVIOUS
  <1> HIDE DEF r
  <1>7. Bounded'
    <2>1. allocPtr' \in Nat /\ allocPtr' >= 8
      BY <1>1, <1>4
    <2>2. ASSUME NEW k \in 1 .. Len(regions) + 1
          PROVE  regions'[k].ptr + regions'[k].size <= allocPtr'
      <3>1. CASE k = Len(regions) + 1
        BY <1>1, <1>3, <1>6, <3>1
      <3>2. CASE k \in 1 .. Len(regions)
        BY <1>1, <1>3, <1>4, <1>5, <3>2
      <3> QED
        BY <1>3, <3>1, <3>2
    <2> QED
      BY <1>3, <2>1, <2>2 DEF Bounded, RegionEnd
  <1>8. RegionsDisjoint'
    <2>1. ASSUME NEW k \in 1 .. Len(regions) + 1
          PROVE  regions'[k].ptr >= 8 /\ regions'[k].ptr % regions'[k].align = 0
      <3>1. CASE k = Len(regions) + 1
        BY <1>1, <1>3, <1>4, <1>6, <3>1
      <3>2. CASE k \in 1 .. Len(regions)
        BY <1>3, <1>5, <3>2
      <3> QED
        BY <1>3, <3>1, <3>2
    <2>2. ASSUME NEW j \in 1 .. Len(regions) + 1, NEW k \in 1 .. Len(regions) + 1, j < k
          PROVE  regions'[j].ptr + regions'[j].size <= regions'[k].ptr
      <3>1. j \in 1 .. Len(regions)
        BY <1>3, <2>2
      <3>2. CASE k = Len(regions) + 1
        BY <1>1, <1>3, <1>4, <1>5, <1>6, <3>1, <3>2
      <3>3. CASE k \in 1 .. Len(regions)
        BY <1>3, <2>2, <3>1, <3>3 DEF MemoryInv, RegionsDisjoint, RegionEnd
      <3> QED
        BY <1>3, <3>2, <3>3
    <2> QED
      BY <1>3, <2>1, <2>2 DEF RegionsDisjoint, RegionEnd
  <1> QED
    BY <1>7, <1>8 DEF MemoryInv

LEMMA MemoryNext ==
    ASSUME OverflowChecks, MemoryInv, [Next]_vars
    PROVE  MemoryInv'
  <1>1. ASSUME NEW ptr \in 0 .. Limit, NEW kind \in {"string", "bytes"},
               NEW written \in Values(Byte), LowerBytes(kind, ptr, written)
        PROVE  MemoryInv'
    <2>1. Cut(Len(written)) \in Nat
      BY MemoryAssumption DEF Values, Cut
    <2> QED
      BY <1>1, <2>1, AllocatedKeeps DEF LowerBytes
  <1>2. ASSUME NEW ptr \in 0 .. Limit, NEW words \in Values(Word), LowerWords(ptr, words)
        PROVE  MemoryInv'
    <2>1. Cut(4 * Len(words)) \in Nat
      BY MemoryAssumption DEF Values, Cut
    <2> QED
      BY <1>2, <2>1, AllocatedKeeps DEF LowerWords
  <1>3. ASSUME NEW ptr \in 0 .. Limit, NEW size \in 0 .. MaxLength, NEW align \in Align,
               Realloc(ptr, size, align)
        PROVE  MemoryInv'
    <2>1. size \in Nat /\ align \in {1, 2, 4, 8}
      BY MemoryAssumption
    <2>2. <<>> \in Values(Byte)
      BY MemoryAssumption DEF Values
    <2> QED
      BY <1>3, <2>1, <2>2, AllocatedKeeps DEF Realloc
  <1>4. ASSUME NEW k \in DOMAIN regions, NEW written \in Values(Byte), Fill(k, written)
        PROVE  MemoryInv'
    <2>1. /\ regions' = [regions EXCEPT ![k] = [regions[k] EXCEPT !.value = written]]
          /\ allocPtr' = allocPtr
      BY <1>4 DEF Fill
    <2>2. regions \in Seq(Region) /\ regions[k] \in Region
      BY DEF MemoryInv, Bounded
    <2>4. [regions[k] EXCEPT !.value = written] \in Region
      BY <2>2 DEF Region
    <2>3. /\ regions' \in Seq(Region)
          /\ DOMAIN regions' = DOMAIN regions
          /\ \A j \in DOMAIN regions : /\ regions'[j].ptr = regions[j].ptr
                                       /\ regions'[j].size = regions[j].size
                                       /\ regions'[j].align = regions[j].align
      <3>1. regions' \in Seq(Region) /\ DOMAIN regions' = DOMAIN regions
        BY <2>1, <2>2, <2>4
      <3>2. ASSUME NEW j \in DOMAIN regions
            PROVE  /\ regions'[j].ptr = regions[j].ptr
                   /\ regions'[j].size = regions[j].size
                   /\ regions'[j].align = regions[j].align
        BY <2>1, <2>2 DEF Region
      <3> QED
        BY <3>1, <3>2
    <2> QED
      BY <2>1, <2>3 DEF MemoryInv, Bounded, RegionsDisjoint, RegionEnd
  <1>5. CASE UNCHANGED vars
    BY <1>5 DEF vars, MemoryInv, Bounded, RegionsDisjoint, RegionEnd
  <1> QED
    BY <1>1, <1>2, <1>3, <1>4, <1>5 DEF Next

\* In a build that checks overflow, no two allocations of LinearMemory overlap,
\* whatever the memory's size, the values lowered and the alignments asked for.
THEOREM RegionsDisjointAlways ==
    ASSUME OverflowChecks
    PROVE  Spec => []RegionsDisjoint
  <1>1. Init => MemoryInv
    BY DEF Init, Start, MemoryInv, Bounded, RegionsDisjoint, RegionEnd
  <1>2. MemoryInv /\ [Next]_vars => MemoryInv'
    BY MemoryNext
  <1>3. MemoryInv => RegionsDisjoint
    BY DEF MemoryInv
  <1> QED
    BY <1>1, <1>2, <1>3, PTL DEF Spec

-----------------------------------------------------------------------------
(***************************************************************************)
(* Writing into memory.                                                    *)
(***************************************************************************)

Octet == 0 .. 255
Memory == [Address -> Octet]

Below == {ij \in Nat \X Nat : ij[1] < ij[2]}

\* Induction over a set of numbers.
LEMMA NatSetInduction ==
    ASSUME NEW P \in SUBSET Nat, 0 \in P, \A n \in P : n + 1 \in P
    PROVE  P = Nat
<1> SUFFICES ASSUME Nat \ P # {} PROVE FALSE
  OBVIOUS
<1>1. IsWellFoundedOn(Below, Nat)
  BY NatLessThanWellFounded DEF Below, OpToRel
<1>2. PICK i \in Nat \ P : \A j \in Nat \ P : ~ (<<j, i>> \in Below)
  BY <1>1, WFMin, Zenon
<1>3. i # 0 /\ i - 1 \in Nat /\ i - 1 \notin P
  BY <1>2
<1>4. <<i - 1, i>> \in Below
  BY <1>2, <1>3 DEF Below
<1> QED BY <1>2, <1>3, <1>4

LEMMA WrittenIs ==
    ASSUME NEW d \in Memory, NEW offset \in Nat, NEW written \in Seq(Octet)
    PROVE  /\ Written(d, offset, written) \in Memory
           /\ \A a \in Address : a \notin offset .. offset + Len(written) - 1 =>
                  Written(d, offset, written)[a] = d[a]
           /\ offset + Len(written) <= Capacity =>
                  \A i \in 1 .. Len(written) : Written(d, offset, written)[offset + i - 1] = written[i]
<1>1. DOMAIN d = Address /\ \A a \in Address : d[a] \in Octet
  BY DEF Memory
<1>2. Len(written) \in Nat /\ \A i \in 1 .. Len(written) : written[i] \in Octet
  BY LenProperties
<1>3. Capacity \in Nat
  BY MemoryAssumption
<1>4. CASE offset + Len(written) <= Capacity
  <2> DEFINE w == [a \in Address |->
                      IF a \in offset .. offset + Len(written) - 1 THEN written[a - offset + 1] ELSE d[a]]
  <2>1. Written(d, offset, written) = w
    BY <1>1, <1>4 DEF Written
  <2>2. ASSUME NEW a \in Address PROVE w[a] \in Octet
    <3>1. CASE a \in offset .. offset + Len(written) - 1
      <4>1. a - offset + 1 \in 1 .. Len(written)
        BY <1>2, <3>1
      <4> QED BY <1>2, <3>1, <4>1
    <3>2. CASE a \notin offset .. offset + Len(written) - 1
      BY <1>1, <3>2
    <3> QED BY <3>1, <3>2
  <2>3. w \in Memory
    BY <2>2 DEF Memory
  <2>4. \A a \in Address : a \notin offset .. offset + Len(written) - 1 => w[a] = d[a]
    OBVIOUS
  <2>5. ASSUME NEW i \in 1 .. Len(written) PROVE w[offset + i - 1] = written[i]
    <3>1. /\ offset + i - 1 \in Address
          /\ offset + i - 1 \in offset .. offset + Len(written) - 1
          /\ offset + i - 1 - offset + 1 = i
      BY <1>2, <1>3, <1>4 DEF Address
    <3> QED BY <3>1
  <2> HIDE DEF w
  <2> QED BY <2>1, <2>3, <2>4, <2>5
<1>5. CASE ~ (offset + Len(written) <= Capacity)
  BY <1>5 DEF Written
<1> QED BY <1>4, <1>5

\* The four written of a word are the word again.
LEMMA ToBytesIs ==
    ASSUME NEW w \in Word
    PROVE  ToBytes(w) \in Seq(Octet) /\ Len(ToBytes(w)) = 4 /\ FromBytes(ToBytes(w)) = w
<1> DEFINE b1 == w % 256
           b2 == (w \div 256) % 256
           b3 == (w \div 65536) % 256
           b4 == (w \div 16777216) % 256
<1>1. w \in Nat /\ w \div 16777216 < 256
  BY ValueAssumption, SMT
<1>2. b1 \in Octet /\ b2 \in Octet /\ b3 \in Octet /\ b4 \in Octet
  BY <1>1, SMT DEF Octet
<1>3. b1 + 256 * b2 + 65536 * b3 + 16777216 * b4 = w
  <2>1. w = 256 * (w \div 256) + b1
    BY <1>1, SMT
  <2>2. w \div 256 = 256 * (w \div 65536) + b2
    BY <1>1, SMT
  <2>3. w \div 65536 = 256 * (w \div 16777216) + b3
    BY <1>1, SMT
  <2>4. w \div 16777216 = b4
    BY <1>1, SMT
  <2>5. w \div 256 \in Int /\ w \div 65536 \in Int /\ w \div 16777216 \in Int
    BY <1>1, SMT
  <2> HIDE DEF b1, b2, b3, b4
  <2> QED BY <1>1, <1>2, <2>1, <2>2, <2>3, <2>4, <2>5, SMT DEF Octet
<1>4. ToBytes(w) = <<b1, b2, b3, b4>>
  BY SMT DEF ToBytes
<1> HIDE DEF b1, b2, b3, b4
<1> QED BY <1>2, <1>3, <1>4, SMT DEF FromBytes

\* The memory after the first k words of a list are written, for each k.
After(d, ptr, words, n, f) ==
    f = [k \in 0 .. n |-> IF k = 0 THEN d
                          ELSE Written(f[k - 1], ptr + 4 * (k - 1), ToBytes(words[k]))]

WordByWord(d, ptr, words, n, f) ==
    /\ f[0] = d
    /\ \A k \in 1 .. n : f[k] = Written(f[k - 1], ptr + 4 * (k - 1), ToBytes(words[k]))

LEMMA AfterEquations ==
    ASSUME NEW d, NEW ptr, NEW words, NEW n \in Nat, NEW f, After(d, ptr, words, n, f)
    PROVE  WordByWord(d, ptr, words, n, f)
<1> DEFINE h == [k \in 0 .. n |-> IF k = 0 THEN d
                                  ELSE Written(f[k - 1], ptr + 4 * (k - 1), ToBytes(words[k]))]
<1>1. f = h
  BY DEF After
<1>2. /\ h[0] = d
      /\ \A k \in 1 .. n : h[k] = Written(f[k - 1], ptr + 4 * (k - 1), ToBytes(words[k]))
  OBVIOUS
<1> HIDE DEF h
<1>3. f[0] = h[0] /\ \A k \in 1 .. n : f[k] = h[k]
  BY <1>1
<1> QED BY <1>2, <1>3 DEF WordByWord

LEMMA AfterExists ==
    ASSUME NEW d, NEW ptr, NEW words, NEW n \in Nat
    PROVE  \E f : After(d, ptr, words, n, f)
<1> DEFINE N == {m \in Nat : \E f : After(d, ptr, words, m, f)}
<1>1. 0 \in N
  <2>1. After(d, ptr, words, 0, [k \in 0 .. 0 |-> d])
    BY DEF After
  <2> QED BY <2>1
<1>2. ASSUME NEW m \in N PROVE m + 1 \in N
  <2>1. m \in Nat /\ \E f : After(d, ptr, words, m, f)
    OBVIOUS
  <2>2. PICK f : After(d, ptr, words, m, f)
    BY <2>1
  <2>3. /\ f[0] = d
        /\ \A k \in 1 .. m : f[k] = Written(f[k - 1], ptr + 4 * (k - 1), ToBytes(words[k]))
    <3>1. WordByWord(d, ptr, words, m, f)
      BY ONLY <2>1, <2>2, AfterEquations
    <3> QED BY ONLY <3>1 DEF WordByWord
  <2> DEFINE last == Written(f[m], ptr + 4 * m, ToBytes(words[m + 1]))
             g == [k \in 0 .. m + 1 |-> IF k <= m THEN f[k] ELSE last]
             h == [k \in 0 .. m + 1 |->
                      IF k = 0 THEN d
                      ELSE Written(g[k - 1], ptr + 4 * (k - 1), ToBytes(words[k]))]
  <2>4. (\A k \in 0 .. m : g[k] = f[k]) /\ g[m + 1] = last
    BY <2>1
  <2>5. ASSUME NEW k \in 0 .. m + 1 PROVE g[k] = h[k]
    <3> HIDE DEF g
    <3>1. CASE k = 0
      BY <2>1, <2>3, <2>4, <3>1
    <3>2. CASE k \in 1 .. m
      <4>1. g[k] = f[k] /\ g[k - 1] = f[k - 1]
        BY <2>1, <2>4, <3>2
      <4> QED BY <2>3, <3>2, <4>1
    <3>3. CASE k = m + 1
      <4>1. k - 1 = m /\ g[k - 1] = f[m] /\ k # 0
        BY <2>1, <2>4, <3>3
      <4>2. h[k] = Written(g[k - 1], ptr + 4 * (k - 1), ToBytes(words[k]))
        BY <4>1
      <4> QED BY <2>4, <3>3, <4>1, <4>2
    <3> QED BY <2>1, <3>1, <3>2, <3>3
  <2>6. g = h
    BY <2>5
  <2>7. After(d, ptr, words, m + 1, g)
    BY <2>6 DEF After
  <2> QED BY <2>1, <2>7
<1>3. N = Nat
  BY <1>1, <1>2, NatSetInduction
<1> QED BY <1>3

\* Writing the words of a list, one by one, changes only their written, and leaves
\* there those of every word that fits.
LEMMA WordsWrittenIs ==
    ASSUME data \in Memory, NEW ptr \in Nat, NEW words \in Seq(Word)
    PROVE  /\ WordsWritten(ptr, words) \in Memory
           /\ \A a \in Address : a \notin ptr .. ptr + 4 * Len(words) - 1 =>
                  WordsWritten(ptr, words)[a] = data[a]
           /\ \A j \in 1 .. Len(words), b \in 1 .. 4 : ptr + 4 * j <= Capacity =>
                  WordsWritten(ptr, words)[ptr + 4 * (j - 1) + b - 1] = ToBytes(words[j])[b]
<1> DEFINE n == Len(words)
<1>1. n \in Nat /\ \A k \in 1 .. n : words[k] \in Word
  BY LenProperties
<1> HIDE DEF n
<1>2. PICK d : d = data
  OBVIOUS
<1>3. PICK f : After(d, ptr, words, n, f) /\ WordsWritten(ptr, words) = f[n]
  <2>1. \E f : After(d, ptr, words, n, f)
    BY <1>1, AfterExists
  <2> QED BY <1>2, <2>1 DEF After, WordsWritten, n
<1>4. /\ f[0] = d
      /\ \A k \in 1 .. n : f[k] = Written(f[k - 1], ptr + 4 * (k - 1), ToBytes(words[k]))
  <2>1. n \in Nat
    BY <1>1
  <2>2. After(d, ptr, words, n, f)
    BY <1>3
  <2>3. WordByWord(d, ptr, words, n, f)
    BY ONLY <2>1, <2>2, AfterEquations
  <2> QED BY ONLY <2>3 DEF WordByWord
<1>5. Capacity \in Nat
  BY MemoryAssumption
<1> DEFINE Done(m) ==
        /\ f[m] \in Memory
        /\ \A a \in Address : a \notin ptr .. ptr + 4 * m - 1 => f[m][a] = d[a]
        /\ \A j \in 1 .. m, b \in 1 .. 4 : ptr + 4 * j <= Capacity =>
               f[m][ptr + 4 * (j - 1) + b - 1] = ToBytes(words[j])[b]
    N == {m \in Nat : m <= n => Done(m)}
<1>6. 0 \in N
  BY <1>2, <1>4
<1>7. ASSUME NEW m \in N PROVE m + 1 \in N
  <2> SUFFICES ASSUME m + 1 <= n PROVE Done(m + 1)
    OBVIOUS
  <2>1. m \in Nat /\ Done(m) /\ m + 1 \in 1 .. n
    BY <1>1
  <2> DEFINE written == ToBytes(words[m + 1])
             offset == ptr + 4 * m
             w == Written(f[m], offset, written)
  <2>2. f[m + 1] = w
    BY <1>4, <2>1
  <2>3. written \in Seq(Octet) /\ Len(written) = 4
    BY <1>1, <2>1, ToBytesIs
  <2>4. offset \in Nat
    BY <2>1
  <2>5. /\ w \in Memory
        /\ \A a \in Address : a \notin offset .. offset + 3 => w[a] = f[m][a]
        /\ offset + 4 <= Capacity => \A i \in 1 .. 4 : w[offset + i - 1] = written[i]
    <3> HIDE DEF written, offset, Done
    <3>1. /\ w \in Memory
          /\ \A a \in Address : a \notin offset .. offset + Len(written) - 1 => w[a] = f[m][a]
          /\ offset + Len(written) <= Capacity =>
                 \A i \in 1 .. Len(written) : w[offset + i - 1] = written[i]
      <4>1. f[m] \in Memory
        BY <2>1 DEF Done
      <4> QED BY ONLY <4>1, <2>3, <2>4, WrittenIs
    <3> HIDE DEF w
    <3> QED BY <2>3, <2>4, <3>1
  <2> HIDE DEF w
  <2>6. \A a \in Address : a \notin ptr .. ptr + 4 * (m + 1) - 1 => w[a] = d[a]
    <3> SUFFICES ASSUME NEW a \in Address, a \notin ptr .. ptr + 4 * (m + 1) - 1
                 PROVE  w[a] = d[a]
      OBVIOUS
    <3>1. a \notin offset .. offset + 3 /\ a \notin ptr .. ptr + 4 * m - 1
      BY <1>5, <2>1 DEF Address
    <3> QED BY <2>1, <2>5, <3>1
  <2>7. ASSUME NEW j \in 1 .. m + 1, NEW b \in 1 .. 4, ptr + 4 * j <= Capacity
        PROVE  w[ptr + 4 * (j - 1) + b - 1] = ToBytes(words[j])[b]
    <3>1. CASE j = m + 1
      <4>1. ptr + 4 * (j - 1) + b - 1 = offset + b - 1 /\ offset + 4 <= Capacity
        BY <2>1, <2>7, <3>1
      <4> QED BY <2>5, <3>1, <4>1
    <3>2. CASE j \in 1 .. m
      <4> DEFINE a == ptr + 4 * (j - 1) + b - 1
      <4>1. a \in Address /\ a \notin offset .. offset + 3
        BY <1>5, <2>1, <2>7, <3>2 DEF Address
      <4>2. f[m][a] = ToBytes(words[j])[b]
        BY <2>1, <2>7, <3>2
      <4> HIDE DEF a, offset, written, Done
      <4>3. w[a] = ToBytes(words[j])[b]
        BY <2>5, <4>1, <4>2
      <4> QED BY <4>3 DEF a
    <3> QED BY <2>1, <3>1, <3>2
  <2> QED BY <2>2, <2>5, <2>6, <2>7
<1>8. N = Nat
  <2> HIDE DEF Done
  <2> QED BY <1>6, <1>7, NatSetInduction
<1>9. Done(n)
  BY <1>1, <1>8
<1> QED BY <1>2, <1>3, <1>9 DEF n

-----------------------------------------------------------------------------
(***************************************************************************)
(* What the memory holds.                                                  *)
(***************************************************************************)

\* Memory d has, where r lies, what was lowered there: every byte of a value
\* that fits, and the written of each word that does.
BytesAt(d, r) ==
    r.kind # "words" /\ Len(r.value) = r.size /\ RegionEnd(r) <= Capacity =>
        \A i \in 1 .. r.size : d[r.ptr + i - 1] = r.value[i]

WordsAt(d, r) ==
    r.kind = "words" =>
        \A j \in 1 .. Len(r.value), b \in 1 .. 4 : r.ptr + 4 * j <= Capacity =>
            d[r.ptr + 4 * (j - 1) + b - 1] = ToBytes(r.value[j])[b]

\* The value a region records has the region's size.
Shaped(r) ==
    /\ r.kind # "words" => r.value \in Seq(Byte)
    /\ r.kind \in {"string", "bytes"} => Len(r.value) = r.size
    /\ r.kind = "words" => r.value \in Seq(Word) /\ r.size = 4 * Len(r.value)

HoldsAt(d, r) == BytesAt(d, r) /\ WordsAt(d, r)

\* d and e differ only at the n addresses from p on.
WritesOnly(d, e, p, n) == \A a \in Address : a \notin p .. p + n - 1 => e[a] = d[a]

HoldsInv ==
    /\ MemoryInv
    /\ data \in Memory
    /\ allocPtr < Limit
    /\ \A k \in DOMAIN regions :
           regions[k].ptr < Limit /\ Shaped(regions[k]) /\ HoldsAt(data, regions[k])
    /\ UnallocatedClear

\* A write elsewhere leaves a region's value in place.
LEMMA HoldsKept ==
    ASSUME NEW d, NEW e, NEW r \in Region, NEW p \in Nat, NEW n \in Nat,
           WritesOnly(d, e, p, n), RegionEnd(r) <= p \/ p + n <= r.ptr,
           Shaped(r), HoldsAt(d, r)
    PROVE  HoldsAt(e, r)
<1>1. r.ptr \in Nat /\ r.size \in Nat /\ Capacity \in Nat
  BY MemoryAssumption DEF Region
<1>2. BytesAt(e, r)
  <2> SUFFICES ASSUME r.kind # "words", Len(r.value) = r.size, RegionEnd(r) <= Capacity,
                      NEW i \in 1 .. r.size
               PROVE  e[r.ptr + i - 1] = r.value[i]
    BY DEF BytesAt
  <2>1. d[r.ptr + i - 1] = r.value[i]
    BY DEF HoldsAt, BytesAt
  <2> DEFINE a == r.ptr + i - 1
  <2>2. a \in Nat /\ a >= r.ptr /\ a < r.ptr + r.size
    BY ONLY <1>1
  <2> HIDE DEF a
  <2>3. a \in Address
    BY <1>1, <2>2 DEF Address, RegionEnd
  <2>4. a \notin p .. p + n - 1
    BY <1>1, <2>2 DEF RegionEnd
  <2> QED BY <2>1, <2>3, <2>4 DEF WritesOnly, a
<1>3. WordsAt(e, r)
  <2> SUFFICES ASSUME r.kind = "words", NEW j \in 1 .. Len(r.value), NEW b \in 1 .. 4,
                      r.ptr + 4 * j <= Capacity
               PROVE  e[r.ptr + 4 * (j - 1) + b - 1] = ToBytes(r.value[j])[b]
    BY DEF WordsAt
  <2> DEFINE a == r.ptr + 4 * (j - 1) + b - 1
  <2>1. d[a] = ToBytes(r.value[j])[b]
    BY DEF HoldsAt, WordsAt
  <2>2. r.size = 4 * Len(r.value) /\ Len(r.value) \in Nat
    BY LenProperties DEF Shaped
  <2>3. a \in Nat /\ a >= r.ptr /\ a < r.ptr + 4 * j /\ 4 * j <= r.size
    <3>1. j \in Nat /\ j >= 1 /\ j <= Len(r.value) /\ b \in Nat /\ b >= 1 /\ b <= 4
      BY <2>2
    <3>2. 4 * j <= r.size
      BY <2>2, <3>1
    <3> QED BY ONLY <1>1, <3>1, <3>2
  <2>4. a < Capacity /\ a < RegionEnd(r) /\ RegionEnd(r) \in Nat
    <3> HIDE DEF a
    <3> QED BY <1>1, <2>3 DEF RegionEnd
  <2>5. a \in Address
    <3> HIDE DEF a
    <3> QED BY <1>1, <2>3, <2>4 DEF Address
  <2>6. a \notin p .. p + n - 1
    <3> HIDE DEF a
    <3> QED BY <1>1, <2>3, <2>4
  <2> QED BY <2>1, <2>5, <2>6 DEF WritesOnly
<1> QED BY <1>2, <1>3 DEF HoldsAt

LEMMA ValuesAreSequences ==
    ASSUME NEW S, NEW value \in Values(S)
    PROVE  value \in Seq(S) /\ Len(value) \in Nat /\ Len(value) <= MaxLength
  BY MemoryAssumption DEF Values

\* A length below 2^32 is not cut.
LEMMA NotCut ==
    ASSUME NEW n \in Nat, n < Limit
    PROVE  Cut(n) = n
  BY MemoryAssumption DEF Cut

\* Lowering a value, or giving the host space, keeps the invariant when the
\* memory changes only where the new region is, and holds the value there.
LEMMA NewRegionHolds ==
    ASSUME OverflowChecks, HoldsInv,
           NEW kind \in {"string", "bytes", "words", "host"},
           NEW ptr, NEW size \in Nat, NEW align \in {1, 2, 4, 8},
           NEW value \in Values(Byte) \union Values(Word),
           Alloc(ptr, size, align), Allocated(kind, ptr, size, align, value),
           data' \in Memory, WritesOnly(data, data', ptr, size),
           Shaped([kind |-> kind, ptr |-> ptr, size |-> size, align |-> align, value |-> value]),
           HoldsAt(data', [kind |-> kind, ptr |-> ptr, size |-> size, align |-> align,
                           value |-> value])
    PROVE  HoldsInv'
<1> DEFINE r == [kind |-> kind, ptr |-> ptr, size |-> size, align |-> align, value |-> value]
<1>1. MemoryInv'
  BY AllocatedKeeps DEF HoldsInv
<1>2. /\ ptr \in Nat /\ ptr >= allocPtr /\ allocPtr' = ptr + size
  BY AllocEffect DEF HoldsInv, MemoryInv
<1>3. ptr + size < Limit /\ allocPtr' < Limit /\ Limit \in Nat
  BY <1>2, MemoryAssumption DEF Alloc, Fits
<1>4. r \in Region /\ regions' = Append(regions, r)
  BY <1>2 DEF Region, Allocated
<1>5. /\ DOMAIN regions' = 1 .. Len(regions) + 1
      /\ DOMAIN regions = 1 .. Len(regions)
      /\ Len(regions) \in Nat
      /\ regions'[Len(regions) + 1] = r
      /\ \A k \in 1 .. Len(regions) : regions'[k] = regions[k]
  BY <1>4 DEF HoldsInv, MemoryInv, Bounded
<1>6. r.ptr = ptr /\ r.size = size /\ Shaped(r) /\ HoldsAt(data', r)
  OBVIOUS
<1> HIDE DEF r
<1>7. ASSUME NEW k \in 1 .. Len(regions)
      PROVE  /\ regions[k] \in Region /\ RegionEnd(regions[k]) <= ptr
             /\ regions[k].ptr < Limit /\ Shaped(regions[k]) /\ HoldsAt(data, regions[k])
  <2>1. regions[k] \in Region /\ RegionEnd(regions[k]) <= allocPtr /\ allocPtr \in Nat
    BY <1>5 DEF HoldsInv, MemoryInv, Bounded
  <2>2. RegionEnd(regions[k]) \in Nat
    BY <2>1 DEF Region, RegionEnd
  <2>3. RegionEnd(regions[k]) <= ptr
    BY <1>2, <2>1, <2>2
  <2> QED BY <1>5, <2>1, <2>3 DEF HoldsInv
<1>8. ASSUME NEW k \in DOMAIN regions'
      PROVE  regions'[k].ptr < Limit /\ Shaped(regions'[k]) /\ HoldsAt(data', regions'[k])
  <2>1. CASE k = Len(regions) + 1
    <3>1. ptr < Limit
      BY <1>2, <1>3
    <3> QED BY <1>5, <1>6, <2>1, <3>1
  <2>2. CASE k \in 1 .. Len(regions)
    <3>1. PICK q \in Region : q = regions[k]
      BY <1>7, <2>2
    <3>2. HoldsAt(data', q)
      BY <1>2, <1>7, <2>2, <3>1, HoldsKept
    <3> QED BY <1>5, <1>7, <2>2, <3>1, <3>2
  <2> QED BY <1>5, <2>1, <2>2
<1>9. UnallocatedClear'
  <2> SUFFICES ASSUME NEW a \in Address,
                      \A k \in DOMAIN regions' :
                          a \notin regions'[k].ptr .. RegionEnd(regions'[k]) - 1
               PROVE  data'[a] = 0
    BY DEF UnallocatedClear, RegionEnd
  <2>1. a \notin ptr .. ptr + size - 1
    <3>1. a \notin r.ptr .. RegionEnd(r) - 1
      BY <1>5
    <3>2. r.ptr = ptr /\ RegionEnd(r) = ptr + size
      BY <1>6 DEF RegionEnd
    <3>3. a \in Int /\ r.ptr \in Nat /\ RegionEnd(r) \in Nat /\ ptr \in Nat
      BY <1>2, <3>2, MemoryAssumption DEF Address
    <3>4. ~ (r.ptr <= a /\ a <= RegionEnd(r) - 1)
      BY <3>1, <3>3
    <3> QED BY <3>2, <3>3, <3>4
  <2>2. \A k \in DOMAIN regions : a \notin regions[k].ptr .. RegionEnd(regions[k]) - 1
    BY <1>5
  <2>3. data[a] = 0
    BY <2>2 DEF HoldsInv, UnallocatedClear
  <2> QED BY <2>1, <2>3 DEF WritesOnly
<1>10. (data \in Memory)' /\ (allocPtr < Limit)'
  BY <1>3 DEF Memory, Address
<1> QED BY <1>1, <1>8, <1>9, <1>10 DEF HoldsInv

LEMMA LowerBytesHolds ==
    ASSUME OverflowChecks, 4 * MaxLength < Limit, HoldsInv,
           NEW kind \in {"string", "bytes"}, NEW ptr \in 0 .. Limit,
           NEW written \in Values(Byte), LowerBytes(kind, ptr, written)
    PROVE  HoldsInv'
<1>1. written \in Seq(Byte) /\ written \in Seq(Octet) /\ Len(written) \in Nat
  <2>1. written \in Seq(Byte) /\ Len(written) \in Nat
    BY ValuesAreSequences
  <2>2. Byte \subseteq Octet
    BY ValueAssumption DEF Octet
  <2> QED BY <2>1, <2>2
<1>2. ptr \in Nat
  BY MemoryAssumption
<1>3. data' = Written(data, ptr, written)
  BY DEF LowerBytes
<1>4. PICK d \in Memory : d = data
  BY DEF HoldsInv
<1>5. /\ Written(d, ptr, written) \in Memory
      /\ \A a \in Address : a \notin ptr .. ptr + Len(written) - 1 =>
             Written(d, ptr, written)[a] = d[a]
      /\ ptr + Len(written) <= Capacity =>
             \A i \in 1 .. Len(written) : Written(d, ptr, written)[ptr + i - 1] = written[i]
  BY <1>1, <1>2, WrittenIs
<1> DEFINE r == [kind |-> kind, ptr |-> ptr, size |-> Len(written), align |-> 1, value |-> written]
<1>6. r.kind = kind /\ r.ptr = ptr /\ r.size = Len(written) /\ r.value = written
  OBVIOUS
<1>7. data' \in Memory /\ WritesOnly(data, data', ptr, Len(written))
  BY <1>3, <1>4, <1>5 DEF WritesOnly
<1>8. Alloc(ptr, Len(written), 1) /\ Allocated(kind, ptr, Len(written), 1, written)
  <2>1. Len(written) < Limit
    BY ValuesAreSequences, MemoryAssumption
  <2>2. Cut(Len(written)) = Len(written)
    BY <1>1, <2>1, NotCut
  <2> QED BY <2>2 DEF LowerBytes
<1> HIDE DEF r
<1>9. Shaped(r)
  BY <1>1, <1>6 DEF Shaped
<1>10. HoldsAt(data', r)
  BY <1>3, <1>4, <1>5, <1>6 DEF HoldsAt, BytesAt, WordsAt, RegionEnd
<1> QED BY <1>1, <1>7, <1>8, <1>9, <1>10, NewRegionHolds DEF r

LEMMA LowerWordsHolds ==
    ASSUME OverflowChecks, 4 * MaxLength < Limit, HoldsInv, NEW ptr \in 0 .. Limit,
           NEW words \in Values(Word), LowerWords(ptr, words)
    PROVE  HoldsInv'
<1>1. words \in Seq(Word) /\ Len(words) \in Nat
  BY ValuesAreSequences
<1>2. ptr \in Nat
  BY MemoryAssumption
<1>3. data \in Memory
  BY DEF HoldsInv
<1>4. data' = WordsWritten(ptr, words)
  BY DEF LowerWords
<1>5. /\ WordsWritten(ptr, words) \in Memory
      /\ \A a \in Address : a \notin ptr .. ptr + 4 * Len(words) - 1 =>
             WordsWritten(ptr, words)[a] = data[a]
      /\ \A j \in 1 .. Len(words), b \in 1 .. 4 : ptr + 4 * j <= Capacity =>
             WordsWritten(ptr, words)[ptr + 4 * (j - 1) + b - 1] = ToBytes(words[j])[b]
  BY <1>1, <1>2, <1>3, WordsWrittenIs
<1> DEFINE r == [kind |-> "words", ptr |-> ptr, size |-> 4 * Len(words), align |-> 4,
                 value |-> words]
<1>6. r.kind = "words" /\ r.ptr = ptr /\ r.size = 4 * Len(words) /\ r.value = words
  OBVIOUS
<1>7. data' \in Memory /\ WritesOnly(data, data', ptr, 4 * Len(words))
  BY <1>4, <1>5 DEF WritesOnly
<1>8. /\ Alloc(ptr, 4 * Len(words), 4) /\ Allocated("words", ptr, 4 * Len(words), 4, words)
      /\ 4 * Len(words) \in Nat
  <2>1. 4 * Len(words) < Limit /\ 4 * Len(words) \in Nat
    BY ValuesAreSequences, MemoryAssumption
  <2>2. Cut(4 * Len(words)) = 4 * Len(words)
    BY <2>1, NotCut
  <2> QED BY <2>1, <2>2 DEF LowerWords
<1> HIDE DEF r
<1>9. Shaped(r)
  BY <1>1, <1>6 DEF Shaped
<1>10. HoldsAt(data', r)
  BY <1>4, <1>5, <1>6 DEF HoldsAt, BytesAt, WordsAt
<1> QED BY <1>7, <1>8, <1>9, <1>10, NewRegionHolds DEF r

LEMMA ReallocHolds ==
    ASSUME OverflowChecks, HoldsInv, NEW ptr \in 0 .. Limit, NEW size \in 0 .. MaxLength,
           NEW align \in Align, Realloc(ptr, size, align)
    PROVE  HoldsInv'
<1>1. size \in Nat /\ align \in {1, 2, 4, 8} /\ ptr \in Nat
  BY MemoryAssumption
<1>2. <<>> \in Values(Byte) \union Values(Word)
  <2>1. <<>> \in Values(Byte)
    BY MemoryAssumption DEF Values
  <2> QED BY <2>1
<1>3. Alloc(ptr, size, align) /\ Allocated("host", ptr, size, align, <<>>) /\ data' = data
  BY DEF Realloc
<1>4. data' \in Memory /\ WritesOnly(data, data', ptr, size)
  BY <1>3 DEF HoldsInv, WritesOnly
<1> DEFINE r == [kind |-> "host", ptr |-> ptr, size |-> size, align |-> align, value |-> <<>>]
<1>5. r.kind = "host" /\ r.ptr = ptr /\ r.size = size /\ r.value = <<>>
  OBVIOUS
<1> HIDE DEF r
<1>6. Shaped(r)
  BY <1>5 DEF Shaped
<1>7. HoldsAt(data', r)
  <2>1. Len(r.value) = r.size => 1 .. r.size = {}
    BY <1>1, <1>5
  <2> QED BY <1>5, <2>1 DEF HoldsAt, BytesAt, WordsAt
<1> QED BY <1>1, <1>2, <1>3, <1>4, <1>6, <1>7, NewRegionHolds DEF r

\* A write by the host changes its own region, and no other, since none overlaps it.
LEMMA FillHolds ==
    ASSUME OverflowChecks, HoldsInv, MemoryInv', NEW k \in DOMAIN regions,
           NEW written \in Values(Byte), Fill(k, written)
    PROVE  HoldsInv'
<1>1. written \in Seq(Byte) /\ written \in Seq(Octet) /\ Len(written) \in Nat
  <2>1. written \in Seq(Byte) /\ Len(written) \in Nat
    BY ValuesAreSequences
  <2>2. Byte \subseteq Octet
    BY ValueAssumption DEF Octet
  <2> QED BY <2>1, <2>2
<1>2. /\ regions[k].kind = "host"
      /\ Len(written) = regions[k].size
      /\ data' = Written(data, regions[k].ptr, written)
      /\ regions' = [regions EXCEPT ![k] = [regions[k] EXCEPT !.value = written]]
      /\ allocPtr' = allocPtr
  BY DEF Fill
<1>3. regions \in Seq(Region) /\ DOMAIN regions = 1 .. Len(regions) /\ Len(regions) \in Nat
  BY DEF HoldsInv, MemoryInv, Bounded
<1>4. PICK q \in Region : q = regions[k]
  BY <1>3
<1>5. PICK d \in Memory : d = data
  BY DEF HoldsInv
<1> DEFINE r == [q EXCEPT !.value = written]
<1>6. /\ r \in [kind : {"string", "bytes", "words", "host"}, ptr : Nat, size : Nat,
                align : {1, 2, 4, 8}, value : Values(Byte)]
      /\ r.kind = "host" /\ r.ptr = q.ptr /\ r.size = q.size /\ r.value = written
      /\ r.size = Len(written) /\ q.ptr \in Nat /\ q.size \in Nat
  BY <1>2, <1>4 DEF Region
<1>7. /\ DOMAIN regions' = DOMAIN regions
      /\ regions'[k] = r
      /\ \A j \in DOMAIN regions : j # k => regions'[j] = regions[j]
  BY <1>2, <1>3, <1>4
<1> HIDE DEF r
<1>8. /\ Written(d, q.ptr, written) \in Memory
      /\ \A a \in Address : a \notin q.ptr .. q.ptr + Len(written) - 1 =>
             Written(d, q.ptr, written)[a] = d[a]
      /\ q.ptr + Len(written) <= Capacity =>
             \A i \in 1 .. Len(written) : Written(d, q.ptr, written)[q.ptr + i - 1] = written[i]
  BY <1>1, <1>6, WrittenIs
<1>9. data' = Written(d, q.ptr, written)
  BY <1>2, <1>4, <1>5
<1>10. data' \in Memory /\ WritesOnly(d, data', q.ptr, q.size)
  BY <1>6, <1>8, <1>9 DEF WritesOnly
<1>11. Shaped(r) /\ HoldsAt(data', r)
  BY <1>1, <1>6, <1>8, <1>9 DEF Shaped, HoldsAt, BytesAt, WordsAt, RegionEnd
<1>12. ASSUME NEW j \in DOMAIN regions
       PROVE  regions'[j].ptr < Limit /\ Shaped(regions'[j]) /\ HoldsAt(data', regions'[j])
  <2>1. CASE j = k
    <3>1. q.ptr < Limit
      BY <1>4 DEF HoldsInv
    <3> QED BY <1>6, <1>7, <1>11, <2>1, <3>1
  <2>2. CASE j # k
    <3>1. PICK s \in Region : s = regions[j]
      BY <1>3
    <3>2. s.ptr < Limit /\ Shaped(s) /\ HoldsAt(d, s)
      BY <1>5, <3>1 DEF HoldsInv
    <3>3. RegionEnd(s) <= q.ptr \/ q.ptr + q.size <= s.ptr
      <4>1. j < k \/ k < j
        BY <1>3, <2>2
      <4> QED BY <1>4, <3>1, <4>1 DEF HoldsInv, MemoryInv, RegionsDisjoint, RegionEnd
    <3>4. HoldsAt(data', s)
      <4>1. PICK e : e = data'
        OBVIOUS
      <4>2. WritesOnly(d, e, q.ptr, q.size) /\ q.ptr \in Nat /\ q.size \in Nat
        BY <1>6, <1>10, <4>1
      <4>3. HoldsAt(e, s)
        BY <3>2, <3>3, <4>2, HoldsKept
      <4> QED BY <4>1, <4>3
    <3> QED BY <1>7, <2>2, <3>1, <3>2, <3>4
  <2> QED BY <2>1, <2>2
<1>13. UnallocatedClear'
  <2> SUFFICES ASSUME NEW a \in Address,
                      \A j \in DOMAIN regions' :
                          a \notin regions'[j].ptr .. RegionEnd(regions'[j]) - 1
               PROVE  data'[a] = 0
    BY DEF UnallocatedClear, RegionEnd
  <2>1. a \notin q.ptr .. q.ptr + q.size - 1
    BY <1>6, <1>7 DEF RegionEnd
  <2>2. \A j \in DOMAIN regions : a \notin regions[j].ptr .. RegionEnd(regions[j]) - 1
    <3> SUFFICES ASSUME NEW j \in DOMAIN regions
                 PROVE  a \notin regions[j].ptr .. RegionEnd(regions[j]) - 1
      OBVIOUS
    <3>1. CASE j = k
      <4>1. regions[j].ptr = q.ptr /\ RegionEnd(regions[j]) = q.ptr + q.size
        BY <1>4, <3>1 DEF RegionEnd
      <4>2. a \in Int /\ q.ptr \in Nat /\ q.size \in Nat
        BY <1>6, MemoryAssumption DEF Address
      <4>3. ~ (q.ptr <= a /\ a <= q.ptr + q.size - 1)
        BY <2>1, <4>2
      <4> QED BY <4>1, <4>2, <4>3
    <3>2. CASE j # k
      BY <1>7, <3>2
    <3> QED BY <3>1, <3>2
  <2>3. data[a] = 0
    BY <2>2 DEF HoldsInv, UnallocatedClear
  <2> QED BY <1>5, <1>10, <2>1, <2>3 DEF WritesOnly
<1>14. (data \in Memory)' /\ (allocPtr < Limit)'
  BY <1>2, <1>10 DEF HoldsInv, Memory, Address
<1>15. \A j \in DOMAIN regions' :
           regions'[j].ptr < Limit /\ Shaped(regions'[j]) /\ HoldsAt(data', regions'[j])
  BY <1>7, <1>12
<1> QED BY <1>13, <1>14, <1>15 DEF HoldsInv

LEMMA HoldsNext ==
    ASSUME OverflowChecks, 4 * MaxLength < Limit, HoldsInv, [Next]_vars
    PROVE  HoldsInv'
<1>1. ASSUME NEW ptr \in 0 .. Limit, NEW kind \in {"string", "bytes"},
             NEW written \in Values(Byte), LowerBytes(kind, ptr, written)
      PROVE  HoldsInv'
  BY <1>1, LowerBytesHolds
<1>2. ASSUME NEW ptr \in 0 .. Limit, NEW words \in Values(Word), LowerWords(ptr, words)
      PROVE  HoldsInv'
  BY <1>2, LowerWordsHolds
<1>3. ASSUME NEW ptr \in 0 .. Limit, NEW size \in 0 .. MaxLength, NEW align \in Align,
             Realloc(ptr, size, align)
      PROVE  HoldsInv'
  BY <1>3, ReallocHolds
<1>4. ASSUME NEW k \in DOMAIN regions, NEW written \in Values(Byte), Fill(k, written)
      PROVE  HoldsInv'
  <2>1. MemoryInv'
    BY MemoryNext DEF HoldsInv
  <2> QED BY <1>4, <2>1, FillHolds
<1>5. CASE UNCHANGED vars
  <2>1. MemoryInv'
    BY MemoryNext DEF HoldsInv
  <2>2. data' = data /\ allocPtr' = allocPtr /\ regions' = regions
    BY <1>5 DEF vars
  <2> QED BY <2>1, <2>2 DEF HoldsInv, Memory, Address, UnallocatedClear, RegionEnd
<1> QED BY <1>1, <1>2, <1>3, <1>4, <1>5 DEF Next

-----------------------------------------------------------------------------
(***************************************************************************)
(* Lifting back.                                                           *)
(***************************************************************************)

LEMMA ReadBytesIs ==
    ASSUME NEW r \in Region, r.kind # "words", Shaped(r), HoldsAt(data, r)
    PROVE  /\ Len(r.value) = r.size =>
                  ReadBytes(r.ptr, r.size) = (IF RegionEnd(r) <= Capacity THEN r.value ELSE <<>>)
           /\ r.kind = "string" =>
                  LiftString(r.ptr, r.size) =
                      (IF RegionEnd(r) <= Capacity \/ r.size = 0 THEN r.value ELSE None)
<1>1. r.ptr \in Nat /\ r.size \in Nat /\ r.value \in Seq(Byte)
  BY DEF Region, Shaped
<1>2. ASSUME Len(r.value) = r.size
      PROVE  ReadBytes(r.ptr, r.size) = (IF RegionEnd(r) <= Capacity THEN r.value ELSE <<>>)
  <2>1. CASE RegionEnd(r) <= Capacity
    <3>1. r.value = [i \in 1 .. r.size |-> r.value[i]]
      BY <1>1, <1>2, LenProperties
    <3>2. \A i \in 1 .. r.size : data[r.ptr + i - 1] = r.value[i]
      BY <1>2, <2>1 DEF HoldsAt, BytesAt
    <3>3. ReadBytes(r.ptr, r.size) = [i \in 1 .. r.size |-> data[r.ptr + i - 1]]
      BY <2>1 DEF ReadBytes, RegionEnd
    <3>4. [i \in 1 .. r.size |-> data[r.ptr + i - 1]] = [i \in 1 .. r.size |-> r.value[i]]
      BY <3>2
    <3> QED BY <2>1, <3>1, <3>3, <3>4
  <2>2. CASE ~ (RegionEnd(r) <= Capacity)
    BY <2>2 DEF ReadBytes, RegionEnd
  <2> QED BY <2>1, <2>2
<1>3. ASSUME r.kind = "string"
      PROVE  LiftString(r.ptr, r.size) =
                 (IF RegionEnd(r) <= Capacity \/ r.size = 0 THEN r.value ELSE None)
  <2> DEFINE written == ReadBytes(r.ptr, r.size)
  <2>1. Len(r.value) = r.size
    BY <1>3 DEF Shaped
  <2>2. written = (IF RegionEnd(r) <= Capacity THEN r.value ELSE <<>>)
    BY <1>2, <2>1
  <2>3. LiftString(r.ptr, r.size) = (IF Len(written) = r.size THEN written ELSE None)
    BY DEF LiftString
  <2> HIDE DEF written
  <2>4. CASE RegionEnd(r) <= Capacity
    BY <2>1, <2>2, <2>3, <2>4
  <2>5. CASE ~ (RegionEnd(r) <= Capacity) /\ r.size = 0
    <3>1. r.value = <<>>
      BY <1>1, <2>1, <2>5, EmptySeq
    <3> QED BY <2>2, <2>3, <2>5, <3>1
  <2>6. CASE ~ (RegionEnd(r) <= Capacity) /\ r.size # 0
    BY <2>2, <2>3, <2>6
  <2> QED BY <2>4, <2>5, <2>6
<1> QED BY <1>2, <1>3

LEMMA LiftWordsIs ==
    ASSUME NEW r \in Region, r.kind = "words", Shaped(r), HoldsAt(data, r)
    PROVE  LiftWords(r.ptr, Len(r.value)) =
               [j \in DOMAIN r.value |-> IF r.ptr + 4 * j <= Capacity THEN r.value[j] ELSE 0]
<1>1. /\ r.ptr \in Nat /\ r.value \in Seq(Word) /\ DOMAIN r.value = 1 .. Len(r.value)
      /\ Len(r.value) \in Nat
  BY LenProperties DEF Region, Shaped
<1>2. ASSUME NEW j \in 1 .. Len(r.value)
      PROVE  ReadWord(r.ptr + 4 * (j - 1)) =
                 IF r.ptr + 4 * j <= Capacity THEN r.value[j] ELSE 0
  <2> DEFINE offset == r.ptr + 4 * (j - 1)
  <2>1. offset \in Nat /\ offset + 4 = r.ptr + 4 * j
    BY <1>1
  <2>2. CASE r.ptr + 4 * j <= Capacity
    <3> DEFINE read == ReadBytes(offset, 4)
               written == ToBytes(r.value[j])
    <3>1. ReadWord(offset) = FromBytes(read)
      BY <2>1, <2>2 DEF ReadWord
    <3>2. read = [k \in 1 .. 4 |-> data[offset + k - 1]]
      BY <2>1, <2>2 DEF ReadBytes
    <3>3. \A b \in 1 .. 4 : data[offset + b - 1] = written[b]
      BY <2>2 DEF HoldsAt, WordsAt
    <3>4. r.value[j] \in Word
      BY <1>1
    <3>5. FromBytes(written) = r.value[j]
      BY <3>4, ToBytesIs
    <3> HIDE DEF read, written, offset
    <3>6. read[1] = written[1] /\ read[2] = written[2] /\ read[3] = written[3] /\ read[4] = written[4]
      BY <3>2, <3>3
    <3>7. FromBytes(read) = FromBytes(written)
      BY <3>6, SMT DEF FromBytes
    <3> QED BY <2>2, <3>1, <3>5, <3>7 DEF offset
  <2>3. CASE ~ (r.ptr + 4 * j <= Capacity)
    BY <2>1, <2>3 DEF ReadWord
  <2> QED BY <2>2, <2>3
<1> QED BY <1>1, <1>2 DEF LiftWords

LEMMA HoldsInvImplies ==
    ASSUME HoldsInv PROVE HoldsWhatWasLowered
<1>1. regions \in Seq(Region)
  BY DEF HoldsInv, MemoryInv, Bounded
<1>2. ASSUME NEW k \in DOMAIN regions
      PROVE  regions[k] \in Region /\ Shaped(regions[k]) /\ HoldsAt(data, regions[k])
  BY <1>1 DEF HoldsInv
<1>3. TypeOK
  <2>1. data \in [Address -> 0 .. 255]
    BY DEF HoldsInv, Memory, Octet
  <2>2. allocPtr \in 0 .. Limit - 1
    BY MemoryAssumption DEF HoldsInv, MemoryInv, Bounded
  <2>3. ASSUME NEW k \in DOMAIN regions
        PROVE  regions[k].ptr \in 0 .. Limit - 1 /\ regions[k].size \in Nat
    <3>1. regions[k].ptr \in Nat /\ regions[k].size \in Nat
      BY <1>2 DEF Region
    <3>2. regions[k].ptr < Limit /\ Limit \in Nat
      BY MemoryAssumption DEF HoldsInv
    <3> QED BY <3>1, <3>2
  <2> QED BY <2>1, <2>2, <2>3 DEF TypeOK
<1>4. LiftsWhatFits
  <2> SUFFICES ASSUME NEW k \in DOMAIN regions
               PROVE  LET r == regions[k]
                          fits == RegionEnd(r) <= Capacity
                      IN /\ r.kind = "string" =>
                                LiftString(r.ptr, r.size) =
                                    (IF fits \/ r.size = 0 THEN r.value ELSE None)
                         /\ r.kind \in {"bytes", "host"} /\ Len(r.value) = r.size =>
                                LiftBytes(r.ptr, r.size) = (IF fits THEN r.value ELSE <<>>)
                         /\ r.kind = "words" =>
                                LiftWords(r.ptr, Len(r.value)) =
                                    [j \in DOMAIN r.value |->
                                        IF r.ptr + 4 * j <= Capacity THEN r.value[j] ELSE 0]
    BY DEF LiftsWhatFits
  <2>1. PICK r \in Region : r = regions[k]
    BY <1>2
  <2>2. Shaped(r) /\ HoldsAt(data, r)
    BY <1>2, <2>1
  <2>3. r.kind = "string" =>
            LiftString(r.ptr, r.size) =
                (IF RegionEnd(r) <= Capacity \/ r.size = 0 THEN r.value ELSE None)
    BY <2>2, ReadBytesIs
  <2>4. r.kind \in {"bytes", "host"} /\ Len(r.value) = r.size =>
            LiftBytes(r.ptr, r.size) = (IF RegionEnd(r) <= Capacity THEN r.value ELSE <<>>)
    BY <2>2, ReadBytesIs DEF LiftBytes
  <2>5. r.kind = "words" =>
            LiftWords(r.ptr, Len(r.value)) =
                [j \in DOMAIN r.value |-> IF r.ptr + 4 * j <= Capacity THEN r.value[j] ELSE 0]
    BY <2>2, LiftWordsIs
  <2> QED BY <2>1, <2>3, <2>4, <2>5
<1> QED BY <1>3, <1>4 DEF HoldsWhatWasLowered, HoldsInv

\* In a build that checks overflow, the memory holds what was lowered into it
\* and nothing else, whatever its size, the values, the alignments and what the
\* host writes: each string or byte list that fits lifts back unchanged, of a
\* list of words exactly those that fit, and no address outside an allocation
\* is ever written.  The lists are those whose size a u32 counts: a longer one
\* would be given less space than it is written to.
THEOREM HoldsWhatWasLoweredAlways ==
    ASSUME OverflowChecks, 4 * MaxLength < Limit
    PROVE  Spec => []HoldsWhatWasLowered
<1>1. Init => HoldsInv
  <2> SUFFICES ASSUME Init PROVE HoldsInv
    OBVIOUS
  <2>1. MemoryInv /\ DOMAIN regions = {}
    BY DEF Init, Start, MemoryInv, Bounded, RegionsDisjoint, RegionEnd
  <2>2. data \in Memory /\ \A a \in Address : data[a] = 0
    BY DEF Init, Memory, Octet
  <2>3. allocPtr < Limit
    BY MemoryAssumption DEF Init, Start
  <2> QED BY <2>1, <2>2, <2>3 DEF HoldsInv, UnallocatedClear
<1>2. HoldsInv /\ [Next]_vars => HoldsInv'
  BY HoldsNext
<1>3. HoldsInv => HoldsWhatWasLowered
  BY HoldsInvImplies
<1> QED BY <1>1, <1>2, <1>3, PTL DEF Spec

-----------------------------------------------------------------------------
(***************************************************************************)
(* ComponentBinary.                                                        *)
(***************************************************************************)

-----------------------------------------------------------------------------
(***************************************************************************)
(* Bytes one after the other.                                              *)
(***************************************************************************)

LEMMA CountedSeq ==
    ASSUME NEW n \in Nat, NEW S, NEW f \in [1 .. n -> S]
    PROVE  f \in Seq(S) /\ Len(f) = n /\ DOMAIN f = 1 .. n
<1>1. f \in Seq(S)
  BY SeqDef
<1>2. Len(f) \in Nat /\ DOMAIN f = 1 .. Len(f) /\ DOMAIN f = 1 .. n
  BY <1>1, LenProperties
<1> QED BY <1>1, <1>2

LEMMA SameSeq ==
    ASSUME NEW S, NEW s \in Seq(S), NEW t \in Seq(S), Len(s) = Len(t),
           \A i \in 1 .. Len(s) : s[i] = t[i]
    PROVE  s = t
  OBVIOUS

\* s \o t: where its bytes come from.
LEMMA Joined ==
    ASSUME NEW s \in Seq(Nat), NEW t \in Seq(Nat)
    PROVE  /\ s \o t \in Seq(Nat) /\ Len(s \o t) = Len(s) + Len(t)
           /\ \A i \in 1 .. Len(s) : (s \o t)[i] = s[i]
           /\ \A i \in 1 .. Len(t) : (s \o t)[Len(s) + i] = t[i]
  OBVIOUS

LEMMA JoinedAgain ==
    ASSUME NEW s \in Seq(Nat), NEW t \in Seq(Nat), NEW u \in Seq(Nat)
    PROVE  (s \o t) \o u = s \o (t \o u)
<1>1. PICK a \in Nat, b \in Nat, c \in Nat : a = Len(s) /\ b = Len(t) /\ c = Len(u)
  OBVIOUS
<1>2. /\ (s \o t) \o u \in Seq(Nat) /\ s \o (t \o u) \in Seq(Nat)
      /\ Len(s \o t) = a + b /\ Len(t \o u) = b + c
      /\ Len((s \o t) \o u) = a + b + c /\ Len(s \o (t \o u)) = a + b + c
  BY <1>1
<1>3. ASSUME NEW i \in 1 .. a + b + c
      PROVE  ((s \o t) \o u)[i] = (s \o (t \o u))[i]
  BY <1>1, <1>2
<1> QED BY <1>2, <1>3, SameSeq

LEMMA Cancelled ==
    ASSUME NEW s \in Seq(Nat), NEW t \in Seq(Nat), NEW u \in Seq(Nat), s \o t = s \o u
    PROVE  t = u
<1>1. Len(t) = Len(u)
  BY Joined
<1>2. ASSUME NEW i \in 1 .. Len(t) PROVE t[i] = u[i]
  <2>1. (s \o t)[Len(s) + i] = t[i] /\ (s \o u)[Len(s) + i] = u[i]
    BY <1>1, Joined
  <2> QED BY <2>1
<1> QED BY <1>1, <1>2, SameSeq

CatBy(s, n, m, f) ==
    f = [k \in 0 .. m |-> IF k = 0 THEN <<>> ELSE s[n + 1 - k] \o f[k - 1]]

CatOneByOne(s, n, m, f) ==
    f[0] = <<>> /\ \A k \in 1 .. m : f[k] = s[n + 1 - k] \o f[k - 1]

LEMMA CatEquations ==
    ASSUME NEW s, NEW n \in Nat, NEW m \in Nat, NEW f, CatBy(s, n, m, f)
    PROVE  CatOneByOne(s, n, m, f)
<1> DEFINE h == [k \in 0 .. m |-> IF k = 0 THEN <<>> ELSE s[n + 1 - k] \o f[k - 1]]
<1>1. f = h
  BY DEF CatBy
<1>2. h[0] = <<>> /\ \A k \in 1 .. m : h[k] = s[n + 1 - k] \o f[k - 1]
  <2>1. h[0] = <<>>
    OBVIOUS
  <2>2. ASSUME NEW k \in 1 .. m PROVE h[k] = s[n + 1 - k] \o f[k - 1]
    <3>1. k \in 0 .. m /\ k # 0
      OBVIOUS
    <3> QED BY <3>1
  <2> QED BY <2>1, <2>2
<1> HIDE DEF h
<1>3. f[0] = h[0] /\ \A k \in 1 .. m : f[k] = h[k]
  BY <1>1
<1> QED BY <1>2, <1>3 DEF CatOneByOne

LEMMA CatExists == ASSUME NEW s, NEW n \in Nat, NEW m \in Nat PROVE \E f : CatBy(s, n, m, f)
<1> DEFINE N == {l \in Nat : \E f : CatBy(s, n, l, f)}
<1>1. 0 \in N
  <2>1. CatBy(s, n, 0, [k \in 0 .. 0 |-> <<>>])
    BY DEF CatBy
  <2> QED BY <2>1
<1>2. ASSUME NEW l \in N PROVE l + 1 \in N
  <2>1. PICK f : CatBy(s, n, l, f)
    OBVIOUS
  <2>2. l \in Nat
    OBVIOUS
  <2>3. f[0] = <<>> /\ \A k \in 1 .. l : f[k] = s[n + 1 - k] \o f[k - 1]
    <3>1. CatOneByOne(s, n, l, f)
      BY ONLY <2>1, <2>2, CatEquations
    <3> QED BY ONLY <3>1 DEF CatOneByOne
  <2> DEFINE g == [k \in 0 .. l + 1 |-> IF k <= l THEN f[k] ELSE s[n + 1 - k] \o f[k - 1]]
             h == [k \in 0 .. l + 1 |-> IF k = 0 THEN <<>> ELSE s[n + 1 - k] \o g[k - 1]]
  <2>4. (\A k \in 0 .. l : g[k] = f[k]) /\ g[l + 1] = s[n + 1 - (l + 1)] \o f[l]
    OBVIOUS
  <2>5. ASSUME NEW k \in 0 .. l + 1 PROVE g[k] = h[k]
    <3> HIDE DEF g
    <3>1. CASE k = 0
      BY <2>3, <2>4, <3>1
    <3>2. CASE k \in 1 .. l
      <4>1. k \in 0 .. l /\ k - 1 \in 0 .. l /\ k # 0
        BY <2>2, <3>2
      <4>2. h[k] = s[n + 1 - k] \o g[k - 1]
        BY <4>1
      <4> QED BY <2>3, <2>4, <3>2, <4>1, <4>2
    <3>3. CASE k = l + 1
      <4>1. k # 0 /\ k - 1 = l /\ l \in 0 .. l
        BY <2>2, <3>3
      <4>2. h[k] = s[n + 1 - k] \o g[k - 1]
        BY <4>1
      <4> QED BY <2>4, <3>3, <4>1, <4>2
    <3> QED BY <3>1, <3>2, <3>3
  <2>6. g = h
    BY <2>5
  <2>7. CatBy(s, n, l + 1, g)
    BY <2>6 DEF CatBy
  <2> QED BY <2>7
<1>3. N = Nat
  BY <1>1, <1>2, NatSetInduction
<1> QED BY <1>3

\* g[k] is what comes from the k-th piece on.
Tails(s, g) ==
    /\ g[Len(s) + 1] = <<>>
    /\ \A k \in 1 .. Len(s) : g[k] = s[k] \o g[k + 1]
    /\ \A k \in 1 .. Len(s) + 1 : g[k] \in Seq(Nat)

LEMMA ConcatIs ==
    ASSUME NEW s \in Seq(Seq(Nat))
    PROVE  \E g : Tails(s, g) /\ Concat(s) = g[1]
<1>1. PICK n \in Nat : n = Len(s) /\ \A k \in 1 .. n : s[k] \in Seq(Nat)
  OBVIOUS
<1>2. PICK f : CatBy(s, n, n, f) /\ Concat(s) = f[n]
  <2>1. \E f : CatBy(s, n, n, f)
    BY CatExists
  <2> QED BY <1>1, <2>1 DEF CatBy, Concat
<1>3. f[0] = <<>> /\ \A k \in 1 .. n : f[k] = s[n + 1 - k] \o f[k - 1]
  <2>1. CatOneByOne(s, n, n, f)
    BY <1>2, CatEquations
  <2> QED BY <2>1 DEF CatOneByOne
<1> DEFINE N == {k \in Nat : k <= n => f[k] \in Seq(Nat)}
<1>4. 0 \in N
  <2>1. <<>> \in Seq(Nat)
    OBVIOUS
  <2> QED BY <1>3, <2>1
<1>5. ASSUME NEW k \in N PROVE k + 1 \in N
  <2> SUFFICES ASSUME k + 1 <= n PROVE f[k + 1] \in Seq(Nat)
    OBVIOUS
  <2>1. k \in Nat /\ f[k] \in Seq(Nat) /\ k + 1 \in 1 .. n /\ (k + 1) - 1 = k
    OBVIOUS
  <2>2. f[k + 1] = s[n + 1 - (k + 1)] \o f[k]
    BY ONLY <1>3, <2>1
  <2>3. n + 1 - (k + 1) \in 1 .. n
    BY <2>1
  <2> QED BY <1>1, <2>1, <2>2, <2>3
<1>6. \A k \in 0 .. n : f[k] \in Seq(Nat)
  <2>1. N = Nat
    BY <1>4, <1>5, NatSetInduction
  <2> QED BY <2>1
<1> DEFINE g == [k \in 1 .. n + 1 |-> f[n + 1 - k]]
<1>7. g[n + 1] = <<>> /\ g[1] = f[n] /\ \A k \in 1 .. n + 1 : g[k] \in Seq(Nat)
  BY <1>3, <1>6
<1>8. ASSUME NEW k \in 1 .. n PROVE g[k] = s[k] \o g[k + 1]
  <2>1. n + 1 - k \in 1 .. n /\ n + 1 - (n + 1 - k) = k /\ (n + 1 - k) - 1 = n + 1 - (k + 1)
    OBVIOUS
  <2>2. f[n + 1 - k] = s[k] \o f[n + 1 - (k + 1)]
    BY <1>3, <2>1
  <2>3. k \in 1 .. n + 1 /\ k + 1 \in 1 .. n + 1
    OBVIOUS
  <2> QED BY <2>2, <2>3
<1> HIDE DEF g
<1>9. Tails(s, g)
  BY <1>1, <1>7, <1>8 DEF Tails
<1> QED BY <1>2, <1>7, <1>9

LEMMA ConcatType == ASSUME NEW s \in Seq(Seq(Nat)) PROVE Concat(s) \in Seq(Nat)
<1>1. PICK g : Tails(s, g) /\ Concat(s) = g[1]
  BY ConcatIs
<1>2. 1 \in 1 .. Len(s) + 1
  OBVIOUS
<1> QED BY <1>1, <1>2 DEF Tails

\* Where one of two codes begins the other, or they begin the same bytes, they are one.
Tells(x, y) == \A r, q \in Seq(Nat) : x \o r = y \o q => x = y

\* Pieces that can be told apart can be told apart when they are joined.
LEMMA ConcatTells ==
    ASSUME NEW s \in Seq(Seq(Nat)), NEW t \in Seq(Seq(Nat)), Len(s) = Len(t),
           \A k \in 1 .. Len(s) : Tells(s[k], t[k]),
           NEW r \in Seq(Nat), NEW q \in Seq(Nat), Concat(s) \o r = Concat(t) \o q
    PROVE  s = t
<1>1. PICK n \in Nat : /\ n = Len(s) /\ n = Len(t)
                       /\ \A k \in 1 .. n : s[k] \in Seq(Nat) /\ t[k] \in Seq(Nat)
  <2>1. \A k \in 1 .. Len(s) : s[k] \in Seq(Nat)
    OBVIOUS
  <2>2. \A k \in 1 .. Len(t) : t[k] \in Seq(Nat)
    OBVIOUS
  <2>3. Len(s) \in Nat
    OBVIOUS
  <2> QED BY <2>1, <2>2, <2>3
<1>2. PICK g : Tails(s, g) /\ Concat(s) = g[1]
  BY ConcatIs
<1>3. PICK h : Tails(t, h) /\ Concat(t) = h[1]
  BY ConcatIs
<1>4. /\ \A k \in 1 .. n : g[k] = s[k] \o g[k + 1] /\ h[k] = t[k] \o h[k + 1]
      /\ \A k \in 1 .. n + 1 : g[k] \in Seq(Nat) /\ h[k] \in Seq(Nat)
  BY <1>1, <1>2, <1>3 DEF Tails
<1> DEFINE P(k) == g[k + 1] \o r = h[k + 1] \o q /\ \A j \in 1 .. k : s[j] = t[j]
           N == {k \in Nat : k <= n => P(k)}
<1>5. P(0)
  <2>1. 0 + 1 = 1 /\ 1 .. 0 = {}
    OBVIOUS
  <2>2. g[1] \o r = h[1] \o q
    BY <1>2, <1>3
  <2> QED BY <2>1, <2>2
<1>6. ASSUME NEW k \in Nat, k + 1 <= n, P(k) PROVE P(k + 1)
  <2>1. /\ k + 1 \in 1 .. n /\ k + 2 \in 1 .. n + 1 /\ k + 2 = (k + 1) + 1
        /\ g[k + 1] \o r = h[k + 1] \o q /\ \A j \in 1 .. k : s[j] = t[j]
    BY <1>6
  <2>2. PICK x \in Seq(Nat), y \in Seq(Nat), v \in Seq(Nat), w \in Seq(Nat) :
            x = s[k + 1] /\ y = t[k + 1] /\ v = g[k + 2] /\ w = h[k + 2]
    BY <1>1, <1>4, <2>1
  <2>3. (x \o v) \o r = (y \o w) \o q /\ Tells(x, y)
    BY <1>1, <1>4, <2>1, <2>2
  <2>4. x \o (v \o r) = y \o (w \o q)
    BY <2>3, JoinedAgain
  <2>5. v \o r \in Seq(Nat) /\ w \o q \in Seq(Nat)
    BY Joined
  <2>6. x = y
    BY <2>3, <2>4, <2>5 DEF Tells
  <2>7. v \o r = w \o q
    BY <2>4, <2>5, <2>6, Cancelled
  <2>8. \A j \in 1 .. k + 1 : s[j] = t[j]
    <3> TAKE j \in 1 .. k + 1
    <3>1. j \in 1 .. k \/ j = k + 1
      BY <2>1
    <3> QED BY <2>1, <2>2, <2>6, <3>1
  <2> QED BY <2>1, <2>2, <2>7, <2>8
<1>7. P(n)
  <2> HIDE DEF P
  <2>1. 0 \in N /\ \A k \in N : k + 1 \in N
    BY <1>5, <1>6
  <2>2. N = Nat
    BY <2>1, NatSetInduction
  <2>3. n \in N
    BY <2>2
  <2> QED BY <2>3
<1>8. \A j \in 1 .. n : s[j] = t[j]
  BY <1>7
<1> QED BY <1>1, <1>8, SameSeq

-----------------------------------------------------------------------------
(***************************************************************************)
(* Numbers.                                                                *)
(***************************************************************************)

Shifts(n, v) == v = [k \in 0 .. 5 |-> IF k = 0 THEN n ELSE v[k - 1] \div 128]

\* v[k] is what is left of n after k turns, and there are `size` turns.
Digits(n, v, size) ==
    /\ v[0] = n /\ \A k \in 1 .. 5 : v[k] = v[k - 1] \div 128
    /\ \A k \in 0 .. 5 : v[k] \in Nat
    /\ size \in 1 .. 5 /\ (v[size] = 0 \/ size = 5)
    /\ Leb(n) \in Seq(Nat) /\ Len(Leb(n)) = size
    /\ \A k \in 1 .. size : Leb(n)[k] = (v[k - 1] % 128) + (IF k < size THEN 128 ELSE 0)

LEMMA ShiftsExist == ASSUME NEW n \in Nat PROVE \E v : Shifts(n, v)
<1> DEFINE v1 == n \div 128
           v2 == v1 \div 128
           v3 == v2 \div 128
           v4 == v3 \div 128
           v5 == v4 \div 128
           v == [k \in 0 .. 5 |-> IF k = 0 THEN n ELSE IF k = 1 THEN v1 ELSE IF k = 2 THEN v2
                                  ELSE IF k = 3 THEN v3 ELSE IF k = 4 THEN v4 ELSE v5]
           h == [k \in 0 .. 5 |-> IF k = 0 THEN n ELSE v[k - 1] \div 128]
<1>1. /\ v[0] = n /\ v[1] = v1 /\ v[2] = v2 /\ v[3] = v3 /\ v[4] = v4 /\ v[5] = v5
  <2> HIDE DEF v1, v2, v3, v4, v5
  <2> QED OBVIOUS
<1>2. /\ h[0] = n /\ h[1] = v[0] \div 128 /\ h[2] = v[1] \div 128 /\ h[3] = v[2] \div 128
      /\ h[4] = v[3] \div 128 /\ h[5] = v[4] \div 128
  <2> HIDE DEF v
  <2> QED OBVIOUS
<1>3. v[0] = h[0] /\ v[1] = h[1] /\ v[2] = h[2] /\ v[3] = h[3] /\ v[4] = h[4] /\ v[5] = h[5]
  <2> HIDE DEF v, h
  <2> QED BY <1>1, <1>2
<1>4. v = h
  <2>1. \A k \in 0 .. 5 : k = 0 \/ k = 1 \/ k = 2 \/ k = 3 \/ k = 4 \/ k = 5
    OBVIOUS
  <2>2. \A k \in 0 .. 5 : v[k] = h[k]
    <3> HIDE DEF v, h
    <3> QED BY <1>3, <2>1
  <2>3. v = [k \in 0 .. 5 |-> v[k]] /\ h = [k \in 0 .. 5 |-> h[k]]
    <3> HIDE DEF v1, v2, v3, v4, v5
    <3> QED OBVIOUS
  <2> HIDE DEF v, h
  <2> QED BY <2>2, <2>3
<1> HIDE DEF v
<1> QED BY <1>4 DEF Shifts

LEMMA ShiftsEquations ==
    ASSUME NEW n \in Nat, NEW v, Shifts(n, v)
    PROVE  /\ v[0] = n /\ \A k \in 1 .. 5 : v[k] = v[k - 1] \div 128
           /\ \A k \in 0 .. 5 : v[k] \in Nat
<1> DEFINE h == [k \in 0 .. 5 |-> IF k = 0 THEN n ELSE v[k - 1] \div 128]
<1>1. v = h
  BY DEF Shifts
<1>2. h[0] = n
  OBVIOUS
<1>3. ASSUME NEW k \in 1 .. 5 PROVE h[k] = v[k - 1] \div 128
  <2>1. k \in 0 .. 5 /\ k # 0
    OBVIOUS
  <2> QED BY <2>1
<1> HIDE DEF h
<1>4. v[0] = n /\ \A k \in 1 .. 5 : v[k] = v[k - 1] \div 128
  BY <1>1, <1>2, <1>3
<1>5. /\ v[1] = v[0] \div 128 /\ v[2] = v[1] \div 128 /\ v[3] = v[2] \div 128
      /\ v[4] = v[3] \div 128 /\ v[5] = v[4] \div 128
  BY <1>4
<1>6. v[0] \in Nat /\ v[1] \in Nat /\ v[2] \in Nat /\ v[3] \in Nat /\ v[4] \in Nat /\ v[5] \in Nat
  BY <1>4, <1>5
<1>7. ASSUME NEW k \in 0 .. 5 PROVE v[k] \in Nat
  <2>1. k = 0 \/ k = 1 \/ k = 2 \/ k = 3 \/ k = 4 \/ k = 5
    OBVIOUS
  <2> QED BY <1>6, <2>1
<1> QED BY <1>4, <1>7

\* The first turn that leaves nothing, or the fifth.
LEMMA TurnsExist ==
    ASSUME NEW v
    PROVE  \E k \in 1 .. 5 : (v[k] = 0 \/ k = 5) /\ \A j \in 1 .. k - 1 : v[j] # 0
<1>1. CASE v[1] = 0
  <2>1. 1 \in 1 .. 5 /\ 1 .. 1 - 1 = {}
    OBVIOUS
  <2> QED BY <1>1, <2>1
<1>2. CASE v[1] # 0 /\ v[2] = 0
  <2>1. 2 \in 1 .. 5 /\ \A j \in 1 .. 2 - 1 : j = 1
    OBVIOUS
  <2> QED BY <1>2, <2>1
<1>3. CASE v[1] # 0 /\ v[2] # 0 /\ v[3] = 0
  <2>1. 3 \in 1 .. 5 /\ \A j \in 1 .. 3 - 1 : j = 1 \/ j = 2
    OBVIOUS
  <2> QED BY <1>3, <2>1
<1>4. CASE v[1] # 0 /\ v[2] # 0 /\ v[3] # 0 /\ v[4] = 0
  <2>1. 4 \in 1 .. 5 /\ \A j \in 1 .. 4 - 1 : j = 1 \/ j = 2 \/ j = 3
    OBVIOUS
  <2> QED BY <1>4, <2>1
<1>5. CASE v[1] # 0 /\ v[2] # 0 /\ v[3] # 0 /\ v[4] # 0
  <2>1. 5 \in 1 .. 5 /\ \A j \in 1 .. 5 - 1 : j = 1 \/ j = 2 \/ j = 3 \/ j = 4
    OBVIOUS
  <2> QED BY <1>5, <2>1
<1> QED BY <1>1, <1>2, <1>3, <1>4, <1>5

LEMMA LebIs == ASSUME NEW n \in Nat PROVE \E v, size : Digits(n, v, size)
<1> DEFINE val == CHOOSE v : Shifts(n, v)
           size == CHOOSE k \in 1 .. 5 : /\ val[k] = 0 \/ k = 5
                                         /\ \A j \in 1 .. k - 1 : val[j] # 0
           bytesOf == [k \in 1 .. size |-> (val[k - 1] % 128) + (IF k < size THEN 128 ELSE 0)]
<1>1. Shifts(n, val)
  BY ShiftsExist
<1>2. Leb(n) = bytesOf
  BY DEF Leb, Shifts
<1> HIDE DEF val
<1>3. /\ val[0] = n /\ \A k \in 1 .. 5 : val[k] = val[k - 1] \div 128
      /\ \A k \in 0 .. 5 : val[k] \in Nat
  BY <1>1, ShiftsEquations
<1>4. size \in 1 .. 5 /\ (val[size] = 0 \/ size = 5)
  BY TurnsExist
<1> HIDE DEF size
<1>5. bytesOf \in [1 .. size -> Nat]
  <2> SUFFICES ASSUME NEW k \in 1 .. size
               PROVE  (val[k - 1] % 128) + (IF k < size THEN 128 ELSE 0) \in Nat
    OBVIOUS
  <2>1. k - 1 \in 0 .. 5
    BY <1>4
  <2>2. val[k - 1] \in Nat
    BY <1>3, <2>1
  <2> QED BY <2>2
<1>6. bytesOf \in Seq(Nat) /\ Len(bytesOf) = size
  <2> HIDE DEF bytesOf
  <2> QED BY <1>4, <1>5, CountedSeq
<1>7. \A k \in 1 .. size : bytesOf[k] = (val[k - 1] % 128) + (IF k < size THEN 128 ELSE 0)
  OBVIOUS
<1> HIDE DEF bytesOf
<1>8. Digits(n, val, size)
  BY <1>2, <1>3, <1>4, <1>6, <1>7 DEF Digits
<1> QED BY <1>8

LEMMA LebType == ASSUME NEW n \in Nat PROVE Leb(n) \in Seq(Nat) /\ Len(Leb(n)) \in 1 .. 5
  BY LebIs DEF Digits

\* Of a u32, five turns leave nothing.
LEMMA NothingLeft ==
    ASSUME NEW n, IsU32(n), NEW v, NEW size, Digits(n, v, size)
    PROVE  n \in Nat /\ v[size] = 0
<1>1. n \in Nat /\ n < 4294967296
  BY DEF IsU32
<1>2. /\ v[0] = n /\ v[1] = v[0] \div 128 /\ v[2] = v[1] \div 128 /\ v[3] = v[2] \div 128
      /\ v[4] = v[3] \div 128 /\ v[5] = v[4] \div 128
      /\ v[0] \in Nat /\ v[1] \in Nat /\ v[2] \in Nat /\ v[3] \in Nat /\ v[4] \in Nat /\ v[5] \in Nat
  BY DEF Digits
<1>3. v[1] < 33554432 /\ v[2] < 262144 /\ v[3] < 2048 /\ v[4] < 16
  BY <1>1, <1>2
<1>4. v[5] = 0
  BY <1>2, <1>3
<1> QED BY <1>1, <1>4 DEF Digits

\* Every byte but the last announces another.
LEMMA LebBytes ==
    ASSUME NEW n \in Nat, NEW v, NEW size, Digits(n, v, size), NEW k \in 1 .. size
    PROVE  /\ k < size => Leb(n)[k] >= 128
           /\ k = size => Leb(n)[k] < 128
           /\ Leb(n)[k] \in 0 .. 255
           /\ v[k - 1] \in Nat /\ v[k] = v[k - 1] \div 128
           /\ Leb(n)[k] % 128 = v[k - 1] % 128
<1>0. size \in 1 .. 5
  BY DEF Digits
<1>1. k - 1 \in 0 .. 5 /\ k \in 1 .. 5
  BY <1>0
<1>2. /\ v[k - 1] \in Nat /\ v[k] = v[k - 1] \div 128
      /\ Leb(n)[k] = (v[k - 1] % 128) + (IF k < size THEN 128 ELSE 0)
  BY <1>1 DEF Digits
<1>3. PICK x, b : x \in Nat /\ x = v[k - 1] /\ b = Leb(n)[k]
  BY <1>2
<1>4. (k < size => b = (x % 128) + 128) /\ (k = size => b = x % 128)
  BY <1>0, <1>2, <1>3
<1>5. k < size \/ k = size
  BY <1>0
<1>6. x % 128 \in 0 .. 127 /\ ((x % 128) + 128) % 128 = x % 128 /\ (x % 128) % 128 = x % 128
  BY <1>3
<1>7. (k < size => b >= 128) /\ (k = size => b < 128) /\ b \in 0 .. 255
  BY <1>0, <1>4, <1>5, <1>6
<1>8. b % 128 = x % 128
  BY <1>4, <1>5, <1>6
<1> QED BY ONLY <1>2, <1>3, <1>7, <1>8

LEMMA IntervalCount == ASSUME NEW n \in Nat PROVE Cardinality(1 .. n) = n
  BY FS_Interval

\* The reader stops behind the first byte that announces no other ...
LEMMA LengthWhole ==
    ASSUME NEW s \in Seq(Nat), NEW n \in 1 .. 5, n <= Len(s),
           \A k \in 1 .. n - 1 : s[k] >= 128, s[n] < 128
    PROVE  LebLength(s) = n
<1> DEFINE m == IF Len(s) < 5 THEN Len(s) ELSE 5
           S == {k \in 1 .. m : \A j \in 1 .. k - 1 : s[j] >= 128}
<1>1. m \in Nat /\ n <= m
  OBVIOUS
<1>2. ASSUME NEW k \in 1 .. n PROVE k \in S
  BY <1>1
<1>3. ASSUME NEW k \in S PROVE k \in 1 .. n
  <2> SUFFICES ASSUME k > n PROVE FALSE
    BY <1>1
  <2>1. n \in 1 .. k - 1
    BY <1>1
  <2>2. s[n] >= 128 /\ s[n] \in Nat
    BY <2>1
  <2> QED BY <2>2
<1>4. S = 1 .. n
  BY <1>2, <1>3
<1>5. LebLength(s) = Cardinality(S)
  BY DEF LebLength
<1>6. n \in Nat
  OBVIOUS
<1> HIDE DEF S
<1> QED BY ONLY <1>4, <1>5, <1>6, IntervalCount

\* ... or at the end.
LEMMA LengthShort ==
    ASSUME NEW s \in Seq(Nat), Len(s) < 5, \A k \in 1 .. Len(s) : s[k] >= 128
    PROVE  LebLength(s) = Len(s)
<1>1. {k \in 1 .. Len(s) : \A j \in 1 .. k - 1 : s[j] >= 128} = 1 .. Len(s)
  OBVIOUS
<1>2. LebLength(s) = Cardinality(1 .. Len(s))
  BY <1>1 DEF LebLength
<1> QED BY <1>2, IntervalCount

ValueBy(s, n, m, f) ==
    f = [k \in 0 .. m |-> IF k = 0 THEN 0 ELSE (s[n + 1 - k] % 128) + 128 * f[k - 1]]

ValueOneByOne(s, n, m, f) ==
    f[0] = 0 /\ \A k \in 1 .. m : f[k] = (s[n + 1 - k] % 128) + 128 * f[k - 1]

LEMMA ValueEquations ==
    ASSUME NEW s, NEW n \in Nat, NEW m \in Nat, NEW f, ValueBy(s, n, m, f)
    PROVE  ValueOneByOne(s, n, m, f)
<1> DEFINE h == [k \in 0 .. m |-> IF k = 0 THEN 0 ELSE (s[n + 1 - k] % 128) + 128 * f[k - 1]]
<1>1. f = h
  BY DEF ValueBy
<1>2. h[0] = 0 /\ \A k \in 1 .. m : h[k] = (s[n + 1 - k] % 128) + 128 * f[k - 1]
  <2>1. h[0] = 0
    OBVIOUS
  <2>2. ASSUME NEW k \in 1 .. m PROVE h[k] = (s[n + 1 - k] % 128) + 128 * f[k - 1]
    <3>1. k \in 0 .. m /\ k # 0
      OBVIOUS
    <3> QED BY <3>1
  <2> QED BY <2>1, <2>2
<1> HIDE DEF h
<1>3. f[0] = h[0] /\ \A k \in 1 .. m : f[k] = h[k]
  BY <1>1
<1> QED BY <1>2, <1>3 DEF ValueOneByOne

LEMMA ValueExists == ASSUME NEW s, NEW n \in Nat, NEW m \in Nat PROVE \E f : ValueBy(s, n, m, f)
<1> DEFINE N == {l \in Nat : \E f : ValueBy(s, n, l, f)}
<1>1. 0 \in N
  <2>1. ValueBy(s, n, 0, [k \in 0 .. 0 |-> 0])
    BY DEF ValueBy
  <2> QED BY <2>1
<1>2. ASSUME NEW l \in N PROVE l + 1 \in N
  <2>1. PICK f : ValueBy(s, n, l, f)
    OBVIOUS
  <2>2. l \in Nat
    OBVIOUS
  <2>3. f[0] = 0 /\ \A k \in 1 .. l : f[k] = (s[n + 1 - k] % 128) + 128 * f[k - 1]
    <3>1. ValueOneByOne(s, n, l, f)
      BY <2>1, <2>2, ValueEquations
    <3> QED BY ONLY <3>1 DEF ValueOneByOne
  <2> DEFINE g == [k \in 0 .. l + 1 |-> IF k <= l THEN f[k]
                                        ELSE (s[n + 1 - k] % 128) + 128 * f[k - 1]]
             h == [k \in 0 .. l + 1 |-> IF k = 0 THEN 0
                                        ELSE (s[n + 1 - k] % 128) + 128 * g[k - 1]]
  <2>4. (\A k \in 0 .. l : g[k] = f[k]) /\ g[l + 1] = (s[n + 1 - (l + 1)] % 128) + 128 * f[l]
    OBVIOUS
  <2>5. ASSUME NEW k \in 0 .. l + 1 PROVE g[k] = h[k]
    <3> HIDE DEF g
    <3>1. CASE k = 0
      BY <2>3, <2>4, <3>1
    <3>2. CASE k \in 1 .. l
      <4>1. k \in 0 .. l /\ k - 1 \in 0 .. l /\ k # 0
        BY <2>2, <3>2
      <4>2. h[k] = (s[n + 1 - k] % 128) + 128 * g[k - 1]
        BY <4>1
      <4> QED BY <2>3, <2>4, <3>2, <4>1, <4>2
    <3>3. CASE k = l + 1
      <4>1. k # 0 /\ k - 1 = l /\ l \in 0 .. l
        BY <2>2, <3>3
      <4>2. h[k] = (s[n + 1 - k] % 128) + 128 * g[k - 1]
        BY <4>1
      <4> QED BY <2>4, <3>3, <4>1, <4>2
    <3> QED BY <3>1, <3>2, <3>3
  <2>6. g = h
    BY <2>5
  <2>7. ValueBy(s, n, l + 1, g)
    BY <2>6 DEF ValueBy
  <2> QED BY <2>7
<1>3. N = Nat
  BY <1>1, <1>2, NatSetInduction
<1> QED BY <1>3

LEMMA LebValueIs ==
    ASSUME NEW s, NEW n \in Nat, LebLength(s) = n
    PROVE  \E f : ValueOneByOne(s, n, n, f) /\ LebValue(s) = f[n]
<1>1. PICK f : ValueBy(s, n, n, f) /\ LebValue(s) = f[n]
  <2>1. \E f : ValueBy(s, n, n, f)
    BY ValueExists
  <2>2. LebValue(s) = (CHOOSE f : ValueBy(s, n, n, f))[n]
    BY DEF ValueBy, LebValue
  <2> QED BY <2>1, <2>2
<1>2. ValueOneByOne(s, n, n, f)
  BY <1>1, ValueEquations
<1> QED BY <1>1, <1>2

LEMMA LebValueType ==
    ASSUME NEW s \in Seq(Nat), NEW n \in Nat, LebLength(s) = n, n <= Len(s)
    PROVE  LebValue(s) \in Nat
<1>1. PICK f : ValueOneByOne(s, n, n, f) /\ LebValue(s) = f[n]
  BY LebValueIs
<1>2. f[0] = 0 /\ \A k \in 1 .. n : f[k] = (s[n + 1 - k] % 128) + 128 * f[k - 1]
  BY <1>1 DEF ValueOneByOne
<1> DEFINE N == {k \in Nat : k <= n => f[k] \in Nat}
<1>3. 0 \in N
  BY <1>2
<1>4. ASSUME NEW k \in N PROVE k + 1 \in N
  <2> SUFFICES ASSUME k + 1 <= n PROVE f[k + 1] \in Nat
    OBVIOUS
  <2>1. k \in Nat /\ k + 1 \in 1 .. n /\ (k + 1) - 1 = k /\ f[k] \in Nat
    OBVIOUS
  <2>2. f[k + 1] = (s[n + 1 - (k + 1)] % 128) + 128 * f[k]
    BY ONLY <1>2, <2>1
  <2>3. n + 1 - (k + 1) \in 1 .. Len(s)
    BY <2>1
  <2>4. s[n + 1 - (k + 1)] \in Nat
    BY <2>3
  <2> QED BY <2>1, <2>2, <2>4
<1>5. n \in N
  <2>1. N = Nat
    BY <1>3, <1>4, NatSetInduction
  <2> QED BY <2>1
<1> QED BY <1>1, <1>5

\* Bytes that begin as the code of n does are read as n.
LEMMA LebReads ==
    ASSUME NEW n, IsU32(n), NEW s \in Seq(Nat), Len(Leb(n)) <= Len(s),
           \A k \in 1 .. Len(Leb(n)) : s[k] = Leb(n)[k]
    PROVE  LebLength(s) = Len(Leb(n)) /\ LebValue(s) = n
<1>0. n \in Nat
  BY DEF IsU32
<1>1. PICK v, size : Digits(n, v, size)
  BY <1>0, LebIs
<1>2. size \in 1 .. 5 /\ Len(Leb(n)) = size /\ v[0] = n
  BY <1>1 DEF Digits
<1>3. ASSUME NEW k \in 1 .. size
      PROVE  /\ k < size => s[k] >= 128
             /\ k = size => s[k] < 128
             /\ v[k - 1] \in Nat /\ v[k] = v[k - 1] \div 128
             /\ s[k] % 128 = v[k - 1] % 128
  <2>1. s[k] = Leb(n)[k]
    BY <1>2
  <2> QED BY <1>0, <1>1, <2>1, LebBytes
<1>4. LebLength(s) = size
  <2>1. size \in 1 .. size /\ \A k \in 1 .. size - 1 : k \in 1 .. size /\ k < size
    BY <1>2
  <2> QED BY <1>2, <1>3, <2>1, LengthWhole
<1>5. PICK f : ValueOneByOne(s, size, size, f) /\ LebValue(s) = f[size]
  BY <1>2, <1>4, LebValueIs
<1>6. f[0] = 0 /\ \A k \in 1 .. size : f[k] = (s[size + 1 - k] % 128) + 128 * f[k - 1]
  BY <1>5 DEF ValueOneByOne
<1> DEFINE N == {k \in Nat : k <= size => f[k] = v[size - k]}
<1>7. 0 \in N
  <2>1. size - 0 = size /\ v[size] = 0
    BY <1>1, <1>2, NothingLeft
  <2> QED BY <1>6, <2>1
<1>8. ASSUME NEW k \in N PROVE k + 1 \in N
  <2> SUFFICES ASSUME k + 1 <= size PROVE f[k + 1] = v[size - (k + 1)]
    OBVIOUS
  <2>0. k \in Nat /\ size \in Nat /\ k + 1 <= size
    BY <1>2
  <2>1. /\ k \in Nat /\ k + 1 \in 1 .. size /\ (k + 1) - 1 = k /\ f[k] = v[size - k]
        /\ size + 1 - (k + 1) = size - k /\ size - k \in 1 .. size
        /\ (size - k) - 1 = size - (k + 1)
    <3>1. /\ k + 1 \in 1 .. size /\ (k + 1) - 1 = k /\ k <= size
          /\ size + 1 - (k + 1) = size - k /\ size - k \in 1 .. size
          /\ (size - k) - 1 = size - (k + 1)
      BY ONLY <2>0
    <3> QED BY <2>0, <3>1
  <2>2. f[k + 1] = (s[size - k] % 128) + 128 * f[k]
    BY ONLY <1>6, <2>1
  <2>3. PICK x \in Nat : x = v[size - (k + 1)] /\ v[size - k] = x \div 128
                         /\ s[size - k] % 128 = x % 128
    BY <1>3, <2>1
  <2>4. (x % 128) + 128 * (x \div 128) = x
    OBVIOUS
  <2> QED BY <2>1, <2>2, <2>3, <2>4
<1>9. size \in N
  <2>1. N = Nat
    BY <1>7, <1>8, NatSetInduction
  <2> QED BY <1>2, <2>1
<1>10. f[size] = v[0]
  <2>1. size - size = 0 /\ size <= size
    BY <1>2
  <2> QED BY <1>9, <2>1
<1> QED BY <1>2, <1>4, <1>5, <1>10

\* Of a code that was cut short all is taken.
LEMMA LebCut ==
    ASSUME NEW n \in Nat, NEW s \in Seq(Nat), Len(s) < Len(Leb(n)),
           \A k \in 1 .. Len(s) : s[k] = Leb(n)[k]
    PROVE  LebLength(s) = Len(s) /\ LebValue(s) \in Nat
<1>1. PICK v, size : Digits(n, v, size)
  BY LebIs
<1>2. size \in 1 .. 5 /\ Len(Leb(n)) = size
  BY <1>1 DEF Digits
<1>3. ASSUME NEW k \in 1 .. Len(s) PROVE s[k] >= 128
  <2>1. k \in 1 .. size /\ k < size
    BY <1>2
  <2> QED BY <1>1, <2>1, LebBytes
<1>4. LebLength(s) = Len(s)
  BY <1>2, <1>3, LengthShort
<1> QED BY <1>4, LebValueType

-----------------------------------------------------------------------------
(***************************************************************************)
(* Value types and their bytes.                                            *)
(***************************************************************************)

LEMMA NameIs == \A n \in NameLength : IsU32(n) /\ n \in Nat
  BY NumberAssumption DEF IsU32

LEMMA CountedType ==
    ASSUME NEW s \in Seq(Nat)
    PROVE  Counted(s) \in Seq(Nat) /\ Len(Counted(s)) = Len(Leb(Len(s))) + Len(s)
<1>1. Len(s) \in Nat
  OBVIOUS
<1>2. Leb(Len(s)) \in Seq(Nat)
  BY <1>1, LebType
<1> QED BY <1>2, Joined DEF Counted

LEMMA LettersType == ASSUME NEW n \in Nat PROVE Letters(n) \in Seq(Nat) /\ Len(Letters(n)) = n
<1>1. Letters(n) \in [1 .. n -> Nat]
  BY DEF Letters
<1> QED BY <1>1, CountedSeq

LEMMA TextType == ASSUME NEW n \in NameLength PROVE Text(n) \in Seq(Nat)
  BY NameIs, LettersType, CountedType DEF Text

LEMMA ListedType == ASSUME NEW s \in Seq(Seq(Nat)) PROVE Listed(s) \in Seq(Nat)
<1>1. Len(s) \in Nat
  OBVIOUS
<1>2. Leb(Len(s)) \in Seq(Nat)
  BY <1>1, LebType
<1> QED BY <1>2, ConcatType, Joined DEF Listed

LEMMA ByteType == ASSUME NEW b \in Nat PROVE <<b>> \in Seq(Nat) /\ Len(<<b>>) = 1 /\ <<b>>[1] = b
  OBVIOUS

LEMMA OptionalType ==
    ASSUME NEW e, NEW t, t # Absent => e[t] \in Seq(Nat)
    PROVE  Optional(e, t) \in Seq(Nat)
<1>1. CASE t = Absent
  <2>1. Optional(e, t) = <<0>>
    BY <1>1 DEF Optional
  <2> QED BY <2>1, ByteType
<1>2. CASE t # Absent
  <2>1. Optional(e, t) = <<1>> \o e[t]
    BY <1>2 DEF Optional
  <2> QED BY <1>2, <2>1, ByteType, Joined
<1> QED BY <1>1, <1>2

\* The bytes of each kind of type.
Elements(e, t) == [k \in DOMAIN t.inner |-> e[t.inner[k]]]
Fields(e, t) == [k \in DOMAIN t.inner |-> Text(t.names[k]) \o e[t.inner[k]]]
Alternatives(e, t) == [k \in DOMAIN t.inner |-> Text(t.names[k]) \o Optional(e, t.inner[k])]
Labels(t) == [k \in DOMAIN t.names |-> Text(t.names[k])]

LEMMA BytesOfKind ==
    ASSUME NEW e, NEW t
    PROVE  /\ t.kind = "primitive" => ValBytes(e, t) = <<t.op>>
           /\ t.kind = "wrapper" => ValBytes(e, t) = <<t.op>> \o e[t.inner[1]]
           /\ t.kind = "result" => ValBytes(e, t) = <<t.op>> \o Optional(e, t.inner[1])
                                                             \o Optional(e, t.inner[2])
           /\ t.kind = "tuple" => ValBytes(e, t) = <<t.op>> \o Listed(Elements(e, t))
           /\ t.kind = "record" => ValBytes(e, t) = <<t.op>> \o Listed(Fields(e, t))
           /\ t.kind = "variant" => ValBytes(e, t) = <<t.op>> \o Listed(Alternatives(e, t))
           /\ t.kind = "flags" => ValBytes(e, t) = <<t.op>> \o Listed(Labels(t))
           /\ t.kind = "handle" => ValBytes(e, t) = <<t.op>> \o Leb(t.index)
           /\ t.kind = "ref" => ValBytes(e, t) = Leb(t.index)
  BY Zenon DEF ValBytes, Elements, Fields, Alternatives, Labels

Kinds == {"primitive", "wrapper", "result", "tuple", "record", "variant", "flags", "handle", "ref"}

\* What IsValType says of a type's parts.
LEMMA PartsOf ==
    ASSUME NEW B, Absent \notin B, NEW t, IsValType(t, B)
    PROVE  /\ t.kind \in Kinds /\ t.op \in 0 .. 127 /\ t.index \in Nat /\ IsU32(t.index)
           /\ t.names \in Seq(NameLength) /\ t.inner \in Seq(B \union {Absent})
           /\ IsU32(Len(t.names)) /\ IsU32(Len(t.inner))
           /\ t.kind \notin {"result", "variant"} => t.inner \in Seq(B)
           /\ t.kind \in {"primitive", "flags", "handle", "ref"} => t.inner = <<>>
           /\ t.kind \notin {"record", "variant", "flags"} => t.names = <<>>
           /\ t.kind \notin {"handle", "ref"} => t.index = 0
           /\ t.kind = "wrapper" => Len(t.inner) = 1 /\ t.inner[1] \in B
           /\ t.kind = "result" => Len(t.inner) = 2
           /\ t.kind \in {"record", "variant"} => Len(t.names) = Len(t.inner)
<1>1. DOMAIN Opcode = Kinds
  BY DEF Opcode, Kinds
<1>2. /\ t.kind \in Kinds /\ t.op \in 0 .. 127 /\ t.index \in Nat
      /\ t.names \in Seq(NameLength) /\ t.inner \in Seq(B \union {Absent})
  BY <1>1 DEF IsValType
<1>3. t.kind = "wrapper" => Len(t.inner) = 1 /\ t.inner \in Seq(B)
  BY DEF IsValType
<1>4. t.kind = "wrapper" => t.inner[1] \in B
  BY <1>3
<1> QED BY <1>2, <1>3, <1>4 DEF IsValType

\* Types inside, one by one.
LEMMA InnerOf ==
    ASSUME NEW B, Absent \notin B, NEW t, IsValType(t, B)
    PROVE  /\ Len(t.inner) \in Nat /\ DOMAIN t.inner = 1 .. Len(t.inner)
           /\ Len(t.names) \in Nat /\ DOMAIN t.names = 1 .. Len(t.names)
           /\ \A k \in DOMAIN t.inner : t.inner[k] \in B \/ t.inner[k] = Absent
           /\ t.kind \notin {"result", "variant"} => \A k \in DOMAIN t.inner : t.inner[k] \in B
           /\ \A k \in DOMAIN t.names : t.names[k] \in NameLength
           /\ t.kind \in {"record", "variant"} => DOMAIN t.names = DOMAIN t.inner
<1>1. PICK s \in Seq(B \union {Absent}), names \in Seq(NameLength) : s = t.inner /\ names = t.names
  BY PartsOf
<1>2. /\ Len(s) \in Nat /\ DOMAIN s = 1 .. Len(s) /\ Len(names) \in Nat /\ DOMAIN names = 1 .. Len(names)
      /\ \A k \in DOMAIN s : s[k] \in B \union {Absent}
      /\ \A k \in DOMAIN names : names[k] \in NameLength
  OBVIOUS
<1>3. t.kind \notin {"result", "variant"} => s \in Seq(B)
  BY <1>1, PartsOf
<1>4. t.kind \notin {"result", "variant"} => \A k \in DOMAIN s : s[k] \in B
  BY <1>3
<1> QED BY <1>1, <1>2, <1>4, PartsOf

\* Only the types inside count.
LEMMA BytesSame ==
    ASSUME NEW B, Absent \notin B, NEW t, IsValType(t, B),
           NEW e, NEW f, \A x \in B : e[x] = f[x]
    PROVE  ValBytes(e, t) = ValBytes(f, t)
<1>1. \A x \in B \union {Absent} : Optional(e, x) = Optional(f, x)
  BY DEF Optional
<1>2. CASE t.kind \in {"primitive", "flags", "handle", "ref"}
  BY <1>2, BytesOfKind
<1>3. CASE t.kind = "wrapper"
  <2>1. t.inner[1] \in B
    BY <1>3, PartsOf
  <2>2. e[t.inner[1]] = f[t.inner[1]]
    BY <2>1
  <2> QED BY ONLY <1>3, <2>2, BytesOfKind
<1>4. CASE t.kind = "result"
  <2>1. \A k \in DOMAIN t.inner : t.inner[k] \in B \union {Absent}
    BY InnerOf
  <2>2. DOMAIN t.inner = 1 .. 2
    <3>1. Len(t.inner) = 2
      BY <1>4, PartsOf
    <3>2. DOMAIN t.inner = 1 .. Len(t.inner)
      BY InnerOf
    <3> QED BY ONLY <3>1, <3>2
  <2>3. t.inner[1] \in B \union {Absent} /\ t.inner[2] \in B \union {Absent}
    BY <2>1, <2>2
  <2>4. Optional(e, t.inner[1]) = Optional(f, t.inner[1]) /\ Optional(e, t.inner[2]) = Optional(f, t.inner[2])
    BY <1>1, <2>3
  <2> QED BY ONLY <1>4, <2>4, BytesOfKind
<1>5. CASE t.kind = "tuple"
  <2>1. Elements(e, t) = Elements(f, t)
    BY <1>5, InnerOf DEF Elements
  <2> QED BY <1>5, <2>1, BytesOfKind
<1>6. CASE t.kind = "record"
  <2>1. Fields(e, t) = Fields(f, t)
    BY <1>6, InnerOf DEF Fields
  <2> QED BY <1>6, <2>1, BytesOfKind
<1>7. CASE t.kind = "variant"
  <2>1. Alternatives(e, t) = Alternatives(f, t)
    BY <1>1, <1>7, InnerOf DEF Alternatives
  <2> QED BY <1>7, <2>1, BytesOfKind
<1> QED BY <1>2, <1>3, <1>4, <1>5, <1>6, <1>7, PartsOf DEF Kinds

LEMMA PieceTypes ==
    ASSUME NEW B, Absent \notin B, NEW t, IsValType(t, B),
           NEW e, \A x \in B : e[x] \in Seq(Nat)
    PROVE  /\ t.kind = "tuple" => Elements(e, t) \in Seq(Seq(Nat)) /\ Len(Elements(e, t)) = Len(t.inner)
           /\ t.kind = "record" => Fields(e, t) \in Seq(Seq(Nat)) /\ Len(Fields(e, t)) = Len(t.inner)
           /\ t.kind = "variant" =>
                 Alternatives(e, t) \in Seq(Seq(Nat)) /\ Len(Alternatives(e, t)) = Len(t.inner)
           /\ Labels(t) \in Seq(Seq(Nat)) /\ Len(Labels(t)) = Len(t.names)
<1>1. PICK n \in Nat, m \in Nat : /\ n = Len(t.inner) /\ DOMAIN t.inner = 1 .. n
                                  /\ m = Len(t.names) /\ DOMAIN t.names = 1 .. m
  BY InnerOf
<1>2. ASSUME t.kind = "tuple" PROVE Elements(e, t) \in Seq(Seq(Nat)) /\ Len(Elements(e, t)) = n
  <2>1. \A k \in 1 .. n : e[t.inner[k]] \in Seq(Nat)
    BY <1>1, <1>2, InnerOf
  <2>2. Elements(e, t) \in [1 .. n -> Seq(Nat)]
    BY <1>1, <2>1 DEF Elements
  <2> QED BY ONLY <1>1, <2>2, CountedSeq
<1>3. ASSUME t.kind = "record" PROVE Fields(e, t) \in Seq(Seq(Nat)) /\ Len(Fields(e, t)) = n
  <2>1. \A k \in 1 .. n : t.names[k] \in NameLength /\ e[t.inner[k]] \in Seq(Nat)
    BY <1>1, <1>3, InnerOf
  <2>2. ASSUME NEW k \in 1 .. n PROVE Text(t.names[k]) \o e[t.inner[k]] \in Seq(Nat)
    <3>1. Text(t.names[k]) \in Seq(Nat) /\ e[t.inner[k]] \in Seq(Nat)
      BY <2>1, TextType
    <3> QED BY ONLY <3>1, Joined
  <2>3. Fields(e, t) \in [1 .. n -> Seq(Nat)]
    BY <1>1, <2>2 DEF Fields
  <2> QED BY ONLY <1>1, <2>3, CountedSeq
<1>4. ASSUME t.kind = "variant"
      PROVE  Alternatives(e, t) \in Seq(Seq(Nat)) /\ Len(Alternatives(e, t)) = n
  <2>1. \A k \in 1 .. n : t.names[k] \in NameLength /\ (t.inner[k] # Absent => t.inner[k] \in B)
    BY <1>1, <1>4, InnerOf
  <2>2. \A k \in 1 .. n : Optional(e, t.inner[k]) \in Seq(Nat)
    BY <2>1, OptionalType
  <2>3. ASSUME NEW k \in 1 .. n PROVE Text(t.names[k]) \o Optional(e, t.inner[k]) \in Seq(Nat)
    <3>1. Text(t.names[k]) \in Seq(Nat) /\ Optional(e, t.inner[k]) \in Seq(Nat)
      BY <2>1, <2>2, TextType
    <3> QED BY ONLY <3>1, Joined
  <2>4. Alternatives(e, t) \in [1 .. n -> Seq(Nat)]
    BY <1>1, <2>3 DEF Alternatives
  <2> QED BY ONLY <1>1, <2>4, CountedSeq
<1>5. Labels(t) \in Seq(Seq(Nat)) /\ Len(Labels(t)) = m
  <2>1. \A k \in 1 .. m : t.names[k] \in NameLength
    BY <1>1, InnerOf
  <2>2. \A k \in 1 .. m : Text(t.names[k]) \in Seq(Nat)
    BY <2>1, TextType
  <2>3. Labels(t) \in [1 .. m -> Seq(Nat)]
    BY <1>1, <2>2 DEF Labels
  <2> QED BY <2>3, CountedSeq
<1> QED BY ONLY <1>1, <1>2, <1>3, <1>4, <1>5

LEMMA BytesType ==
    ASSUME NEW B, Absent \notin B, NEW t, IsValType(t, B),
           NEW e, \A x \in B : e[x] \in Seq(Nat)
    PROVE  ValBytes(e, t) \in Seq(Nat)
<1>0. t.op \in Nat /\ t.index \in Nat
  <2>1. t.op \in 0 .. 127 /\ t.index \in Nat
    BY PartsOf
  <2> QED BY ONLY <2>1
<1>1. <<t.op>> \in Seq(Nat) /\ Leb(t.index) \in Seq(Nat)
  BY ONLY <1>0, ByteType, LebType
<1>2. CASE t.kind \in {"primitive", "handle", "ref"}
  <2>1. CASE t.kind = "primitive"
    BY ONLY <1>1, <2>1, BytesOfKind
  <2>2. CASE t.kind = "handle"
    <3>1. ValBytes(e, t) = <<t.op>> \o Leb(t.index)
      BY ONLY <2>2, BytesOfKind
    <3> QED BY ONLY <1>1, <3>1, Joined
  <2>3. CASE t.kind = "ref"
    BY ONLY <1>1, <2>3, BytesOfKind
  <2> QED BY <1>2, <2>1, <2>2, <2>3
<1>3. CASE t.kind = "wrapper"
  <2>1. t.inner[1] \in B
    BY <1>3, PartsOf
  <2>2. e[t.inner[1]] \in Seq(Nat)
    BY <2>1
  <2>3. ValBytes(e, t) = <<t.op>> \o e[t.inner[1]]
    BY ONLY <1>3, BytesOfKind
  <2> QED BY ONLY <1>1, <2>2, <2>3, Joined
<1>4. CASE t.kind = "result"
  <2>0. DOMAIN t.inner = 1 .. 2 /\ \A k \in DOMAIN t.inner : t.inner[k] \in B \/ t.inner[k] = Absent
    <3>1. Len(t.inner) = 2
      BY <1>4, PartsOf
    <3>2. /\ DOMAIN t.inner = 1 .. Len(t.inner)
          /\ \A k \in DOMAIN t.inner : t.inner[k] \in B \/ t.inner[k] = Absent
      BY InnerOf
    <3> QED BY ONLY <3>1, <3>2
  <2>1. \A k \in {1, 2} : t.inner[k] # Absent => t.inner[k] \in B
    BY <2>0
  <2>2. Optional(e, t.inner[1]) \in Seq(Nat) /\ Optional(e, t.inner[2]) \in Seq(Nat)
    BY <2>1, OptionalType
  <2>3. <<t.op>> \o Optional(e, t.inner[1]) \in Seq(Nat)
    BY <1>1, <2>2, Joined
  <2>4. ValBytes(e, t) = <<t.op>> \o Optional(e, t.inner[1]) \o Optional(e, t.inner[2])
    BY ONLY <1>4, BytesOfKind
  <2> QED BY ONLY <2>2, <2>3, <2>4, Joined
<1>5. CASE t.kind \in {"tuple", "record", "variant", "flags"}
  <2>1. /\ t.kind = "tuple" => Listed(Elements(e, t)) \in Seq(Nat)
        /\ t.kind = "record" => Listed(Fields(e, t)) \in Seq(Nat)
        /\ t.kind = "variant" => Listed(Alternatives(e, t)) \in Seq(Nat)
        /\ t.kind = "flags" => Listed(Labels(t)) \in Seq(Nat)
    BY PieceTypes, ListedType
  <2>2. PICK s \in Seq(Nat) : ValBytes(e, t) = <<t.op>> \o s
    BY <1>5, <2>1, BytesOfKind
  <2> QED BY ONLY <1>1, <2>2, Joined
<1> QED BY <1>2, <1>3, <1>4, <1>5, PartsOf DEF Kinds

\* Layers, whatever they are layers of.
AllOf(layers) == UNION {layers[d] : d \in DOMAIN layers}

LEMMA LayersGrow ==
    ASSUME NEW S, NEW layers \in Seq(SUBSET S), NEW n \in Nat, n = Len(layers)
    PROVE  /\ Before(layers, 1) = {}
           /\ \A d \in 1 .. n : Before(layers, d + 1) = Before(layers, d) \union layers[d]
           /\ Before(layers, n + 1) = AllOf(layers)
           /\ \A d \in 1 .. n + 1 : Before(layers, d) \subseteq AllOf(layers)
           /\ \A d \in 1 .. n + 1 : \A t \in Before(layers, d) :
                 \E c \in 1 .. n : t \in layers[c] /\ Before(layers, c) \subseteq Before(layers, d)
<1>1. DOMAIN layers = 1 .. n
  OBVIOUS
<1>2. Before(layers, 1) = {}
  BY DEF Before
<1>3. ASSUME NEW d \in 1 .. n
      PROVE  Before(layers, d + 1) = Before(layers, d) \union layers[d]
  <2>1. \A c \in Nat : c \in 1 .. (d + 1) - 1 <=> c \in 1 .. d - 1 \/ c = d
    OBVIOUS
  <2>2. \A c : c \in 1 .. (d + 1) - 1 => c \in Nat
    OBVIOUS
  <2> QED BY <2>1, <2>2 DEF Before
<1>4. Before(layers, n + 1) = AllOf(layers)
  <2>1. (n + 1) - 1 = n
    OBVIOUS
  <2> QED BY <1>1, <2>1 DEF Before, AllOf
<1>5. \A d \in 1 .. n + 1 : 1 .. d - 1 \subseteq 1 .. n
  OBVIOUS
<1>6. ASSUME NEW d \in 1 .. n + 1
      PROVE  Before(layers, d) \subseteq AllOf(layers)
  BY <1>1, <1>5 DEF Before, AllOf
<1>7. ASSUME NEW d \in 1 .. n + 1, NEW t \in Before(layers, d)
      PROVE  \E c \in 1 .. n : t \in layers[c] /\ Before(layers, c) \subseteq Before(layers, d)
  <2>1. PICK c \in 1 .. d - 1 : t \in layers[c]
    BY DEF Before
  <2>2. c \in 1 .. n /\ 1 .. c - 1 \subseteq 1 .. d - 1
    OBVIOUS
  <2>3. Before(layers, c) \subseteq Before(layers, d)
    BY <2>2 DEF Before
  <2> QED BY <2>1, <2>2, <2>3
<1> QED BY <1>2, <1>3, <1>4, <1>6, <1>7

LEMMA ValTypeWidened ==
    ASSUME NEW B, NEW C, B \subseteq C, NEW t, IsValType(t, B)
    PROVE  IsValType(t, C)
<1>1. Seq(B) \subseteq Seq(C) /\ Seq(B \union {Absent}) \subseteq Seq(C \union {Absent})
  OBVIOUS
<1> QED BY <1>1 DEF IsValType

ValBefore(d) == Before(Vals, d)

\* The same of Vals, whose types have only types of earlier layers inside.
LEMMA ValLayers ==
    \E n \in Nat :
        /\ ValBefore(1) = {} /\ ValBefore(n + 1) = Val
        /\ \A d \in 1 .. n : ValBefore(d + 1) = ValBefore(d) \union Vals[d]
        /\ \A d \in 1 .. n + 1 : /\ ValBefore(d) \subseteq Val /\ Absent \notin ValBefore(d)
                                 /\ \A t \in ValBefore(d) : IsValType(t, ValBefore(d))
        /\ \A d \in 1 .. n : \A t \in Vals[d] : IsValType(t, ValBefore(d))
<1>1. PICK n \in Nat : n = Len(Vals) /\ DOMAIN Vals = 1 .. n
  BY ValAssumption
<1>2. /\ ValBefore(1) = {} /\ ValBefore(n + 1) = Val
      /\ \A d \in 1 .. n : ValBefore(d + 1) = ValBefore(d) \union Vals[d]
      /\ \A d \in 1 .. n + 1 : ValBefore(d) \subseteq Val
      /\ \A d \in 1 .. n + 1 : \A t \in ValBefore(d) :
            \E c \in 1 .. n : t \in Vals[c] /\ ValBefore(c) \subseteq ValBefore(d)
  <2>1. Vals \in Seq(SUBSET Val)
    BY ValAssumption
  <2>2. AllOf(Vals) = Val
    BY DEF AllOf, Val
  <2>3. /\ Before(Vals, 1) = {} /\ Before(Vals, n + 1) = AllOf(Vals)
        /\ \A d \in 1 .. n : Before(Vals, d + 1) = Before(Vals, d) \union Vals[d]
        /\ \A d \in 1 .. n + 1 : Before(Vals, d) \subseteq AllOf(Vals)
        /\ \A d \in 1 .. n + 1 : \A t \in Before(Vals, d) :
              \E c \in 1 .. n : t \in Vals[c] /\ Before(Vals, c) \subseteq Before(Vals, d)
    BY ONLY <1>1, <2>1, LayersGrow
  <2> QED BY <2>2, <2>3 DEF ValBefore
<1>3. \A d \in 1 .. n : \A t \in Vals[d] : IsValType(t, ValBefore(d))
  BY <1>1, ValAssumption DEF ValBefore
<1>4. ASSUME NEW d \in 1 .. n + 1, NEW t \in ValBefore(d) PROVE IsValType(t, ValBefore(d))
  <2>1. PICK c \in 1 .. n : t \in Vals[c] /\ ValBefore(c) \subseteq ValBefore(d)
    BY <1>2
  <2>2. IsValType(t, ValBefore(c))
    BY <1>3, <2>1
  <2> QED BY <2>1, <2>2, ValTypeWidened
<1>5. \A d \in 1 .. n + 1 : Absent \notin ValBefore(d)
  BY <1>2, ValAssumption
<1> QED BY <1>2, <1>3, <1>4, <1>5

\* e gives the bytes of the types of B, as encode_val_type does.
Encodes(e, B) == /\ e = [t \in Val |-> e[t]]
                 /\ \A t \in B : e[t] = ValBytes(e, t)

LEMMA EncodesMore ==
    ASSUME NEW B \in SUBSET Val, NEW C \in SUBSET Val, Absent \notin B,
           \A t \in B : IsValType(t, B), \A t \in C : IsValType(t, B),
           NEW e, Encodes(e, B)
    PROVE  \E f : Encodes(f, B \union C)
<1> DEFINE f == [t \in Val |-> IF t \in B THEN e[t] ELSE ValBytes(e, t)]
<1>1. \A t \in B : f[t] = e[t]
  OBVIOUS
<1>2. \A t \in C : t \notin B => f[t] = ValBytes(e, t)
  OBVIOUS
<1>3. f = [t \in Val |-> f[t]]
  OBVIOUS
<1> HIDE DEF f
<1>4. ASSUME NEW t \in B \union C PROVE ValBytes(f, t) = ValBytes(e, t)
  <2>1. IsValType(t, B)
    OBVIOUS
  <2> QED BY <1>1, <2>1, BytesSame
<1>5. ASSUME NEW t \in B \union C PROVE f[t] = ValBytes(f, t)
  <2>1. CASE t \in B
    BY <1>1, <1>4, <2>1 DEF Encodes
  <2>2. CASE t \notin B
    BY <1>2, <1>4, <2>2
  <2> QED BY <2>1, <2>2
<1> QED BY <1>3, <1>5 DEF Encodes

LEMMA EncodesAll == Encodes(EncodeValType, Val)
<1>1. PICK n \in Nat :
        /\ ValBefore(1) = {} /\ ValBefore(n + 1) = Val
        /\ \A d \in 1 .. n : ValBefore(d + 1) = ValBefore(d) \union Vals[d]
        /\ \A d \in 1 .. n + 1 : /\ ValBefore(d) \subseteq Val /\ Absent \notin ValBefore(d)
                                 /\ \A t \in ValBefore(d) : IsValType(t, ValBefore(d))
        /\ \A d \in 1 .. n : \A t \in Vals[d] : IsValType(t, ValBefore(d))
  BY ValLayers
<1> DEFINE N == {k \in Nat : k <= n => \E e : Encodes(e, ValBefore(k + 1))}
<1>2. 0 \in N
  <2>1. Encodes([t \in Val |-> <<>>], {})
    BY DEF Encodes
  <2> QED BY <1>1, <2>1
<1>3. ASSUME NEW k \in N PROVE k + 1 \in N
  <2> SUFFICES ASSUME k + 1 <= n PROVE \E e : Encodes(e, ValBefore((k + 1) + 1))
    OBVIOUS
  <2>1. PICK e : Encodes(e, ValBefore(k + 1))
    OBVIOUS
  <2>2. k + 1 \in 1 .. n /\ k + 1 \in 1 .. n + 1 /\ (k + 1) + 1 \in 1 .. n + 1
    OBVIOUS
  <2>3. /\ ValBefore((k + 1) + 1) = ValBefore(k + 1) \union Vals[k + 1]
        /\ ValBefore(k + 1) \subseteq Val /\ Absent \notin ValBefore(k + 1)
        /\ ValBefore((k + 1) + 1) \subseteq Val
        /\ \A t \in ValBefore(k + 1) : IsValType(t, ValBefore(k + 1))
        /\ \A t \in Vals[k + 1] : IsValType(t, ValBefore(k + 1))
    BY <1>1, <2>2
  <2> QED BY ONLY <2>1, <2>3, EncodesMore
<1>4. n \in N
  <2>1. N = Nat
    BY <1>2, <1>3, NatSetInduction
  <2> QED BY <2>1
<1>5. PICK e : Encodes(e, Val)
  BY <1>1, <1>4
<1>6. e = [t \in Val |-> ValBytes(e, t)]
  BY <1>5 DEF Encodes
<1>7. EncodeValType = CHOOSE f : f = [t \in Val |-> ValBytes(f, t)]
  BY DEF EncodeValType
<1>8. EncodeValType = [t \in Val |-> ValBytes(EncodeValType, t)]
  BY <1>6, <1>7
<1>9. PICK v : v = EncodeValType
  OBVIOUS
<1>10. v = [t \in Val |-> ValBytes(v, t)]
  BY <1>8, <1>9
<1>11. Encodes(v, Val)
  BY ONLY <1>10 DEF Encodes
<1> QED BY <1>9, <1>11

LEMMA EncodedType == \A t \in Val : EncodeValType[t] \in Seq(Nat)
<1>1. PICK n \in Nat :
        /\ ValBefore(1) = {} /\ ValBefore(n + 1) = Val
        /\ \A d \in 1 .. n : ValBefore(d + 1) = ValBefore(d) \union Vals[d]
        /\ \A d \in 1 .. n + 1 : /\ ValBefore(d) \subseteq Val /\ Absent \notin ValBefore(d)
                                 /\ \A t \in ValBefore(d) : IsValType(t, ValBefore(d))
        /\ \A d \in 1 .. n : \A t \in Vals[d] : IsValType(t, ValBefore(d))
  BY ValLayers
<1>2. PICK e : e = EncodeValType /\ \A t \in Val : e[t] = ValBytes(e, t)
  BY EncodesAll DEF Encodes
<1> DEFINE N == {k \in Nat : k <= n => \A t \in ValBefore(k + 1) : e[t] \in Seq(Nat)}
<1>3. 0 \in N
  BY <1>1
<1>4. ASSUME NEW k \in N PROVE k + 1 \in N
  <2> SUFFICES ASSUME k + 1 <= n, NEW t \in ValBefore((k + 1) + 1) PROVE e[t] \in Seq(Nat)
    OBVIOUS
  <2>1. \A x \in ValBefore(k + 1) : e[x] \in Seq(Nat)
    OBVIOUS
  <2>2. k + 1 \in 1 .. n /\ k + 1 \in 1 .. n + 1 /\ (k + 1) + 1 \in 1 .. n + 1
    OBVIOUS
  <2>3. IsValType(t, ValBefore(k + 1)) /\ Absent \notin ValBefore(k + 1) /\ t \in Val
    BY <1>1, <2>2
  <2>4. ValBytes(e, t) \in Seq(Nat)
    BY ONLY <2>1, <2>3, BytesType
  <2> QED BY <1>2, <2>3, <2>4
<1>5. n \in N
  <2>1. N = Nat
    BY <1>3, <1>4, NatSetInduction
  <2> QED BY <2>1
<1> QED BY <1>1, <1>2, <1>5

-----------------------------------------------------------------------------
(***************************************************************************)
(* Builders and their sections.                                            *)
(***************************************************************************)

Param(S) == [name : NameLength, type : S]
ParamPieces(f) ==
    [k \in DOMAIN f.params |-> Text(f.params[k].name) \o EncodeValType[f.params[k].type]]

LEMMA SignatureType ==
    ASSUME NEW f \in Functions(Val)
    PROVE  /\ ParamPieces(f) \in Seq(Seq(Nat)) /\ Len(ParamPieces(f)) = Len(f.params)
           /\ ParamBytes(f) = Listed(ParamPieces(f)) /\ ParamBytes(f) \in Seq(Nat)
           /\ Optional(EncodeValType, f.result) \in Seq(Nat)
           /\ Signature(f) \in Seq(Nat)
<1>0. f.params \in Seq(Param(Val))
  BY DEF Functions, Param
<1>1. PICK p \in Seq(Param(Val)), n \in Nat : p = f.params /\ n = Len(p) /\ DOMAIN p = 1 .. n
  BY <1>0
<1>2. ASSUME NEW k \in 1 .. n PROVE p[k].name \in NameLength /\ p[k].type \in Val
  <2>1. p[k] \in Param(Val)
    BY <1>1
  <2> QED BY <2>1 DEF Param
<1>3. ASSUME NEW k \in 1 .. n PROVE Text(p[k].name) \o EncodeValType[p[k].type] \in Seq(Nat)
  <2>1. Text(p[k].name) \in Seq(Nat) /\ EncodeValType[p[k].type] \in Seq(Nat)
    BY <1>2, TextType, EncodedType
  <2> QED BY ONLY <2>1, Joined
<1>4. ParamPieces(f) \in [1 .. n -> Seq(Nat)]
  BY <1>1, <1>3 DEF ParamPieces
<1>5. ParamPieces(f) \in Seq(Seq(Nat)) /\ Len(ParamPieces(f)) = n
  BY <1>4, CountedSeq
<1>6. ParamBytes(f) = Listed(ParamPieces(f))
  BY DEF ParamBytes, ParamPieces
<1>7. ParamBytes(f) \in Seq(Nat)
  BY <1>5, <1>6, ListedType
<1>8. f.result # Absent => f.result \in Val
  BY DEF Functions
<1>9. Optional(EncodeValType, f.result) \in Seq(Nat)
  BY <1>8, EncodedType, OptionalType
<1> QED BY <1>1, <1>5, <1>6, <1>7, <1>9, Joined DEF Signature

ComponentType ==
    {t \in [kind : {"func", "instance", "component"}, funcs : Seq(Functions(Val))] : IsType(t)}

FuncPieces(t) ==
    [k \in DOMAIN t.funcs |-> Text(t.funcs[k].name) \o <<64>> \o Signature(t.funcs[k])]

LEMMA BytesOfType ==
    ASSUME NEW t \in ComponentType
    PROVE  /\ t.kind = "func" =>
                 EncodeType(t) = <<64>> \o Text(t.funcs[1].name) \o Signature(t.funcs[1])
           /\ t.kind = "instance" => EncodeType(t) = <<66>> \o Listed(FuncPieces(t))
           /\ t.kind = "component" => EncodeType(t) = <<65>>
           /\ t.kind \in {"func", "instance", "component"}
           /\ t.funcs \in Seq(Functions(Val))
           /\ t.kind = "func" => Len(t.funcs) = 1 /\ t.funcs[1] \in Functions(Val)
           /\ t.kind = "component" => t.funcs = <<>>
<1>1. /\ t.kind \in {"func", "instance", "component"} /\ t.funcs \in Seq(Functions(Val))
      /\ t.kind = "func" => Len(t.funcs) = 1
      /\ t.kind = "component" => t.funcs = <<>>
  BY DEF ComponentType, IsType
<1>2. t.kind = "func" => t.funcs[1] \in Functions(Val)
  BY <1>1
<1> QED BY <1>1, <1>2, Zenon DEF EncodeType, FuncPieces

LEMMA FuncPiecesType ==
    ASSUME NEW t \in ComponentType
    PROVE  FuncPieces(t) \in Seq(Seq(Nat)) /\ Len(FuncPieces(t)) = Len(t.funcs)
<1>1. PICK s \in Seq(Functions(Val)), n \in Nat : s = t.funcs /\ n = Len(s) /\ DOMAIN s = 1 .. n
  BY BytesOfType
<1>2. ASSUME NEW k \in 1 .. n
      PROVE  Text(s[k].name) \o <<64>> \o Signature(s[k]) \in Seq(Nat)
  <2>0. s[k] \in Functions(Val)
    BY <1>1
  <2>1. s[k] \in Functions(Val) /\ s[k].name \in NameLength
    BY <2>0 DEF Functions
  <2>2. Text(s[k].name) \in Seq(Nat) /\ Signature(s[k]) \in Seq(Nat) /\ <<64>> \in Seq(Nat)
    BY <2>1, TextType, SignatureType, ByteType
  <2>3. Text(s[k].name) \o <<64>> \in Seq(Nat)
    BY ONLY <2>2, Joined
  <2> QED BY ONLY <2>2, <2>3, Joined
<1>3. FuncPieces(t) \in [1 .. n -> Seq(Nat)]
  BY <1>1, <1>2 DEF FuncPieces
<1> QED BY <1>1, <1>3, CountedSeq

LEMMA EncodedTypeType == ASSUME NEW t \in ComponentType PROVE EncodeType(t) \in Seq(Nat)
<1>1. CASE t.kind = "func"
  <2>1. t.funcs[1] \in Functions(Val) /\ t.funcs[1].name \in NameLength
    BY <1>1, BytesOfType DEF Functions
  <2>2. /\ Text(t.funcs[1].name) \in Seq(Nat) /\ Signature(t.funcs[1]) \in Seq(Nat)
        /\ <<64>> \in Seq(Nat)
    BY <2>1, TextType, SignatureType, ByteType
  <2>3. <<64>> \o Text(t.funcs[1].name) \in Seq(Nat)
    BY ONLY <2>2, Joined
  <2>4. EncodeType(t) = <<64>> \o Text(t.funcs[1].name) \o Signature(t.funcs[1])
    BY <1>1, BytesOfType
  <2> QED BY ONLY <2>2, <2>3, <2>4, Joined
<1>2. CASE t.kind = "instance"
  <2>1. Listed(FuncPieces(t)) \in Seq(Nat) /\ <<66>> \in Seq(Nat)
    BY FuncPiecesType, ListedType, ByteType
  <2>2. EncodeType(t) = <<66>> \o Listed(FuncPieces(t))
    BY <1>2, BytesOfType
  <2> QED BY ONLY <2>1, <2>2, Joined
<1>3. CASE t.kind = "component"
  <2>1. EncodeType(t) = <<65>>
    BY <1>3, BytesOfType
  <2> QED BY <2>1, ByteType
<1> QED BY <1>1, <1>2, <1>3, BytesOfType

ImportEntry == [name : NameLength, type : Nat]
ExportEntry == [name : NameLength, kind : DOMAIN ExportCode, index : Nat]
BuilderType == [types : Seq(ComponentType), imports : Seq(ImportEntry), exports : Seq(ExportEntry),
                core : Nat \union {Absent}]

TypeData(b) == Listed([k \in DOMAIN b.types |-> EncodeType(b.types[k])])
ImportData(b) == Listed([k \in DOMAIN b.imports |-> Text(b.imports[k].name) \o Leb(b.imports[k].type)])
ExportData(b) ==
    Listed([k \in DOMAIN b.exports |-> Text(b.exports[k].name) \o <<ExportCode[b.exports[k].kind]>>
                                         \o Leb(b.exports[k].index)])

LEMMA DataTypes ==
    ASSUME NEW b \in BuilderType
    PROVE  TypeData(b) \in Seq(Nat) /\ ImportData(b) \in Seq(Nat) /\ ExportData(b) \in Seq(Nat)
<1>1. TypeData(b) \in Seq(Nat)
  <2>1. PICK s \in Seq(ComponentType), n \in Nat : s = b.types /\ n = Len(s) /\ DOMAIN s = 1 .. n
    BY DEF BuilderType
  <2>2. \A k \in 1 .. n : EncodeType(s[k]) \in Seq(Nat)
    BY <2>1, EncodedTypeType
  <2>3. [k \in DOMAIN b.types |-> EncodeType(b.types[k])] \in [1 .. n -> Seq(Nat)]
    BY <2>1, <2>2
  <2>4. [k \in DOMAIN b.types |-> EncodeType(b.types[k])] \in Seq(Seq(Nat))
    BY <2>3, CountedSeq
  <2> QED BY <2>4, ListedType DEF TypeData
<1>2. ImportData(b) \in Seq(Nat)
  <2>1. PICK s \in Seq(ImportEntry), n \in Nat : s = b.imports /\ n = Len(s) /\ DOMAIN s = 1 .. n
    BY DEF BuilderType
  <2>2. ASSUME NEW k \in 1 .. n PROVE Text(s[k].name) \o Leb(s[k].type) \in Seq(Nat)
    <3>0. s[k] \in ImportEntry
      BY <2>1
    <3>1. s[k].name \in NameLength /\ s[k].type \in Nat
      BY <3>0 DEF ImportEntry
    <3>2. Text(s[k].name) \in Seq(Nat) /\ Leb(s[k].type) \in Seq(Nat)
      BY <3>1, TextType, LebType
    <3> QED BY ONLY <3>2, Joined
  <2>3. [k \in DOMAIN b.imports |-> Text(b.imports[k].name) \o Leb(b.imports[k].type)]
            \in [1 .. n -> Seq(Nat)]
    BY <2>1, <2>2
  <2>4. [k \in DOMAIN b.imports |-> Text(b.imports[k].name) \o Leb(b.imports[k].type)]
            \in Seq(Seq(Nat))
    BY <2>3, CountedSeq
  <2> QED BY <2>4, ListedType DEF ImportData
<1>3. ExportData(b) \in Seq(Nat)
  <2>1. PICK s \in Seq(ExportEntry), n \in Nat : s = b.exports /\ n = Len(s) /\ DOMAIN s = 1 .. n
    BY DEF BuilderType
  <2>2. ASSUME NEW k \in 1 .. n
        PROVE  Text(s[k].name) \o <<ExportCode[s[k].kind]>> \o Leb(s[k].index) \in Seq(Nat)
    <3>0. s[k] \in ExportEntry
      BY <2>1
    <3>1. s[k].name \in NameLength /\ s[k].kind \in DOMAIN ExportCode /\ s[k].index \in Nat
      BY <3>0 DEF ExportEntry
    <3>2. ExportCode[s[k].kind] \in Nat
      BY <3>1 DEF ExportCode
    <3>3. /\ Text(s[k].name) \in Seq(Nat) /\ Leb(s[k].index) \in Seq(Nat)
          /\ <<ExportCode[s[k].kind]>> \in Seq(Nat)
      BY <3>1, <3>2, TextType, LebType, ByteType
    <3>4. Text(s[k].name) \o <<ExportCode[s[k].kind]>> \in Seq(Nat)
      BY ONLY <3>3, Joined
    <3> QED BY ONLY <3>3, <3>4, Joined
  <2>3. [k \in DOMAIN b.exports |-> Text(b.exports[k].name) \o <<ExportCode[b.exports[k].kind]>>
                                         \o Leb(b.exports[k].index)] \in [1 .. n -> Seq(Nat)]
    BY <2>1, <2>2
  <2>4. [k \in DOMAIN b.exports |-> Text(b.exports[k].name) \o <<ExportCode[b.exports[k].kind]>>
                                         \o Leb(b.exports[k].index)] \in Seq(Seq(Nat))
    BY <2>3, CountedSeq
  <2> QED BY <2>4, ListedType DEF ExportData
<1> QED BY <1>1, <1>2, <1>3

\* Sections with numbers up to n, in their order.
WrittenSection == [id : 0 .. 3, data : Seq(Nat)]
Ordered(s, n) ==
    /\ s \in Seq(WrittenSection)
    /\ \A j, k \in 1 .. Len(s) : j < k => s[j].id < s[k].id
    /\ \A k \in 1 .. Len(s) : s[k].id <= n

LEMMA OrderedMore ==
    ASSUME NEW n \in 0 .. 3, NEW l \in Int, l = n - 1, NEW s, Ordered(s, l), NEW d \in Seq(Nat),
           NEW t, t = <<>> \/ t = <<[id |-> n, data |-> d]>>
    PROVE  Ordered(s \o t, n)
<1> DEFINE x == [id |-> n, data |-> d]
<1>1. x \in WrittenSection /\ x.id = n
  BY DEF WrittenSection
<1>2. PICK m \in Nat : m = Len(s) /\ s \in Seq(WrittenSection)
  BY DEF Ordered
<1>3. ASSUME NEW k \in 1 .. m PROVE s[k].id \in 0 .. 3 /\ s[k].id <= l
  <2>1. s[k] \in WrittenSection
    BY <1>2
  <2> QED BY <1>2, <2>1 DEF Ordered, WrittenSection
<1> HIDE DEF x
<1>4. CASE t = <<x>>
  <2>1. PICK u : u = s \o <<x>>
    OBVIOUS
  <2>2. /\ u \in Seq(WrittenSection) /\ Len(u) = m + 1 /\ \A k \in 1 .. m : u[k] = s[k]
        /\ u[m + 1] = x
    BY <1>1, <1>2, <2>1
  <2>3. \A k \in 1 .. Len(u) : k \in 1 .. m \/ k = m + 1
    BY <2>2
  <2>4. ASSUME NEW j \in 1 .. Len(u), NEW k \in 1 .. Len(u), j < k PROVE u[j].id < u[k].id
    <3>1. j \in 1 .. m
      BY <2>2, <2>4
    <3>2. CASE k \in 1 .. m
      BY <1>2, <2>2, <2>4, <3>1, <3>2 DEF Ordered
    <3>3. CASE k = m + 1
      <4>1. u[j].id = s[j].id /\ s[j].id \in 0 .. 3 /\ s[j].id <= l /\ u[k].id = n
        BY <1>1, <1>3, <2>2, <3>1, <3>3
      <4> QED BY <4>1
    <3> QED BY <2>3, <3>2, <3>3
  <2>5. ASSUME NEW k \in 1 .. Len(u) PROVE u[k].id <= n
    <3>1. CASE k \in 1 .. m
      <4>1. u[k].id = s[k].id /\ s[k].id \in 0 .. 3 /\ s[k].id <= l
        BY <1>3, <2>2, <3>1
      <4> QED BY <4>1
    <3>2. CASE k = m + 1
      BY <1>1, <2>2, <3>2
    <3> QED BY <2>3, <3>1, <3>2
  <2>6. Ordered(u, n)
    BY <2>2, <2>4, <2>5 DEF Ordered
  <2> QED BY <1>4, <2>1, <2>6
<1>5. CASE t = <<>>
  <2>1. s \o <<>> = s
    BY <1>2
  <2>2. ASSUME NEW k \in 1 .. Len(s) PROVE s[k].id <= n
    <3>1. s[k].id \in 0 .. 3 /\ s[k].id <= l
      BY <1>2, <1>3
    <3> QED BY <3>1
  <2>3. Ordered(s, n)
    BY <2>2 DEF Ordered
  <2> QED BY <1>5, <2>1, <2>3
<1> QED BY <1>4, <1>5 DEF x

LEMMA SectionsOrdered == ASSUME NEW b \in BuilderType PROVE Ordered(Sections(b), 3)
<1> DEFINE S(there, id, content) == IF there THEN <<[id |-> id, data |-> content]>> ELSE <<>>
<1>1. PICK s0, s1, s2, s3 :
        /\ s0 = S(b.core # Absent, 0, Letters(b.core))
        /\ s1 = S(b.types # <<>>, 1, TypeData(b))
        /\ s2 = S(b.imports # <<>>, 2, ImportData(b))
        /\ s3 = S(b.exports # <<>>, 3, ExportData(b))
  OBVIOUS
<1>2. Sections(b) = s0 \o s1 \o s2 \o s3
  BY <1>1 DEF Sections, TypeData, ImportData, ExportData
<1>3. PICK d0 \in Seq(Nat) : s0 = <<>> \/ s0 = <<[id |-> 0, data |-> d0]>>
  <2>1. CASE b.core = Absent
    <3>1. s0 = <<>> /\ <<>> \in Seq(Nat)
      BY <1>1, <2>1
    <3> QED BY <3>1
  <2>2. CASE b.core # Absent
    <3>1. Letters(b.core) \in Seq(Nat)
      BY <2>2, LettersType DEF BuilderType
    <3> QED BY <1>1, <2>2, <3>1
  <2> QED BY <2>1, <2>2
<1>4. /\ s1 = <<>> \/ s1 = <<[id |-> 1, data |-> TypeData(b)]>>
      /\ s2 = <<>> \/ s2 = <<[id |-> 2, data |-> ImportData(b)]>>
      /\ s3 = <<>> \/ s3 = <<[id |-> 3, data |-> ExportData(b)]>>
  BY <1>1
<1>5. PICK d1 \in Seq(Nat), d2 \in Seq(Nat), d3 \in Seq(Nat) :
        d1 = TypeData(b) /\ d2 = ImportData(b) /\ d3 = ExportData(b)
  BY DataTypes
<1> DEFINE z == <<>>
           l == 0 - 1
<1>6. Ordered(z, l)
  BY DEF Ordered
<1>90. z = <<>> /\ l = 0 - 1 /\ l \in Int
  OBVIOUS
<1> HIDE DEF z, l
<1>7. Ordered(z \o s0, 0)
  <2>1. 0 \in 0 .. 3
    OBVIOUS
  <2> QED BY ONLY <1>3, <1>6, <1>90, <2>1, OrderedMore
<1>8. z \o s0 = s0 /\ 0 = 1 - 1 /\ 1 = 2 - 1 /\ 2 = 3 - 1
  BY <1>3, <1>90
<1>9. Ordered(s0, 0)
  BY <1>7, <1>8
<1>10. Ordered(s0 \o s1, 1)
  BY <1>4, <1>5, <1>8, <1>9, OrderedMore
<1>11. Ordered(s0 \o s1 \o s2, 2)
  BY <1>4, <1>5, <1>8, <1>10, OrderedMore
<1>12. Ordered(s0 \o s1 \o s2 \o s3, 3)
  BY <1>4, <1>5, <1>8, <1>11, OrderedMore
<1> QED BY <1>2, <1>12

-----------------------------------------------------------------------------
(***************************************************************************)
(* Where the sections are.                                                 *)
(***************************************************************************)

Entry == [id : 0 .. 3, size : Nat]

\* Section k of bytes b begins behind b[off[k - 1]], with its number and its size.
Layout(b, s, off) ==
    /\ b \in Seq(Nat) /\ s \in Seq(Entry)
    /\ off \in [0 .. Len(s) -> Nat] /\ off[0] = 8 /\ off[Len(s)] = Len(b)
    /\ \A j, k \in 1 .. Len(s) : j < k => s[j].id < s[k].id
    /\ \A k \in 1 .. Len(s) :
          /\ IsU32(s[k].size)
          /\ off[k] = off[k - 1] + 1 + Len(Leb(s[k].size)) + s[k].size /\ off[k] <= Len(b)
          /\ b[off[k - 1] + 1] = s[k].id
          /\ \A i \in 1 .. Len(Leb(s[k].size)) : b[off[k - 1] + 1 + i] = Leb(s[k].size)[i]

LEMMA SectionBytesAre ==
    ASSUME NEW x \in WrittenSection
    PROVE  /\ SectionBytes(x) \in Seq(Nat)
           /\ Len(SectionBytes(x)) = 1 + Len(Leb(Len(x.data))) + Len(x.data)
           /\ SectionBytes(x)[1] = x.id
           /\ \A i \in 1 .. Len(Leb(Len(x.data))) : SectionBytes(x)[1 + i] = Leb(Len(x.data))[i]
<1>1. PICK d \in Seq(Nat), id \in Nat, n \in Nat : d = x.data /\ id = x.id /\ n = Len(d)
  BY DEF WrittenSection
<1>2. PICK l \in Seq(Nat), m \in Nat : l = Leb(n) /\ m = Len(l)
  BY LebType
<1>3. PICK c : c = l \o d
  OBVIOUS
<1>4. c \in Seq(Nat) /\ Len(c) = m + n /\ \A i \in 1 .. m : c[i] = l[i]
  BY <1>1, <1>2, <1>3, Joined
<1>5. PICK y, u : y = <<id>> /\ u = y \o c
  OBVIOUS
<1>6. SectionBytes(x) = u
  BY <1>1, <1>2, <1>3, <1>5 DEF SectionBytes, Counted
<1>7. y \in Seq(Nat) /\ Len(y) = 1 /\ y[1] = id
  BY <1>5, ByteType
<1>8. /\ u \in Seq(Nat) /\ Len(u) = 1 + (m + n) /\ u[1] = id
      /\ \A i \in 1 .. m + n : u[1 + i] = c[i]
  <2>1. /\ u \in Seq(Nat) /\ Len(u) = Len(y) + Len(c)
        /\ \A i \in 1 .. Len(y) : u[i] = y[i]
        /\ \A i \in 1 .. Len(c) : u[Len(y) + i] = c[i]
    BY ONLY <1>4, <1>5, <1>7, Joined
  <2> QED BY ONLY <1>4, <1>7, <2>1
<1>9. ASSUME NEW i \in 1 .. m PROVE u[1 + i] = l[i]
  <2>1. i \in 1 .. m + n
    OBVIOUS
  <2> QED BY ONLY <1>4, <1>8, <2>1
<1>10. Len(x.data) = n /\ Leb(Len(x.data)) = l
  BY <1>1, <1>2
<1>11. Len(Leb(Len(x.data))) = m
  BY <1>2, <1>10
<1>12. /\ u \in Seq(Nat) /\ Len(u) = 1 + m + n /\ u[1] = x.id
       /\ \A i \in 1 .. m : u[1 + i] = l[i]
  <2>1. 1 + (m + n) = 1 + m + n
    OBVIOUS
  <2>2. \A i \in 1 .. m : u[1 + i] = l[i]
    BY <1>9
  <2> QED BY ONLY <1>1, <1>8, <2>1, <2>2
<1> QED BY ONLY <1>6, <1>10, <1>11, <1>12

\* What comes from piece k on is the end of what comes from the first on.
EndsIn(t, l, g, n) ==
    \A k \in 1 .. n + 1 : /\ Len(g[k]) \in Nat /\ Len(g[k]) <= l
                          /\ \A i \in 1 .. Len(g[k]) : t[l - Len(g[k]) + i] = g[k][i]

LEMMA TailsAre ==
    ASSUME NEW s \in Seq(Seq(Nat)), NEW n \in Nat, n = Len(s), NEW g, Tails(s, g),
           NEW l \in Nat, l = Len(g[1])
    PROVE  EndsIn(g[1], l, g, n)
<1>1. /\ \A k \in 1 .. n : s[k] \in Seq(Nat)
      /\ \A k \in 1 .. n : g[k] = s[k] \o g[k + 1]
      /\ \A k \in 1 .. n + 1 : g[k] \in Seq(Nat)
  <2>1. \A k \in 1 .. n : s[k] \in Seq(Nat)
    OBVIOUS
  <2> QED BY <2>1 DEF Tails
<1> DEFINE P(k) == /\ Len(g[k + 1]) <= l
                   /\ \A i \in 1 .. Len(g[k + 1]) : g[1][l - Len(g[k + 1]) + i] = g[k + 1][i]
           N == {k \in Nat : k <= n => P(k)}
<1>2. P(0)
  <2>1. 0 + 1 = 1 /\ \A i \in 1 .. l : l - l + i = i
    OBVIOUS
  <2> QED BY <2>1
<1>3. ASSUME NEW k \in Nat, k + 1 <= n, P(k) PROVE P(k + 1)
  <2>1. k + 1 \in 1 .. n /\ k + 1 \in 1 .. n + 1 /\ (k + 1) + 1 \in 1 .. n + 1
    BY <1>3
  <2>2. PICK x \in Seq(Nat), v \in Seq(Nat) : x = s[k + 1] /\ v = g[(k + 1) + 1] /\ g[k + 1] = x \o v
    BY <1>1, <2>1
  <2>3. PICK a \in Nat, b \in Nat : a = Len(x) /\ b = Len(v)
    OBVIOUS
  <2>4. Len(g[k + 1]) = a + b /\ \A i \in 1 .. b : g[k + 1][a + i] = v[i]
    <3>1. Len(x \o v) = a + b /\ \A i \in 1 .. b : (x \o v)[a + i] = v[i]
      BY ONLY <2>3, Joined
    <3> QED BY ONLY <2>2, <3>1
  <2>5. a + b <= l /\ \A i \in 1 .. a + b : g[1][l - (a + b) + i] = g[k + 1][i]
    BY <1>3, <2>4
  <2>6. ASSUME NEW i \in 1 .. b PROVE g[1][l - b + i] = v[i]
    <3>0. i \in Nat /\ 1 <= i /\ i <= b
      OBVIOUS
    <3>1. a + i \in 1 .. a + b /\ l - (a + b) + (a + i) = l - b + i
      BY ONLY <3>0, a \in Nat, b \in Nat, l \in Nat
    <3>2. g[1][l - (a + b) + (a + i)] = g[k + 1][a + i]
      BY <2>5, <3>1
    <3> QED BY <2>4, <3>1, <3>2
  <2>7. b <= l
    BY <2>5
  <2> QED BY <2>2, <2>3, <2>6, <2>7
<1>4. ASSUME NEW k \in 1 .. n + 1
      PROVE  /\ Len(g[k]) \in Nat /\ Len(g[k]) <= l
             /\ \A i \in 1 .. Len(g[k]) : g[1][l - Len(g[k]) + i] = g[k][i]
  <2> HIDE DEF P
  <2>0. 0 \in N /\ \A j \in N : j + 1 \in N
    BY <1>2, <1>3
  <2>1. N = Nat
    BY <2>0, NatSetInduction
  <2>2. k - 1 \in Nat /\ k - 1 <= n /\ (k - 1) + 1 = k
    OBVIOUS
  <2>3. k - 1 \in N
    BY <2>1, <2>2
  <2>4. P(k - 1)
    BY <2>2, <2>3
  <2>5. /\ Len(g[(k - 1) + 1]) <= l
        /\ \A i \in 1 .. Len(g[(k - 1) + 1]) : g[1][l - Len(g[(k - 1) + 1]) + i] = g[(k - 1) + 1][i]
    BY ONLY <2>4 DEF P
  <2>6. g[k] \in Seq(Nat)
    BY <1>1
  <2>7. Len(g[k]) \in Nat
    BY <2>6
  <2> QED BY ONLY <2>2, <2>5, <2>7
<1> QED BY <1>4 DEF EndsIn

LEMMA BuiltLayout ==
    ASSUME NEW made, Ordered(made, 3), \A k \in DOMAIN made : IsU32(Len(made[k].data)),
           NEW sizes, sizes = [k \in DOMAIN made |-> [id |-> made[k].id, size |-> Len(made[k].data)]]
    PROVE  \E off : Layout(Built(made), sizes, off)
<1>1. made \in Seq(WrittenSection) /\ \A j, k \in 1 .. Len(made) : j < k => made[j].id < made[k].id
  BY DEF Ordered
<1>2. PICK n \in Nat : n = Len(made) /\ DOMAIN made = 1 .. n
  BY <1>1
<1> DEFINE s == [k \in DOMAIN made |-> SectionBytes(made[k])]
<1>3. ASSUME NEW k \in 1 .. n
      PROVE  /\ made[k] \in WrittenSection /\ s[k] = SectionBytes(made[k])
             /\ Len(made[k].data) \in Nat /\ IsU32(Len(made[k].data))
  <2>1. made[k] \in WrittenSection
    BY <1>1, <1>2
  <2>2. made[k].data \in Seq(Nat)
    BY <2>1 DEF WrittenSection
  <2> QED BY <1>2, <2>1, <2>2
<1>4. s \in Seq(Seq(Nat)) /\ Len(s) = n
  <2>1. \A k \in 1 .. n : SectionBytes(made[k]) \in Seq(Nat)
    BY <1>3, SectionBytesAre
  <2>2. s \in [1 .. n -> Seq(Nat)]
    BY <1>2, <2>1
  <2> HIDE DEF s
  <2> QED BY <2>2, CountedSeq
<1>5. Built(made) = Header \o Concat(s)
  BY DEF Built
<1> HIDE DEF s
<1>6. PICK g : Tails(s, g) /\ Concat(s) = g[1]
  BY <1>4, ConcatIs
<1>7. /\ g[n + 1] = <<>>
      /\ \A k \in 1 .. n : s[k] \in Seq(Nat)
      /\ \A k \in 1 .. n : g[k] = s[k] \o g[k + 1]
      /\ \A k \in 1 .. n + 1 : g[k] \in Seq(Nat)
  <2>1. \A k \in 1 .. n : s[k] \in Seq(Nat)
    BY <1>4
  <2> QED BY <1>4, <1>6, <2>1 DEF Tails
<1>8. PICK t \in Seq(Nat), l \in Nat : t = g[1] /\ l = Len(t)
  <2>1. 1 \in 1 .. n + 1
    OBVIOUS
  <2> QED BY <1>7, <2>1
<1>9. \A k \in 1 .. n + 1 : /\ Len(g[k]) \in Nat /\ Len(g[k]) <= l
                            /\ \A i \in 1 .. Len(g[k]) : t[l - Len(g[k]) + i] = g[k][i]
  <2>1. EndsIn(g[1], l, g, n)
    BY <1>4, <1>6, <1>8, TailsAre
  <2> QED BY <1>8, <2>1 DEF EndsIn
<1>10. PICK b : b = Built(made)
  OBVIOUS
<1>11. b \in Seq(Nat) /\ Len(b) = 8 + l /\ \A i \in 1 .. l : b[8 + i] = t[i]
  <2>1. Header \in Seq(Nat) /\ Len(Header) = 8
    BY DEF Header
  <2>2. b = Header \o t
    BY <1>5, <1>6, <1>8, <1>10
  <2>3. /\ b \in Seq(Nat) /\ Len(b) = Len(Header) + Len(t)
        /\ \A i \in 1 .. Len(t) : b[Len(Header) + i] = t[i]
    BY ONLY t \in Seq(Nat), <2>1, <2>2, Joined
  <2> QED BY ONLY <1>8, <2>1, <2>3
<1> DEFINE off == [k \in 0 .. n |-> 8 + l - Len(g[k + 1])]
<1>12. \A k \in 0 .. n : off[k] = 8 + l - Len(g[k + 1])
  OBVIOUS
<1>13. off \in [0 .. n -> Nat]
  <2> SUFFICES ASSUME NEW k \in 0 .. n PROVE 8 + l - Len(g[k + 1]) \in Nat
    OBVIOUS
  <2>1. k + 1 \in 1 .. n + 1
    OBVIOUS
  <2>2. Len(g[k + 1]) \in Nat /\ Len(g[k + 1]) <= l
    BY <1>9, <2>1
  <2> QED BY <2>2
<1> HIDE DEF off
<1>14. off[0] = 8 /\ off[n] = 8 + l
  <2>1. 0 \in 0 .. n /\ n \in 0 .. n /\ 0 + 1 = 1
    OBVIOUS
  <2>2. Len(g[n + 1]) = 0
    BY <1>7
  <2>3. off[0] = 8 + l - Len(g[0 + 1]) /\ off[n] = 8 + l - Len(g[n + 1])
    BY ONLY <1>12, <2>1
  <2>4. Len(g[0 + 1]) = l
    BY ONLY <1>8, <2>1
  <2> QED BY ONLY l \in Nat, <2>2, <2>3, <2>4
<1>15. ASSUME NEW k \in 1 .. n, NEW size, size = Len(made[k].data)
       PROVE  /\ off[k] = off[k - 1] + 1 + Len(Leb(size)) + size /\ off[k] <= 8 + l
              /\ b[off[k - 1] + 1] = made[k].id
              /\ \A i \in 1 .. Len(Leb(size)) : b[off[k - 1] + 1 + i] = Leb(size)[i]
  <2>1. size \in Nat /\ made[k] \in WrittenSection /\ s[k] = SectionBytes(made[k])
    BY <1>3, <1>15
  <2>2. PICK x \in Seq(Nat), v \in Seq(Nat), a \in Nat, c \in Nat :
            x = s[k] /\ v = g[k + 1] /\ a = Len(x) /\ c = Len(v)
    <3>1. k + 1 \in 1 .. n + 1
      OBVIOUS
    <3>2. s[k] \in Seq(Nat) /\ g[k + 1] \in Seq(Nat)
      BY <1>7, <3>1
    <3>3. Len(s[k]) \in Nat /\ Len(g[k + 1]) \in Nat
      BY ONLY <3>2
    <3> QED BY ONLY <3>2, <3>3
  <2>3. PICK m \in Nat : m = Len(Leb(size))
    BY <2>1, LebType
  <2>4. a = 1 + m + size /\ x[1] = made[k].id /\ \A i \in 1 .. m : x[1 + i] = Leb(size)[i]
    BY <1>15, <2>1, <2>2, <2>3, SectionBytesAre
  <2>5. PICK w : w = g[k] /\ w = x \o v
    BY <1>7, <2>2
  <2>6. Len(w) = a + c /\ \A i \in 1 .. a : w[i] = x[i]
    <3>1. Len(x \o v) = Len(x) + Len(v) /\ \A i \in 1 .. Len(x) : (x \o v)[i] = x[i]
      BY ONLY x \in Seq(Nat), v \in Seq(Nat), Joined
    <3> QED BY ONLY <2>2, <2>5, <3>1
  <2>7. a + c <= l /\ \A i \in 1 .. a + c : t[l - (a + c) + i] = w[i]
    <3>1. k \in 1 .. n + 1
      OBVIOUS
    <3> QED BY <1>9, <2>5, <2>6, <3>1
  <2>8. off[k] = 8 + l - c /\ off[k - 1] = 8 + l - (a + c)
    <3>1. k \in 0 .. n /\ k - 1 \in 0 .. n /\ (k - 1) + 1 = k
      OBVIOUS
    <3> QED BY <1>12, <2>2, <2>5, <2>6, <3>1
  <2>9. ASSUME NEW i \in 1 .. a PROVE b[off[k - 1] + i] = x[i]
    <3>1. i \in 1 .. a + c /\ l - (a + c) + i \in 1 .. l
      BY <2>7
    <3>2. off[k - 1] + i = 8 + (l - (a + c) + i)
      BY <2>7, <2>8
    <3>3. b[8 + (l - (a + c) + i)] = t[l - (a + c) + i]
      BY <1>11, <3>1
    <3> QED BY <2>6, <2>7, <3>1, <3>2, <3>3
  <2>10. off[k] = off[k - 1] + 1 + m + size /\ off[k] <= 8 + l
    BY <2>1, <2>4, <2>7, <2>8
  <2>11. 1 \in 1 .. a /\ \A i \in 1 .. m : 1 + i \in 1 .. a
    BY <2>1, <2>4
  <2>12. b[off[k - 1] + 1] = made[k].id
    BY <2>4, <2>9, <2>11
  <2>13. ASSUME NEW i \in 1 .. m PROVE b[off[k - 1] + 1 + i] = Leb(size)[i]
    <3>1. off[k - 1] + (1 + i) = off[k - 1] + 1 + i
      <4>1. off[k - 1] \in Int
        BY ONLY l \in Nat, a \in Nat, c \in Nat, <2>8
      <4>2. i \in Int
        BY ONLY i \in 1 .. m
      <4>3. PICK p \in Int : p = off[k - 1]
        BY ONLY <4>1
      <4>4. p + (1 + i) = p + 1 + i
        BY ONLY p \in Int, <4>2
      <4> QED BY ONLY <4>3, <4>4
    <3> QED BY <2>4, <2>9, <2>11, <3>1
  <2> QED BY <2>3, <2>10, <2>12, <2>13
<1>16. \A k \in 1 .. n : sizes[k] = [id |-> made[k].id, size |-> Len(made[k].data)]
  BY <1>2
<1>17. sizes \in Seq(Entry) /\ Len(sizes) = n
  <2>1. ASSUME NEW k \in 1 .. n PROVE [id |-> made[k].id, size |-> Len(made[k].data)] \in Entry
    <3>1. made[k].id \in 0 .. 3
      BY <1>3 DEF WrittenSection
    <3> QED BY <1>3, <3>1 DEF Entry
  <2>2. sizes \in [1 .. n -> Entry]
    BY <1>2, <2>1
  <2> QED BY <2>2, CountedSeq
<1>18. ASSUME NEW k \in 1 .. n
       PROVE  /\ IsU32(sizes[k].size)
              /\ off[k] = off[k - 1] + 1 + Len(Leb(sizes[k].size)) + sizes[k].size /\ off[k] <= Len(b)
              /\ b[off[k - 1] + 1] = sizes[k].id
              /\ \A i \in 1 .. Len(Leb(sizes[k].size)) :
                    b[off[k - 1] + 1 + i] = Leb(sizes[k].size)[i]
  <2>1. sizes[k] = [id |-> made[k].id, size |-> Len(made[k].data)]
    BY <1>16
  <2>2. PICK size : size = Len(made[k].data)
    OBVIOUS
  <2>3. sizes[k].size = size /\ sizes[k].id = made[k].id
    BY ONLY <2>1, <2>2
  <2>4. IsU32(size)
    BY <1>3, <2>2
  <2>5. /\ off[k] = off[k - 1] + 1 + Len(Leb(size)) + size /\ off[k] <= 8 + l
        /\ b[off[k - 1] + 1] = made[k].id
        /\ \A i \in 1 .. Len(Leb(size)) : b[off[k - 1] + 1 + i] = Leb(size)[i]
    BY <1>15, <2>2
  <2> QED BY ONLY <1>11, <2>3, <2>4, <2>5
<1>19. \A j, k \in 1 .. n : j < k => sizes[j].id < sizes[k].id
  BY <1>1, <1>2, <1>16
<1>20. Layout(b, sizes, off)
  BY <1>11, <1>13, <1>14, <1>17, <1>18, <1>19 DEF Layout
<1> QED BY <1>10, <1>20

-----------------------------------------------------------------------------
(***************************************************************************)
(* What the size report adds up.                                           *)
(***************************************************************************)

SumBy(s, m, f) == f = [k \in 0 .. m |-> IF k = 0 THEN 0 ELSE f[k - 1] + s[k]]

SumOneByOne(s, m, f) == f[0] = 0 /\ \A k \in 1 .. m : f[k] = f[k - 1] + s[k]

LEMMA SumEquations ==
    ASSUME NEW s, NEW m \in Nat, NEW f, SumBy(s, m, f)
    PROVE  SumOneByOne(s, m, f)
<1> DEFINE h == [k \in 0 .. m |-> IF k = 0 THEN 0 ELSE f[k - 1] + s[k]]
<1>1. f = h
  BY DEF SumBy
<1>2. h[0] = 0 /\ \A k \in 1 .. m : h[k] = f[k - 1] + s[k]
  <2>1. h[0] = 0
    OBVIOUS
  <2>2. ASSUME NEW k \in 1 .. m PROVE h[k] = f[k - 1] + s[k]
    <3>1. k \in 0 .. m /\ k # 0
      OBVIOUS
    <3> QED BY <3>1
  <2> QED BY <2>1, <2>2
<1> HIDE DEF h
<1>3. f[0] = h[0] /\ \A k \in 1 .. m : f[k] = h[k]
  BY <1>1
<1> QED BY <1>2, <1>3 DEF SumOneByOne

LEMMA SumExists == ASSUME NEW s, NEW m \in Nat PROVE \E f : SumBy(s, m, f)
<1> DEFINE N == {l \in Nat : \E f : SumBy(s, l, f)}
<1>1. 0 \in N
  <2>1. SumBy(s, 0, [k \in 0 .. 0 |-> 0])
    BY DEF SumBy
  <2> QED BY <2>1
<1>2. ASSUME NEW l \in N PROVE l + 1 \in N
  <2>1. PICK f : SumBy(s, l, f)
    OBVIOUS
  <2>2. l \in Nat
    OBVIOUS
  <2>3. f[0] = 0 /\ \A k \in 1 .. l : f[k] = f[k - 1] + s[k]
    <3>1. SumOneByOne(s, l, f)
      BY <2>1, <2>2, SumEquations
    <3> QED BY ONLY <3>1 DEF SumOneByOne
  <2> DEFINE g == [k \in 0 .. l + 1 |-> IF k <= l THEN f[k] ELSE f[k - 1] + s[k]]
             h == [k \in 0 .. l + 1 |-> IF k = 0 THEN 0 ELSE g[k - 1] + s[k]]
  <2>4. (\A k \in 0 .. l : g[k] = f[k]) /\ g[l + 1] = f[l] + s[l + 1]
    OBVIOUS
  <2>5. ASSUME NEW k \in 0 .. l + 1 PROVE g[k] = h[k]
    <3> HIDE DEF g
    <3>1. CASE k = 0
      BY <2>3, <2>4, <3>1
    <3>2. CASE k \in 1 .. l
      <4>1. k \in 0 .. l /\ k - 1 \in 0 .. l /\ k # 0
        BY <2>2, <3>2
      <4>2. h[k] = g[k - 1] + s[k]
        BY <4>1
      <4> QED BY <2>3, <2>4, <3>2, <4>1, <4>2
    <3>3. CASE k = l + 1
      <4>1. k # 0 /\ k - 1 = l /\ l \in 0 .. l
        BY <2>2, <3>3
      <4>2. h[k] = g[k - 1] + s[k]
        BY <4>1
      <4> QED BY <2>4, <3>3, <4>1, <4>2
    <3> QED BY <3>1, <3>2, <3>3
  <2>6. g = h
    BY <2>5
  <2>7. SumBy(s, l + 1, g)
    BY <2>6 DEF SumBy
  <2> QED BY <2>7
<1>3. N = Nat
  BY <1>1, <1>2, NatSetInduction
<1> QED BY <1>3

LEMMA SumIs ==
    ASSUME NEW s \in Seq(Nat), NEW n \in Nat, n = Len(s)
    PROVE  \E f : /\ SumOneByOne(s, n, f) /\ Sum(s) = f[n]
                  /\ \A k \in 0 .. n : f[k] \in Nat
<1>1. PICK f : SumBy(s, n, f) /\ Sum(s) = f[n]
  <2>1. \E f : SumBy(s, n, f)
    BY SumExists
  <2>2. Sum(s) = (CHOOSE f : SumBy(s, n, f))[n]
    BY DEF SumBy, Sum
  <2> QED BY <2>1, <2>2
<1>2. SumOneByOne(s, n, f)
  BY <1>1, SumEquations
<1>3. f[0] = 0 /\ \A k \in 1 .. n : f[k] = f[k - 1] + s[k]
  BY <1>2 DEF SumOneByOne
<1> DEFINE N == {k \in Nat : k <= n => f[k] \in Nat}
<1>4. 0 \in N
  BY <1>3
<1>5. ASSUME NEW k \in N PROVE k + 1 \in N
  <2> SUFFICES ASSUME k + 1 <= n PROVE f[k + 1] \in Nat
    OBVIOUS
  <2>1. k \in Nat /\ k + 1 \in 1 .. n /\ (k + 1) - 1 = k /\ f[k] \in Nat
    OBVIOUS
  <2>2. f[k + 1] = f[k] + s[k + 1]
    BY ONLY <1>3, <2>1
  <2>3. s[k + 1] \in Nat
    BY <2>1
  <2> QED BY <2>1, <2>2, <2>3
<1>6. ASSUME NEW k \in 0 .. n PROVE f[k] \in Nat
  <2>1. N = Nat
    BY <1>4, <1>5, NatSetInduction
  <2> QED BY <2>1
<1> QED BY <1>1, <1>2, <1>6

LEMMA SumOfNothing ==
    ASSUME NEW s \in Seq(Nat), \A k \in 1 .. Len(s) : s[k] = 0
    PROVE  Sum(s) = 0
<1>0. PICK n \in Nat : n = Len(s)
  OBVIOUS
<1>1. PICK f : SumOneByOne(s, n, f) /\ Sum(s) = f[n]
  BY <1>0, SumIs
<1>2. f[0] = 0 /\ \A k \in 1 .. n : f[k] = f[k - 1] + s[k]
  BY <1>1 DEF SumOneByOne
<1> DEFINE N == {k \in Nat : k <= n => f[k] = 0}
<1>3. 0 \in N
  BY <1>2
<1>4. ASSUME NEW k \in N PROVE k + 1 \in N
  <2> SUFFICES ASSUME k + 1 <= n PROVE f[k + 1] = 0
    OBVIOUS
  <2>1. k \in Nat /\ k + 1 \in 1 .. n /\ (k + 1) - 1 = k /\ f[k] = 0
    OBVIOUS
  <2>2. f[k + 1] = f[k] + s[k + 1]
    BY ONLY <1>2, <2>1
  <2>3. s[k + 1] = 0
    BY <1>0, <2>1
  <2> QED BY <2>1, <2>2, <2>3
<1>5. n \in N
  <2>1. N = Nat
    BY <1>3, <1>4, NatSetInduction
  <2> QED BY <2>1
<1> QED BY <1>1, <1>5

\* The size of the last section found with a number.
LastSize(id) ==
    LET places == {k \in DOMAIN found : found[k].id = id}
    IN IF places = {} THEN 0
       ELSE found[CHOOSE k \in places : \A j \in places : j <= k].size

LEMMA LastSizeIs ==
    ASSUME NEW n \in Nat, found \in Seq(Entry), n = Len(found),
           \A j, k \in 1 .. n : j < k => found[j].id < found[k].id
    PROVE  /\ \A k \in 1 .. n : LastSize(found[k].id) = found[k].size
           /\ \A id : (\A k \in 1 .. n : found[k].id # id) => LastSize(id) = 0
<1>1. DOMAIN found = 1 .. n
  OBVIOUS
<1>2. ASSUME NEW id, \A k \in 1 .. n : found[k].id # id PROVE LastSize(id) = 0
  BY <1>1, <1>2 DEF LastSize
<1>3. ASSUME NEW k \in 1 .. n PROVE LastSize(found[k].id) = found[k].size
  <2> DEFINE places == {j \in DOMAIN found : found[j].id = found[k].id}
  <2>1. ASSUME NEW j \in places PROVE j = k
    <3>1. j \in 1 .. n /\ found[j].id = found[k].id
      BY <1>1
    <3>2. found[j] \in Entry /\ found[k] \in Entry
      BY <3>1
    <3>3. found[j].id \in Int /\ found[k].id \in Int
      BY <3>2 DEF Entry
    <3>4. ~ (j < k) /\ ~ (k < j)
      BY <3>1, <3>3
    <3> QED BY <3>1, <3>4
  <2>2. k \in places
    BY <1>1
  <2>3. places = {k}
    BY <2>1, <2>2
  <2>4. LastSize(found[k].id) = IF places = {} THEN 0
                                ELSE found[CHOOSE i \in places : \A j \in places : j <= i].size
    BY DEF LastSize
  <2> HIDE DEF places
  <2>5. k <= k
    OBVIOUS
  <2>6. (CHOOSE i \in places : \A j \in places : j <= i) = k
    BY <2>3, <2>5
  <2> QED BY <2>3, <2>4, <2>6
<1> QED BY <1>2, <1>3

Announced(s) == [k \in DOMAIN s |-> 1 + Len(Leb(s[k].size))]

LEMMA ReportIs ==
    ASSUME found \in Seq(Entry)
    PROVE  /\ SizeReport.core = LastSize(0) /\ SizeReport.types = LastSize(1)
           /\ SizeReport.imports = LastSize(2) /\ SizeReport.exports = LastSize(3)
           /\ Len(input) \in Nat => SizeReport.stripped = Len(input)
<1> DEFINE own == [k \in DOMAIN found |-> IF found[k].id = 11 THEN found[k].size ELSE 0]
<1>1. PICK n \in Nat : n = Len(found) /\ DOMAIN found = 1 .. n
  OBVIOUS
<1>2. ASSUME NEW k \in 1 .. n PROVE own[k] = 0
  <2>1. found[k] \in Entry
    BY <1>1
  <2>2. found[k].id # 11
    BY <2>1 DEF Entry
  <2> QED BY <1>1, <2>2
<1>3. own \in Seq(Nat) /\ Len(own) = n
  <2>1. own \in [1 .. n -> Nat]
    BY <1>1, <1>2
  <2> HIDE DEF own
  <2> QED BY <2>1, CountedSeq
<1>4. Sum(own) = 0
  <2> HIDE DEF own
  <2> QED BY <1>2, <1>3, SumOfNothing
<1>5. SizeReport = [total |-> Len(input),
                    stripped |-> IF Sum(own) > Len(input) THEN 0 ELSE Len(input) - Sum(own),
                    core |-> LastSize(0), types |-> LastSize(1), imports |-> LastSize(2),
                    exports |-> LastSize(3)]
  BY DEF SizeReport, LastSize
<1> HIDE DEF own
<1>6. SizeReport.stripped = IF Sum(own) > Len(input) THEN 0 ELSE Len(input) - Sum(own)
  BY <1>5
<1>7. Len(input) \in Nat => SizeReport.stripped = Len(input)
  BY <1>4, <1>6
<1> QED BY <1>5, <1>7

\* The sizes with numbers up to i.
Upto(i) == (IF i >= 0 THEN LastSize(0) ELSE 0) + (IF i >= 1 THEN LastSize(1) ELSE 0)
             + (IF i >= 2 THEN LastSize(2) ELSE 0) + (IF i >= 3 THEN LastSize(3) ELSE 0)

LEMMA UptoNext ==
    ASSUME NEW i \in -1 .. 3, NEW j \in 0 .. 3, i < j, \A l \in 0 .. 3 : LastSize(l) \in Nat,
           \A l \in 0 .. 3 : i < l /\ l < j => LastSize(l) = 0
    PROVE  Upto(i) \in Nat /\ Upto(j) = Upto(i) + LastSize(j)
<1>1. PICK c0 \in Nat, c1 \in Nat, c2 \in Nat, c3 \in Nat :
        c0 = LastSize(0) /\ c1 = LastSize(1) /\ c2 = LastSize(2) /\ c3 = LastSize(3)
  OBVIOUS
<1>2. \A l \in Int : Upto(l) = (IF l >= 0 THEN c0 ELSE 0) + (IF l >= 1 THEN c1 ELSE 0)
                                + (IF l >= 2 THEN c2 ELSE 0) + (IF l >= 3 THEN c3 ELSE 0)
  BY <1>1 DEF Upto
<1>3. /\ Upto(-1) = 0 /\ Upto(0) = c0 /\ Upto(1) = c0 + c1 /\ Upto(2) = c0 + c1 + c2
      /\ Upto(3) = c0 + c1 + c2 + c3
  BY <1>2
<1>4. i = -1 \/ i = 0 \/ i = 1 \/ i = 2
  OBVIOUS
<1>5. /\ i < 0 /\ 0 < j => c0 = 0
      /\ i < 1 /\ 1 < j => c1 = 0
      /\ i < 2 /\ 2 < j => c2 = 0
  BY <1>1
<1>6. /\ j = 0 => LastSize(j) = c0
      /\ j = 1 => LastSize(j) = c1
      /\ j = 2 => LastSize(j) = c2
      /\ j = 3 => LastSize(j) = c3
  BY <1>1
<1>7. j = 0 \/ j = 1 \/ j = 2 \/ j = 3
  OBVIOUS
<1>8. CASE j = 0
  BY <1>3, <1>4, <1>6, <1>8
<1>9. CASE j = 1
  BY <1>3, <1>4, <1>5, <1>6, <1>9
<1>10. CASE j = 2
  BY <1>3, <1>4, <1>5, <1>6, <1>10
<1>11. CASE j = 3
  BY <1>3, <1>4, <1>5, <1>6, <1>11
<1> QED BY <1>7, <1>8, <1>9, <1>10, <1>11

\* The number of section k, or below all of them.
Top(k) == IF k = 0 THEN -1 ELSE found[k].id

LEMMA AddsUp ==
    ASSUME NEW off, Layout(bytes, found, off)
    PROVE  Len(bytes) = 8 + LastSize(0) + LastSize(1) + LastSize(2) + LastSize(3)
                          + Sum(Announced(found))
<1>1. found \in Seq(Entry)
  BY DEF Layout
<1>2. PICK n \in Nat : n = Len(found) /\ DOMAIN found = 1 .. n
  BY <1>1
<1>3. \A j, k \in 1 .. n : j < k => found[j].id < found[k].id
  BY <1>2 DEF Layout
<1>4. /\ \A k \in 1 .. n : LastSize(found[k].id) = found[k].size
      /\ \A id : (\A k \in 1 .. n : found[k].id # id) => LastSize(id) = 0
  BY <1>1, <1>2, <1>3, LastSizeIs
<1>5. \A k \in 1 .. n : found[k].id \in 0 .. 3 /\ found[k].size \in Nat
  <2>1. \A k \in 1 .. n : found[k] \in Entry
    BY <1>1, <1>2
  <2> QED BY <2>1 DEF Entry
<1>6. ASSUME NEW l \in 0 .. 3 PROVE LastSize(l) \in Nat
  <2>1. CASE \E k \in 1 .. n : found[k].id = l
    <3>1. PICK k \in 1 .. n : found[k].id = l
      BY <2>1
    <3>2. LastSize(l) = found[k].size /\ found[k].size \in Nat
      BY <1>4, <1>5, <3>1
    <3> QED BY <3>2
  <2>2. CASE ~ \E k \in 1 .. n : found[k].id = l
    BY <1>4, <2>2
  <2> QED BY <2>1, <2>2
<1>7. \A k \in 1 .. n : Announced(found)[k] = 1 + Len(Leb(found[k].size))
  BY <1>2 DEF Announced
<1>8. Announced(found) \in Seq(Nat) /\ Len(Announced(found)) = n
  <2>1. \A k \in 1 .. n : 1 + Len(Leb(found[k].size)) \in Nat
    BY <1>5, LebType
  <2>2. Announced(found) \in [1 .. n -> Nat]
    BY <1>2, <2>1 DEF Announced
  <2> QED BY <2>2, CountedSeq
<1>9. PICK f : /\ SumOneByOne(Announced(found), n, f) /\ Sum(Announced(found)) = f[n]
               /\ \A k \in 0 .. n : f[k] \in Nat
  BY <1>8, SumIs
<1>10. f[0] = 0 /\ \A k \in 1 .. n : f[k] = f[k - 1] + Announced(found)[k]
  BY <1>9 DEF SumOneByOne
<1>11. /\ off[0] = 8 /\ off[n] = Len(bytes)
       /\ \A k \in 1 .. n : off[k] = off[k - 1] + 1 + Len(Leb(found[k].size)) + found[k].size
       /\ \A k \in 0 .. n : off[k] \in Nat
  BY <1>2 DEF Layout
<1>12. \A k \in 0 .. n : Top(k) \in -1 .. 3
  BY <1>5 DEF Top
<1>13. ASSUME NEW k \in 0 .. n, NEW l \in 0 .. 3, Top(k) < l, k + 1 <= n => l < found[k + 1].id
       PROVE  LastSize(l) = 0
  <2> SUFFICES ASSUME NEW j \in 1 .. n, found[j].id = l PROVE FALSE
    BY <1>4
  <2>1. found[j].id \in 0 .. 3
    BY <1>5
  <2>2. CASE j <= k
    <3>1. k \in 1 .. n /\ Top(k) = found[k].id /\ found[k].id \in 0 .. 3
      BY <1>5, <2>2 DEF Top
    <3>2. j = k \/ found[j].id < found[k].id
      BY <1>3, <2>2, <3>1
    <3> QED BY <1>13, <2>1, <3>1, <3>2
  <2>3. CASE j > k
    <3>1. k + 1 \in 1 .. n /\ l < found[k + 1].id /\ found[k + 1].id \in 0 .. 3
      BY <1>5, <1>13, <2>3
    <3>2. j = k + 1 \/ found[k + 1].id < found[j].id
      BY <1>3, <2>3, <3>1
    <3> QED BY <2>1, <3>1, <3>2
  <2> QED BY <2>2, <2>3
<1> DEFINE P(k) == off[k] = 8 + f[k] + Upto(Top(k))
           N == {k \in Nat : k <= n => P(k)}
<1>14. P(0)
  <2>1. Top(0) = -1
    BY DEF Top
  <2>2. Upto(-1) = 0
    BY DEF Upto
  <2> QED BY <1>10, <1>11, <2>1, <2>2
<1>15. ASSUME NEW k \in Nat, k + 1 <= n, P(k) PROVE P(k + 1)
  <2>1. k \in 0 .. n /\ k + 1 \in 1 .. n /\ (k + 1) - 1 = k /\ k + 1 # 0
    BY <1>15
  <2>2. PICK i \in -1 .. 3, j \in 0 .. 3 : i = Top(k) /\ j = found[k + 1].id
    BY <1>5, <1>12, <2>1
  <2>3. Top(k + 1) = j
    BY <2>1, <2>2 DEF Top
  <2>4. i < j
    <3>1. CASE k = 0
      BY <2>2, <3>1 DEF Top
    <3>2. CASE k # 0
      <4>1. k \in 1 .. n /\ k < k + 1 /\ i = found[k].id
        BY <2>1, <2>2, <3>2 DEF Top
      <4> QED BY <1>3, <2>1, <2>2, <4>1
    <3> QED BY <3>1, <3>2
  <2>5. \A l \in 0 .. 3 : i < l /\ l < j => LastSize(l) = 0
    BY <1>13, <2>1, <2>2
  <2>6. Upto(i) \in Nat /\ Upto(j) = Upto(i) + LastSize(j)
    BY <1>6, <2>4, <2>5, UptoNext
  <2>7. LastSize(j) = found[k + 1].size /\ found[k + 1].size \in Nat
    BY <1>4, <1>5, <2>1, <2>2
  <2>8. PICK m \in Nat : m = Len(Leb(found[k + 1].size))
    BY <2>7, LebType
  <2>9. f[k + 1] = f[k] + (1 + m) /\ f[k] \in Nat
    BY <1>7, <1>9, <1>10, <2>1, <2>8
  <2>10. off[k + 1] = off[k] + 1 + m + found[k + 1].size /\ off[k] \in Nat
    BY <1>11, <2>1, <2>8
  <2>11. off[k] = 8 + f[k] + Upto(i)
    BY <1>15, <2>2
  <2>12. off[k + 1] = 8 + f[k + 1] + Upto(j)
    BY <2>6, <2>7, <2>9, <2>10, <2>11
  <2> QED BY <2>3, <2>12
<1>16. P(n)
  <2> HIDE DEF P
  <2>1. 0 \in N /\ \A k \in N : k + 1 \in N
    BY <1>14, <1>15
  <2>2. N = Nat
    BY <2>1, NatSetInduction
  <2>3. n \in N
    BY <2>2
  <2> QED BY <2>3
<1>17. Upto(3) = Upto(Top(n))
  <2>1. PICK i \in -1 .. 3 : i = Top(n)
    BY <1>12
  <2>2. CASE i = 3
    BY <2>1, <2>2
  <2>3. CASE i < 3
    <3>1. \A l \in 0 .. 3 : i < l => LastSize(l) = 0
      <4>1. n \in 0 .. n /\ ~ (n + 1 <= n)
        OBVIOUS
      <4> QED BY <1>13, <2>1, <4>1
    <3>2. Upto(i) \in Nat /\ Upto(3) = Upto(i) + LastSize(3)
      BY <1>6, <2>3, <3>1, UptoNext
    <3>3. LastSize(3) = 0
      BY <2>3, <3>1
    <3> QED BY <2>1, <3>2, <3>3
  <2> QED BY <2>2, <2>3
<1>18. Upto(3) = LastSize(0) + LastSize(1) + LastSize(2) + LastSize(3)
  BY DEF Upto
<1>19. /\ LastSize(0) \in Nat /\ LastSize(1) \in Nat /\ LastSize(2) \in Nat /\ LastSize(3) \in Nat
       /\ f[n] \in Nat
  BY <1>6, <1>9
<1>20. Len(bytes) = 8 + f[n] + Upto(3)
  BY <1>11, <1>16, <1>17
<1> QED BY <1>9, <1>18, <1>19, <1>20

-----------------------------------------------------------------------------
(***************************************************************************)
(* The walk.                                                               *)
(***************************************************************************)

Taken == [id : Nat, size : Nat]

\* i is the beginning of b, and all of it unless it was cut.
Beginning(i, b) == /\ i \in Seq(Nat) /\ 8 <= Len(i) /\ Len(i) <= Len(b)
                   /\ \A k \in 1 .. Len(i) : i[k] = b[k]

\* The walk is behind section j.
Behind(j, p, f, s, off) ==
    p = off[j] /\ \A k \in 1 .. j : f[k] = s[k]

\* The size of section j was cut, and the walk is at the end.
Astray(j, i, p, f, b, s) ==
    /\ j >= 1 /\ Len(i) < Len(b) /\ p \in Nat /\ p >= Len(i)
    /\ \A k \in 1 .. j : f[k].id = s[k].id
    /\ \A k \in 1 .. j - 1 : f[k] = s[k]

WalkAt(i, p, f, b, s, off) ==
    /\ Beginning(i, b) /\ f \in Seq(Taken) /\ Len(f) \in 0 .. Len(s)
    /\ Behind(Len(f), p, f, s, off) \/ Astray(Len(f), i, p, f, b, s)

LaidOut(b, s, off, n) ==
    /\ b \in Seq(Nat) /\ Len(b) \in Nat /\ s \in Seq(Entry) /\ DOMAIN s = 1 .. n
    /\ \A k \in 1 .. n : s[k].id \in 0 .. 3 /\ s[k].size \in Nat /\ IsU32(s[k].size)
    /\ off[0] = 8 /\ off[n] = Len(b) /\ \A k \in 0 .. n : off[k] \in Nat
    /\ \A k \in 1 .. n :
          /\ Leb(s[k].size) \in Seq(Nat) /\ Len(Leb(s[k].size)) \in Nat
          /\ off[k] = off[k - 1] + 1 + Len(Leb(s[k].size)) + s[k].size /\ off[k] <= Len(b)
          /\ b[off[k - 1] + 1] = s[k].id
          /\ \A i \in 1 .. Len(Leb(s[k].size)) : b[off[k - 1] + 1 + i] = Leb(s[k].size)[i]

LEMMA LayoutIs ==
    ASSUME NEW b, NEW s, NEW off, Layout(b, s, off), NEW n \in Nat, n = Len(s)
    PROVE  LaidOut(b, s, off, n)
<1>1. b \in Seq(Nat) /\ s \in Seq(Entry)
  BY DEF Layout
<1>2. Len(b) \in Nat /\ DOMAIN s = 1 .. n
  BY <1>1
<1>3. ASSUME NEW k \in 1 .. n
      PROVE  s[k].id \in 0 .. 3 /\ s[k].size \in Nat /\ IsU32(s[k].size)
  <2>1. s[k] \in Entry
    BY <1>1
  <2>2. s[k].id \in 0 .. 3 /\ s[k].size \in Nat
    BY <2>1 DEF Entry
  <2>3. IsU32(s[k].size)
    BY DEF Layout
  <2> QED BY <2>2, <2>3
<1>4. ASSUME NEW k \in 1 .. n PROVE Leb(s[k].size) \in Seq(Nat) /\ Len(Leb(s[k].size)) \in Nat
  <2>1. s[k].size \in Nat
    BY <1>3
  <2>2. Leb(s[k].size) \in Seq(Nat) /\ Len(Leb(s[k].size)) \in 1 .. 5
    BY <2>1, LebType
  <2> QED BY <2>2
<1> QED BY <1>1, <1>2, <1>3, <1>4 DEF Layout, LaidOut

LEMMA WalkBegins ==
    ASSUME NEW b, NEW s, NEW off, Layout(b, s, off),
           NEW n \in Nat, 8 <= n, n <= Len(b)
    PROVE  WalkAt(SubSeq(b, 1, n), 8, <<>>, b, s, off)
<1>1. PICK m \in Nat : m = Len(s)
  BY DEF Layout
<1>91. LaidOut(b, s, off, m)
  BY <1>1, LayoutIs
<1>2. b \in Seq(Nat) /\ Len(b) \in Nat /\ off[0] = 8
  BY <1>1, <1>91 DEF LaidOut
<1>3. PICK i : i = SubSeq(b, 1, n)
  OBVIOUS
<1>4. i \in Seq(Nat) /\ Len(i) = n /\ \A k \in 1 .. n : i[k] = b[k]
  BY <1>2, <1>3
<1>5. Beginning(i, b)
  BY <1>4 DEF Beginning
<1>6. PICK f : f = <<>>
  OBVIOUS
<1>7. f \in Seq(Taken) /\ Len(f) = 0
  BY <1>6
<1>8. Behind(0, 8, f, s, off)
  BY <1>2 DEF Behind
<1>9. 0 \in 0 .. Len(s)
  BY <1>1
<1> QED BY <1>3, <1>5, <1>6, <1>7, <1>8, <1>9 DEF WalkAt

LEMMA WalkGoesOn ==
    ASSUME NEW b, NEW s, NEW off, Layout(b, s, off), NEW i, NEW p, NEW f,
           WalkAt(i, p, f, b, s, off), p < Len(i),
           NEW t, t = SubSeq(i, p + 2, Len(i)),
           NEW g, g = Append(f, [id |-> i[p + 1], size |-> LebValue(t)])
    PROVE  WalkAt(i, p + 1 + LebLength(t) + LebValue(t), g, b, s, off)
<1>1. PICK m \in Nat : m = Len(s)
  BY DEF Layout
<1>91. LaidOut(b, s, off, m)
  BY <1>1, LayoutIs
<1>2. Beginning(i, b) /\ f \in Seq(Taken) /\ Len(f) \in 0 .. m
  BY <1>1 DEF WalkAt
<1>3. PICK n \in Nat, l \in Nat : n = Len(i) /\ l = Len(b)
  BY <1>1, <1>2, <1>91 DEF LaidOut, Beginning
<1>4. i \in Seq(Nat) /\ n <= l /\ \A k \in 1 .. n : i[k] = b[k]
  BY <1>2, <1>3 DEF Beginning
<1>5. PICK j \in 0 .. m : j = Len(f)
  BY <1>2
<1>6. p = off[j] /\ \A k \in 1 .. j : f[k] = s[k]
  <2>1. ~ Astray(j, i, p, f, b, s)
    BY <1>3 DEF Astray
  <2>2. Behind(j, p, f, s, off)
    BY <1>5, <2>1 DEF WalkAt
  <2> QED BY <2>2 DEF Behind
<1>7. j # m
  BY <1>1, <1>3, <1>4, <1>6, <1>91 DEF LaidOut
<1>8. PICK k \in 1 .. m : k = j + 1
  BY <1>7
<1>9. PICK size \in Nat, id \in Nat, c \in Seq(Nat), w \in Nat :
        size = s[k].size /\ id = s[k].id /\ c = Leb(size) /\ w = Len(c)
  <2>1. s[k].size \in Nat /\ s[k].id \in 0 .. 3
    BY <1>91 DEF LaidOut
  <2>2. Leb(s[k].size) \in Seq(Nat) /\ Len(Leb(s[k].size)) \in Nat
    BY <1>91 DEF LaidOut
  <2>3. s[k].id \in Nat
    BY <2>1
  <2> QED BY ONLY <2>1, <2>2, <2>3
<1>10. k - 1 = j /\ p \in Nat /\ off[k] \in Nat
  <2>1. j \in 0 .. m /\ k \in 0 .. m /\ k - 1 = j
    BY <1>8
  <2> QED BY <1>1, <1>6, <2>1, <1>91 DEF LaidOut
<1>11. /\ IsU32(size) /\ off[k] = p + 1 + w + size /\ off[k] <= l /\ b[p + 1] = id
       /\ \A q \in 1 .. w : b[p + 1 + q] = c[q]
  BY <1>1, <1>3, <1>6, <1>9, <1>10, <1>91 DEF LaidOut
<1>12. t \in Seq(Nat) /\ Len(t) = n - (p + 1) /\ \A q \in 1 .. n - (p + 1) : t[q] = i[p + 1 + q]
  <2>1. p + 2 \in 1 .. n + 1 /\ n \in 0 .. n
    BY <1>3, <1>10
  <2>2. t = SubSeq(i, p + 2, n)
    BY <1>3
  <2>3. /\ t \in Seq(Nat) /\ Len(t) = IF p + 2 <= n THEN n - (p + 2) + 1 ELSE 0
        /\ \A q \in 1 .. n - (p + 2) + 1 : t[q] = i[(p + 2) + q - 1]
    <3>1. \A x \in p + 2 .. n : i[x] \in Nat
      BY <1>3, <1>4, <1>10
    <3>2. p + 2 \in Int /\ n \in Int
      BY <2>1
    <3> QED BY ONLY <2>2, <3>1, <3>2, SubSeqProperties
  <2>4. n - (p + 2) + 1 = n - (p + 1) /\ Len(t) = n - (p + 1)
    BY <1>10, <2>1, <2>3
  <2>5. ASSUME NEW q \in 1 .. n - (p + 1) PROVE t[q] = i[p + 1 + q]
    <3>1. (p + 2) + q - 1 = p + 1 + q
      BY <1>10
    <3> QED BY <2>3, <2>4, <3>1
  <2> QED BY <2>3, <2>4, <2>5
<1>13. i[p + 1] = id
  <2>1. p + 1 \in 1 .. n
    BY <1>3, <1>10
  <2> QED BY <1>4, <1>11, <2>1
<1>14. ASSUME NEW q \in 1 .. w, q \in 1 .. n - (p + 1) PROVE t[q] = c[q]
  <2>1. p + 1 + q \in 1 .. n
    BY <1>3, <1>10, <1>14
  <2> QED BY <1>4, <1>11, <1>12, <1>14, <2>1
<1>15. PICK x, v : x = LebLength(t) /\ v = LebValue(t)
  OBVIOUS
<1>16. s[k] = [id |-> id, size |-> size]
  <2>1. s[k] \in Entry
    BY <1>1, <1>91 DEF LaidOut
  <2> QED BY <1>9, <2>1 DEF Entry
<1>17. v \in Nat =>
         /\ g \in Seq(Taken) /\ Len(g) = k /\ Len(g) \in 0 .. Len(s)
         /\ g[k] = [id |-> id, size |-> v]
         /\ \A q \in 1 .. k - 1 : g[q] = s[q]
  <2> SUFFICES ASSUME v \in Nat
               PROVE  /\ g \in Seq(Taken) /\ Len(g) = k /\ Len(g) \in 0 .. Len(s)
                      /\ g[k] = [id |-> id, size |-> v]
                      /\ \A q \in 1 .. k - 1 : g[q] = s[q]
    OBVIOUS
  <2>1. PICK e \in Taken : e = [id |-> id, size |-> v]
    BY DEF Taken
  <2>2. g = Append(f, e)
    BY <1>13, <1>15, <2>1
  <2>3. /\ g \in Seq(Taken) /\ Len(g) = j + 1 /\ g[j + 1] = e
        /\ \A q \in 1 .. j : g[q] = f[q]
    BY <1>2, <1>5, <2>2
  <2>4. \A q \in 1 .. j : g[q] = s[q]
    BY <1>6, <2>3
  <2> QED BY <1>1, <1>8, <1>10, <2>1, <2>3, <2>4
<1>18. CASE w <= n - (p + 1)
  <2>1. ASSUME NEW q \in 1 .. w PROVE t[q] = c[q]
    <3>1. q \in 1 .. n - (p + 1)
      BY <1>10, <1>18
    <3> QED BY <1>14, <3>1
  <2>2. x = w /\ v = size
    BY <1>9, <1>11, <1>12, <1>15, <1>18, <2>1, LebReads
  <2>3. /\ g \in Seq(Taken) /\ Len(g) = k /\ Len(g) \in 0 .. Len(s)
        /\ g[k] = s[k] /\ \A q \in 1 .. k - 1 : g[q] = s[q]
    BY <1>16, <1>17, <2>2
  <2>4. p + 1 + x + v = off[k]
    BY <1>11, <2>2
  <2>5. ASSUME NEW q \in 1 .. k PROVE g[q] = s[q]
    <3>1. q \in 1 .. k - 1 \/ q = k
      OBVIOUS
    <3> QED BY <2>3, <3>1
  <2>6. Behind(k, p + 1 + x + v, g, s, off)
    BY <2>4, <2>5 DEF Behind
  <2> QED BY <1>2, <1>15, <2>3, <2>6 DEF WalkAt
<1>19. CASE ~ (w <= n - (p + 1))
  <2>1. n - (p + 1) \in Nat /\ n - (p + 1) < w
    BY <1>3, <1>10, <1>19
  <2>2. \A q \in 1 .. Len(t) : t[q] = c[q]
    BY <1>12, <1>14, <2>1
  <2>3. x = n - (p + 1) /\ v \in Nat
    BY <1>9, <1>12, <1>15, <2>1, <2>2, LebCut
  <2>4. /\ g \in Seq(Taken) /\ Len(g) = k /\ Len(g) \in 0 .. Len(s)
        /\ g[k] = [id |-> id, size |-> v] /\ \A q \in 1 .. k - 1 : g[q] = s[q]
    BY <1>17, <2>3
  <2>5. n < l /\ p + 1 + x + v \in Nat /\ p + 1 + x + v >= n
    BY <1>10, <1>11, <2>1, <2>3
  <2>6. ASSUME NEW q \in 1 .. k PROVE g[q].id = s[q].id
    <3>1. q \in 1 .. k - 1 \/ q = k
      OBVIOUS
    <3>2. g[k].id = s[k].id
      BY <1>9, <2>4
    <3> QED BY <2>4, <3>1, <3>2
  <2>7. Astray(k, i, p + 1 + x + v, g, b, s)
    BY <1>3, <1>8, <2>4, <2>5, <2>6 DEF Astray
  <2> QED BY <1>2, <1>15, <2>4, <2>7 DEF WalkAt
<1> QED BY <1>18, <1>19

LEMMA WalkFinds ==
    ASSUME NEW off, Layout(bytes, sections, off),
           WalkAt(input, pos, found, bytes, sections, off)
    PROVE  SectionsFound
<1>1. PICK m \in Nat : m = Len(sections)
  BY DEF Layout
<1>91. LaidOut(bytes, sections, off, m)
  BY <1>1, LayoutIs
<1>2. PICK j \in 0 .. m : j = Len(found)
  BY <1>1 DEF WalkAt
<1>3. found \in Seq(Taken) /\ DOMAIN found = 1 .. j
  BY <1>2 DEF WalkAt
<1>4. \/ Behind(j, pos, found, sections, off)
      \/ Astray(j, input, pos, found, bytes, sections)
  BY <1>2 DEF WalkAt
<1>5. ASSUME NEW k \in DOMAIN found
      PROVE  /\ found[k].id = sections[k].id
             /\ found[k] = sections[k] \/ (k = Len(found) /\ Len(input) < Len(bytes))
  <2>1. CASE Behind(j, pos, found, sections, off)
    BY <1>3, <2>1 DEF Behind
  <2>2. CASE Astray(j, input, pos, found, bytes, sections)
    <3>1. k \in 1 .. j - 1 \/ k = j
      BY <1>3
    <3> QED BY <1>2, <1>3, <2>2, <3>1 DEF Astray
  <2> QED BY <1>4, <2>1, <2>2
<1>6. ASSUME Len(input) = Len(bytes), pos >= Len(bytes)
      PROVE  pos = Len(bytes) /\ found = sections
  <2>1. PICK l \in Nat : l = Len(bytes) /\ l = Len(input)
    BY <1>1, <1>6, <1>91 DEF LaidOut
  <2>2. pos = off[j] /\ \A k \in 1 .. j : found[k] = sections[k]
    <3>1. ~ Astray(j, input, pos, found, bytes, sections)
      BY <2>1 DEF Astray
    <3> QED BY <1>4, <3>1 DEF Behind
  <2>3. j = m
    <3> SUFFICES ASSUME j # m PROVE FALSE
      OBVIOUS
    <3>1. PICK k \in 1 .. m : k = j + 1 /\ k - 1 = j
      OBVIOUS
    <3>2. PICK size \in Nat, w \in Nat : size = sections[k].size /\ w = Len(Leb(size))
      BY <1>1, <1>91 DEF LaidOut
    <3>3. /\ off[k] = off[j] + 1 + w + size /\ off[k] <= l /\ off[j] \in Nat
      BY <1>1, <2>1, <3>1, <3>2, <1>91 DEF LaidOut
    <3> QED BY <1>6, <2>1, <2>2, <3>3
  <2>4. pos = l
    BY <1>1, <2>1, <2>2, <2>3, <1>91 DEF LaidOut
  <2>5. sections \in Seq(Entry) /\ DOMAIN sections = 1 .. m
    BY <1>1, <1>91 DEF LaidOut
  <2>6. found = [k \in 1 .. m |-> found[k]] /\ sections = [k \in 1 .. m |-> sections[k]]
    BY <1>3, <2>3, <2>5
  <2>7. found = sections
    BY <2>2, <2>3, <2>6
  <2> QED BY <2>1, <2>4, <2>7
<1>7. ASSUME Len(input) = Len(bytes), found = sections
      PROVE  SizeReport.stripped =
               Len(Header) + SizeReport.core + SizeReport.types + SizeReport.imports
                 + SizeReport.exports
                 + Sum([k \in DOMAIN sections |-> 1 + Len(Leb(sections[k].size))])
  <2>1. Layout(bytes, found, off) /\ found \in Seq(Entry) /\ Len(input) \in Nat
    BY <1>1, <1>7, <1>91 DEF LaidOut
  <2>2. Len(bytes) = 8 + LastSize(0) + LastSize(1) + LastSize(2) + LastSize(3)
                       + Sum(Announced(found))
    BY <2>1, AddsUp
  <2>3. /\ SizeReport.core = LastSize(0) /\ SizeReport.types = LastSize(1)
        /\ SizeReport.imports = LastSize(2) /\ SizeReport.exports = LastSize(3)
        /\ SizeReport.stripped = Len(input)
    BY <2>1, ReportIs
  <2>4. Len(Header) = 8
    BY DEF Header
  <2>5. Sum(Announced(found)) = Sum([k \in DOMAIN sections |-> 1 + Len(Leb(sections[k].size))])
    BY <1>7 DEF Announced
  <2> QED BY ONLY <1>7, <2>2, <2>3, <2>4, <2>5
<1>8. Len(found) <= Len(sections)
  BY <1>1, <1>2
<1> QED BY <1>5, <1>6, <1>7, <1>8 DEF SectionsFound

-----------------------------------------------------------------------------
(***************************************************************************)
(* Builders made of worlds.                                                *)
(***************************************************************************)

LEMMA TypeOf ==
    ASSUME NEW kind \in {"func", "instance"}, NEW s \in Seq(Functions(Val)), IsU32(Len(s)),
           \A k \in DOMAIN s : IsU32(Len(s[k].params)), kind = "func" => Len(s) = 1
    PROVE  [kind |-> kind, funcs |-> s] \in ComponentType
<1>1. PICK t : t = [kind |-> kind, funcs |-> s]
  OBVIOUS
<1>2. t \in [kind : {"func", "instance", "component"}, funcs : Seq(Functions(Val))]
  BY <1>1
<1>3. t.kind = kind /\ t.funcs = s
  BY <1>1
<1>4. kind # "component"
  OBVIOUS
<1>5. IsType(t)
  BY <1>2, <1>3, <1>4 DEF IsType
<1> QED BY <1>1, <1>2, <1>5 DEF ComponentType

LEMMA ItemTypeIs ==
    ASSUME NEW i, IsItem(i)
    PROVE  ItemType(i) \in ComponentType
<1>1. CASE i.func = Absent
  <2>1. ItemType(i) = [kind |-> "instance", funcs |-> <<>>]
    BY <1>1 DEF ItemType
  <2> DEFINE s == <<>>
  <2>2. s \in Seq(Functions(Val)) /\ Len(s) = 0 /\ DOMAIN s = {}
    OBVIOUS
  <2>3. ItemType(i) = [kind |-> "instance", funcs |-> s]
    BY <2>1
  <2>4. IsU32(0)
    BY DEF IsU32
  <2> HIDE DEF s
  <2>5. IsU32(Len(s)) /\ \A k \in DOMAIN s : IsU32(Len(s[k].params))
    BY <2>2, <2>4
  <2> QED BY <2>2, <2>3, <2>5, TypeOf
<1>2. CASE i.func # Absent
  <2>1. PICK f : f = i.func /\ f \in Functions(Ref) /\ IsU32(Len(f.params))
    BY <1>2 DEF IsItem
  <2>2. /\ f = [name |-> f.name, params |-> f.params, result |-> f.result]
        /\ f.name \in NameLength /\ f.params \in Seq(Param(Ref)) /\ f.result \in Ref \union {Absent}
    BY <2>1 DEF Functions, Param
  <2>3. PICK p \in Seq(Param(Ref)), n \in Nat : p = f.params /\ n = Len(p) /\ DOMAIN p = 1 .. n
    BY <2>2
  <2> DEFINE q == TypedParams(f)
             r == IF f.result = Absent THEN Absent ELSE ValType[f.result]
             g == [name |-> f.name, params |-> q, result |-> r]
  <2>4. ASSUME NEW k \in 1 .. n
        PROVE  [name |-> p[k].name, type |-> ValType[p[k].type]] \in Param(Val)
    <3>1. p[k] \in Param(Ref)
      BY <2>3
    <3>2. p[k].name \in NameLength /\ p[k].type \in Ref
      BY <3>1 DEF Param
    <3>3. ValType[p[k].type] \in Val
      BY <3>2, ConversionAssumption
    <3> QED BY <3>2, <3>3 DEF Param
  <2>5. q \in Seq(Param(Val)) /\ Len(q) = n
    <3>1. q \in [1 .. n -> Param(Val)]
      BY <2>3, <2>4 DEF TypedParams
    <3> HIDE DEF q
    <3> QED BY <3>1, CountedSeq
  <2>6. r \in Val \union {Absent}
    BY <2>2, ConversionAssumption
  <2>7. ItemType(i) = [kind |-> "func", funcs |-> <<g>>]
    BY <1>2, <2>1 DEF ItemType
  <2> HIDE DEF q, r
  <2>8. g \in Functions(Val) /\ IsU32(Len(g.params))
    BY <2>1, <2>2, <2>3, <2>5, <2>6 DEF Functions, Param
  <2> HIDE DEF g
  <2> DEFINE s == <<g>>
  <2>9. s \in Seq(Functions(Val)) /\ Len(s) = 1 /\ s[1] = g /\ \A k \in DOMAIN s : s[k] = g
    BY <2>8
  <2>10. ItemType(i) = [kind |-> "func", funcs |-> s]
    BY <2>7
  <2> HIDE DEF s
  <2>11. IsU32(1)
    BY DEF IsU32
  <2>12. IsU32(Len(s)) /\ \A k \in DOMAIN s : IsU32(Len(s[k].params))
    BY <2>8, <2>9, <2>11
  <2> QED BY <2>9, <2>10, <2>12, TypeOf
<1> QED BY <1>1, <1>2

LEMMA NewBuilderType == NewBuilder \in BuilderType
<1>1. <<>> \in Seq(ComponentType) /\ <<>> \in Seq(ImportEntry) /\ <<>> \in Seq(ExportEntry)
  OBVIOUS
<1> QED BY <1>1 DEF NewBuilder, BuilderType

LEMMA AddItemType ==
    ASSUME NEW b \in BuilderType, NEW i, IsItem(i)
    PROVE  AddItem(b, i) \in BuilderType
<1>1. PICK t \in ComponentType : t = ItemType(i)
  BY ItemTypeIs
<1>2. PICK n \in Nat : n = Len(b.types)
  BY DEF BuilderType
<1>3. Append(b.types, t) \in Seq(ComponentType)
  BY DEF BuilderType
<1>4. i.name \in NameLength
  BY DEF IsItem
<1>5. PICK x \in ImportEntry : x = [name |-> i.name, type |-> n]
  BY <1>4 DEF ImportEntry
<1> DEFINE kind == IF i.func = Absent THEN "instance" ELSE "func"
<1>92. kind \in DOMAIN ExportCode
  BY DEF ExportCode
<1> HIDE DEF kind
<1>6. PICK y \in ExportEntry : y = [name |-> i.name, index |-> n, kind |-> kind]
  BY <1>4, <1>92 DEF ExportEntry
<1>7. Append(b.imports, x) \in Seq(ImportEntry) /\ Append(b.exports, y) \in Seq(ExportEntry)
  BY DEF BuilderType
<1>8. PICK c \in BuilderType : c = [b EXCEPT !.types = Append(b.types, t)]
  BY <1>3 DEF BuilderType
<1>9. c.imports = b.imports /\ c.exports = b.exports
  BY <1>8 DEF BuilderType
<1>10. AddItem(b, i) = IF i.import THEN [c EXCEPT !.imports = Append(c.imports, x)]
                       ELSE [c EXCEPT !.exports = Append(c.exports, y)]
  BY <1>1, <1>2, <1>5, <1>6, <1>8 DEF AddItem, kind
<1> QED BY <1>7, <1>9, <1>10 DEF BuilderType

AddedBy(items, core, m, f) ==
    f = [k \in 0 .. m |-> IF k = 0 THEN [NewBuilder EXCEPT !.core = core]
                          ELSE AddItem(f[k - 1], items[k])]

AddedOneByOne(items, core, m, f) ==
    /\ f[0] = [NewBuilder EXCEPT !.core = core]
    /\ \A k \in 1 .. m : f[k] = AddItem(f[k - 1], items[k])

LEMMA AddedEquations ==
    ASSUME NEW items, NEW core, NEW m \in Nat, NEW f, AddedBy(items, core, m, f)
    PROVE  AddedOneByOne(items, core, m, f)
<1> DEFINE h == [k \in 0 .. m |-> IF k = 0 THEN [NewBuilder EXCEPT !.core = core]
                                  ELSE AddItem(f[k - 1], items[k])]
<1>1. f = h
  BY DEF AddedBy
<1>2. h[0] = [NewBuilder EXCEPT !.core = core] /\ \A k \in 1 .. m : h[k] = AddItem(f[k - 1], items[k])
  <2>1. h[0] = [NewBuilder EXCEPT !.core = core]
    OBVIOUS
  <2>2. ASSUME NEW k \in 1 .. m PROVE h[k] = AddItem(f[k - 1], items[k])
    <3>1. k \in 0 .. m /\ k # 0
      OBVIOUS
    <3> QED BY <3>1
  <2> QED BY <2>1, <2>2
<1> HIDE DEF h
<1>3. f[0] = h[0] /\ \A k \in 1 .. m : f[k] = h[k]
  BY <1>1
<1> QED BY <1>2, <1>3 DEF AddedOneByOne

LEMMA AddedExists ==
    ASSUME NEW items, NEW core, NEW m \in Nat
    PROVE  \E f : AddedBy(items, core, m, f)
<1> DEFINE first == [NewBuilder EXCEPT !.core = core]
           N == {l \in Nat : \E f : AddedBy(items, core, l, f)}
<1>1. 0 \in N
  <2>1. AddedBy(items, core, 0, [k \in 0 .. 0 |-> first])
    BY DEF AddedBy
  <2> QED BY <2>1
<1>2. ASSUME NEW l \in N PROVE l + 1 \in N
  <2>1. PICK f : AddedBy(items, core, l, f)
    OBVIOUS
  <2>2. l \in Nat
    OBVIOUS
  <2>3. f[0] = first /\ \A k \in 1 .. l : f[k] = AddItem(f[k - 1], items[k])
    <3>1. AddedOneByOne(items, core, l, f)
      BY <2>1, <2>2, AddedEquations
    <3> QED BY ONLY <3>1 DEF AddedOneByOne
  <2> DEFINE g == [k \in 0 .. l + 1 |-> IF k <= l THEN f[k] ELSE AddItem(f[k - 1], items[k])]
             h == [k \in 0 .. l + 1 |-> IF k = 0 THEN first ELSE AddItem(g[k - 1], items[k])]
  <2>4. (\A k \in 0 .. l : g[k] = f[k]) /\ g[l + 1] = AddItem(f[l], items[l + 1])
    OBVIOUS
  <2>5. ASSUME NEW k \in 0 .. l + 1 PROVE g[k] = h[k]
    <3> HIDE DEF g
    <3>1. CASE k = 0
      BY <2>3, <2>4, <3>1
    <3>2. CASE k \in 1 .. l
      <4>1. k \in 0 .. l /\ k - 1 \in 0 .. l /\ k # 0
        BY <2>2, <3>2
      <4>2. h[k] = AddItem(g[k - 1], items[k])
        BY <4>1
      <4> QED BY <2>3, <2>4, <3>2, <4>1, <4>2
    <3>3. CASE k = l + 1
      <4>1. k # 0 /\ k - 1 = l /\ l \in 0 .. l
        BY <2>2, <3>3
      <4>2. h[k] = AddItem(g[k - 1], items[k])
        BY <4>1
      <4> QED BY <2>4, <3>3, <4>1, <4>2
    <3> QED BY <3>1, <3>2, <3>3
  <2>6. g = h
    BY <2>5
  <2>7. AddedBy(items, core, l + 1, g)
    BY <2>6 DEF AddedBy
  <2> QED BY <2>7
<1>3. N = Nat
  BY <1>1, <1>2, NatSetInduction
<1> QED BY <1>3

LEMMA WithItemsIs ==
    ASSUME NEW items, NEW core, NEW n \in Nat, n = Len(items)
    PROVE  \E f : AddedOneByOne(items, core, n, f) /\ WithItems(items, core) = f[n]
<1>1. PICK f : AddedBy(items, core, n, f) /\ WithItems(items, core) = f[n]
  <2>1. \E f : AddedBy(items, core, n, f)
    BY AddedExists
  <2>2. WithItems(items, core) = (CHOOSE f : AddedBy(items, core, n, f))[n]
    BY DEF AddedBy, WithItems
  <2> QED BY <2>1, <2>2
<1> QED BY <1>1, AddedEquations

LEMMA WithItemsType ==
    ASSUME NEW items \in World, NEW core \in Nat \union {Absent}
    PROVE  WithItems(items, core) \in BuilderType
<1>1. PICK n \in Nat : n = Len(items) /\ DOMAIN items = 1 .. n
  BY WorldAssumption
<1>2. \A k \in 1 .. n : IsItem(items[k])
  BY <1>1, WorldAssumption
<1>3. PICK f : AddedOneByOne(items, core, n, f) /\ WithItems(items, core) = f[n]
  BY <1>1, WithItemsIs
<1>4. /\ f[0] = [NewBuilder EXCEPT !.core = core]
      /\ \A k \in 1 .. n : f[k] = AddItem(f[k - 1], items[k])
  BY <1>3 DEF AddedOneByOne
<1> DEFINE N == {k \in Nat : k <= n => f[k] \in BuilderType}
<1>5. 0 \in N
  <2>1. [NewBuilder EXCEPT !.core = core] \in BuilderType
    BY NewBuilderType DEF BuilderType
  <2> QED BY <1>4, <2>1
<1>6. ASSUME NEW k \in N PROVE k + 1 \in N
  <2> SUFFICES ASSUME k + 1 <= n PROVE f[k + 1] \in BuilderType
    OBVIOUS
  <2>1. k \in Nat /\ k + 1 \in 1 .. n /\ (k + 1) - 1 = k /\ f[k] \in BuilderType
    OBVIOUS
  <2>2. f[k + 1] = AddItem(f[k], items[k + 1])
    BY ONLY <1>4, <2>1
  <2>3. IsItem(items[k + 1])
    BY <1>2, <2>1
  <2> QED BY <2>1, <2>2, <2>3, AddItemType
<1>7. n \in N
  <2>1. N = Nat
    BY <1>5, <1>6, NatSetInduction
  <2> QED BY <2>1
<1> QED BY <1>3, <1>7

-----------------------------------------------------------------------------
(***************************************************************************)
(* The sections are found.                                                 *)
(***************************************************************************)

Laid(b, s) == \E off : Layout(b, s, off)

Walking(i, p, f, b, s) == \E off : Layout(b, s, off) /\ WalkAt(i, p, f, b, s, off)

\* What a build left is laid out, and a reader is somewhere on its walk.
BinaryInv ==
    /\ builder \in BuilderType
    /\ bytes = <<>> \/ Laid(bytes, sections)
    /\ pos # Absent => Walking(input, pos, found, bytes, sections)

LEMMA BuildLays ==
    ASSUME NEW b \in BuilderType, BuildOf(b)
    PROVE  Laid(bytes', sections')
<1>1. PICK made : made = Sections(b)
  OBVIOUS
<1>2. /\ \A k \in DOMAIN made : IsU32(Len(made[k].data))
      /\ bytes' = Built(made)
      /\ sections' = [k \in DOMAIN made |-> [id |-> made[k].id, size |-> Len(made[k].data)]]
  BY <1>1 DEF BuildOf
<1>3. Ordered(made, 3)
  BY <1>1, SectionsOrdered
<1>4. \E off : Layout(Built(made), sections', off)
  BY <1>2, <1>3, BuiltLayout
<1> QED BY <1>2, <1>4 DEF Laid

LEMMA BuilderStays ==
    ASSUME BinaryInv, builder' \in BuilderType, UNCHANGED <<bytes, reader, sections>>
    PROVE  BinaryInv'
<1>1. /\ bytes' = bytes /\ sections' = sections /\ input' = input /\ pos' = pos /\ found' = found
  BY DEF reader
<1>2. bytes' = <<>> \/ Laid(bytes', sections')
  BY <1>1 DEF BinaryInv
<1>3. pos' # Absent => Walking(input', pos', found', bytes', sections')
  BY <1>1 DEF BinaryInv
<1> QED BY <1>2, <1>3 DEF BinaryInv

LEMMA BinaryInvNext == BinaryInv /\ [BinaryNext]_binaryVars => BinaryInv'
<1> SUFFICES ASSUME BinaryInv, [BinaryNext]_binaryVars PROVE BinaryInv'
  OBVIOUS
<1>1. builder \in BuilderType /\ MaxItems \in Nat
  BY NumberAssumption DEF BinaryInv, IsU32
<1>2. ASSUME NEW n \in ModuleSize, SetCoreModule(n) PROVE BinaryInv'
  <2>1. builder' = [builder EXCEPT !.core = n] /\ UNCHANGED <<bytes, reader, sections>>
    BY <1>2 DEF SetCoreModule
  <2>2. n \in Nat
    BY NumberAssumption
  <2>3. builder' \in BuilderType
    BY <1>1, <2>1, <2>2 DEF BuilderType
  <2> QED BY <2>1, <2>3, BuilderStays
<1>3. ASSUME NEW t \in Type, AddType(t) PROVE BinaryInv'
  <2>1. /\ builder' = [builder EXCEPT !.types = Append(builder.types, t)]
        /\ UNCHANGED <<bytes, reader, sections>>
    BY <1>3 DEF AddType
  <2>2. t \in ComponentType
    BY TypeAssumption DEF IsType, ComponentType
  <2>3. Append(builder.types, t) \in Seq(ComponentType)
    BY <1>1, <2>2 DEF BuilderType
  <2>4. builder' \in BuilderType
    BY <1>1, <2>1, <2>3 DEF BuilderType
  <2> QED BY <2>1, <2>4, BuilderStays
<1>4. ASSUME NEW name \in NameLength, NEW index \in 0 .. MaxItems - 1, AddImport(name, index)
      PROVE  BinaryInv'
  <2>1. PICK e \in ImportEntry : e = [name |-> name, type |-> index]
    <3>1. index \in Nat
      BY <1>1
    <3> QED BY <3>1 DEF ImportEntry
  <2>2. /\ builder' = [builder EXCEPT !.imports = Append(builder.imports, e)]
        /\ UNCHANGED <<bytes, reader, sections>>
    BY <1>4, <2>1 DEF AddImport
  <2>3. Append(builder.imports, e) \in Seq(ImportEntry)
    BY <1>1 DEF BuilderType
  <2>4. builder' \in BuilderType
    BY <1>1, <2>2, <2>3 DEF BuilderType
  <2> QED BY <2>2, <2>4, BuilderStays
<1>5. ASSUME NEW name \in NameLength, NEW index \in 0 .. MaxItems - 1,
             NEW kind \in DOMAIN ExportCode, AddExport(name, kind, index)
      PROVE  BinaryInv'
  <2>1. PICK e \in ExportEntry : e = [name |-> name, kind |-> kind, index |-> index]
    <3>1. index \in Nat
      BY <1>1
    <3> QED BY <3>1 DEF ExportEntry
  <2>2. /\ builder' = [builder EXCEPT !.exports = Append(builder.exports, e)]
        /\ UNCHANGED <<bytes, reader, sections>>
    BY <1>5, <2>1 DEF AddExport
  <2>3. Append(builder.exports, e) \in Seq(ExportEntry)
    BY <1>1 DEF BuilderType
  <2>4. builder' \in BuilderType
    BY <1>1, <2>2, <2>3 DEF BuilderType
  <2> QED BY <2>2, <2>4, BuilderStays
<1>6. ASSUME NEW items \in World, FromWorld(items) PROVE BinaryInv'
  <2>1. builder' = WithItems(items, Absent) /\ UNCHANGED <<bytes, reader, sections>>
    BY <1>6 DEF FromWorld, FromItems
  <2>2. builder' \in BuilderType
    BY <2>1, WithItemsType
  <2> QED BY <2>1, <2>2, BuilderStays
<1>7. ASSUME bytes = <<>>, NEW items \in World, NEW core \in ModuleSize, Adapt(items, core)
      PROVE  BinaryInv'
  <2>1. builder' = WithItems(items, core) /\ BuildOf(builder') /\ pos' = pos
    BY <1>7 DEF Adapt, FromItems, reader
  <2>2. core \in Nat
    BY NumberAssumption
  <2>3. builder' \in BuilderType
    BY <2>1, <2>2, WithItemsType
  <2>4. Laid(bytes', sections')
    BY <2>1, <2>3, BuildLays
  <2>5. pos = Absent
    <3> SUFFICES ASSUME pos # Absent PROVE FALSE
      OBVIOUS
    <3>1. PICK off : WalkAt(input, pos, found, bytes, sections, off)
      BY DEF BinaryInv, Walking
    <3>2. 8 <= Len(input) /\ Len(input) <= Len(bytes) /\ input \in Seq(Nat)
      BY <3>1 DEF WalkAt, Beginning
    <3>3. Len(bytes) = 0
      BY <1>7
    <3> QED BY <3>2, <3>3
  <2> QED BY <2>1, <2>3, <2>4, <2>5 DEF BinaryInv
<1>8. ASSUME Build PROVE BinaryInv'
  <2>1. builder' = builder /\ BuildOf(builder) /\ pos = Absent /\ pos' = pos
    BY <1>8 DEF Build, reader
  <2>2. Laid(bytes', sections')
    BY <1>1, <2>1, BuildLays
  <2> QED BY <1>1, <2>1, <2>2 DEF BinaryInv
<1>9. ASSUME NEW n \in CutAt \union {Len(bytes)}, Read(n) PROVE BinaryInv'
  <2>1. /\ n >= 8 /\ (n = Len(bytes) \/ (n \in CutAt /\ n < Len(bytes)))
        /\ input' = SubSeq(bytes, 1, n) /\ pos' = 8 /\ found' = <<>>
        /\ builder' = builder /\ bytes' = bytes /\ sections' = sections
    BY <1>9 DEF Read
  <2>2. Laid(bytes, sections)
    <3> SUFFICES ASSUME bytes = <<>> PROVE FALSE
      BY DEF BinaryInv
    <3>1. Len(bytes) = 0
      OBVIOUS
    <3>2. n \in Nat
      BY <2>1, <3>1, NumberAssumption
    <3> QED BY <2>1, <3>1, <3>2
  <2>3. PICK off : Layout(bytes, sections, off)
    BY <2>2 DEF Laid
  <2>4. bytes \in Seq(Nat)
    BY <2>3 DEF Layout
  <2>5. n \in Nat /\ n <= Len(bytes)
    BY <2>1, <2>4, NumberAssumption
  <2>6. WalkAt(SubSeq(bytes, 1, n), 8, <<>>, bytes, sections, off)
    BY <2>1, <2>3, <2>5, WalkBegins
  <2>7. Walking(input', pos', found', bytes', sections')
    BY <2>1, <2>3, <2>6 DEF Walking
  <2> QED BY <1>1, <2>1, <2>2, <2>7 DEF BinaryInv
<1>10. ASSUME Section PROVE BinaryInv'
  <2>1. PICK t : t = SubSeq(input, pos + 2, Len(input))
    OBVIOUS
  <2>2. /\ pos # Absent /\ pos < Len(input)
        /\ found' = Append(found, [id |-> input[pos + 1], size |-> LebValue(t)])
        /\ pos' = pos + 1 + LebLength(t) + LebValue(t)
        /\ builder' = builder /\ bytes' = bytes /\ input' = input /\ sections' = sections
    BY <1>10, <2>1 DEF Section
  <2>3. PICK off : Layout(bytes, sections, off) /\ WalkAt(input, pos, found, bytes, sections, off)
    BY <2>2 DEF BinaryInv, Walking
  <2>4. PICK g : g = Append(found, [id |-> input[pos + 1], size |-> LebValue(t)])
    OBVIOUS
  <2>5. WalkAt(input, pos + 1 + LebLength(t) + LebValue(t), g, bytes, sections, off)
    BY <2>1, <2>2, <2>3, <2>4, WalkGoesOn
  <2>6. Walking(input', pos', found', bytes', sections')
    BY <2>2, <2>3, <2>4, <2>5 DEF Walking
  <2>7. bytes' = <<>> \/ Laid(bytes', sections')
    BY <2>2 DEF BinaryInv
  <2> QED BY <1>1, <2>2, <2>6, <2>7 DEF BinaryInv
<1>11. ASSUME Report PROVE BinaryInv'
  <2>1. pos' = Absent /\ builder' = builder /\ bytes' = bytes /\ sections' = sections
    BY <1>11 DEF Report
  <2>2. bytes' = <<>> \/ Laid(bytes', sections')
    BY <2>1 DEF BinaryInv
  <2> QED BY <1>1, <2>1, <2>2 DEF BinaryInv
<1>12. ASSUME UNCHANGED binaryVars PROVE BinaryInv'
  <2>1. builder' = builder /\ UNCHANGED <<bytes, reader, sections>>
    BY <1>12 DEF binaryVars, reader
  <2> QED BY <1>1, <2>1, BuilderStays
<1>13. CASE BinaryNext
  BY <1>2, <1>3, <1>4, <1>5, <1>6, <1>7, <1>8, <1>9, <1>10, <1>11, <1>13 DEF BinaryNext
<1> QED BY <1>12, <1>13

\* The walk finds the sections the builder wrote, whatever was built and wherever the bytes
\* were cut short: BinaryInv says where each section is, and where on its way the walk is.
THEOREM SectionsFoundAlways == BinarySpec => []SectionsFound
<1>1. BinaryInit => BinaryInv
  BY NewBuilderType DEF BinaryInit, BinaryInv
<1>2. BinaryInv => SectionsFound
  <2> SUFFICES ASSUME BinaryInv PROVE SectionsFound
    OBVIOUS
  <2>1. CASE pos = Absent
    BY <2>1 DEF SectionsFound
  <2>2. CASE pos # Absent
    <3>1. PICK off : Layout(bytes, sections, off)
                     /\ WalkAt(input, pos, found, bytes, sections, off)
      BY <2>2 DEF BinaryInv, Walking
    <3> QED BY <3>1, WalkFinds
  <2> QED BY <2>1, <2>2
<1> QED BY <1>1, <1>2, BinaryInvNext, PTL DEF BinarySpec

-----------------------------------------------------------------------------
(***************************************************************************)
(* Bytes that can be read back.                                            *)
(***************************************************************************)

\* What begins with the bytes x of t, and with y of u, has t and u the same.
Reads(x, t, y, u) == \A r, q \in Seq(Nat) : x \o r = y \o q => t = u /\ x = y

LEMMA FirstByte ==
    ASSUME NEW a, NEW b, NEW r \in Seq(Nat), NEW q \in Seq(Nat), a \in Nat, b \in Nat,
           <<a>> \o r = <<b>> \o q
    PROVE  a = b /\ r = q
<1>1. <<a>> \in Seq(Nat) /\ Len(<<a>>) = 1 /\ <<a>>[1] = a
  BY ByteType
<1>2. <<b>> \in Seq(Nat) /\ Len(<<b>>) = 1 /\ <<b>>[1] = b
  BY ByteType
<1>3. (<<a>> \o r)[1] = a
  <2>1. 1 \in 1 .. 1
    OBVIOUS
  <2> QED BY <1>1, <2>1, Joined
<1>4. (<<b>> \o q)[1] = b
  <2>1. 1 \in 1 .. 1
    OBVIOUS
  <2> QED BY <1>2, <2>1, Joined
<1>5. a = b
  BY <1>3, <1>4
<1>6. r = q
  BY <1>1, <1>5, Cancelled
<1> QED BY <1>5, <1>6

LEMMA ByteRead == ASSUME NEW a \in Nat, NEW b \in Nat PROVE Reads(<<a>>, a, <<b>>, b)
  BY FirstByte DEF Reads

LEMMA LebRead ==
    ASSUME NEW n, NEW m, IsU32(n), IsU32(m)
    PROVE  Reads(Leb(n), n, Leb(m), m)
<1> SUFFICES ASSUME NEW r \in Seq(Nat), NEW q \in Seq(Nat), Leb(n) \o r = Leb(m) \o q
             PROVE  n = m
  BY DEF Reads
<1>1. n \in Nat /\ m \in Nat
  BY DEF IsU32
<1>2. Leb(n) \in Seq(Nat) /\ Leb(m) \in Seq(Nat)
  BY <1>1, LebType
<1>3. PICK s \in Seq(Nat) : s = Leb(n) \o r /\ s = Leb(m) \o q
  BY <1>2, Joined
<1>4. Len(Leb(n)) <= Len(s) /\ \A k \in 1 .. Len(Leb(n)) : s[k] = Leb(n)[k]
  <2>1. Len(Leb(n)) \in Nat /\ Len(r) \in Nat
    BY <1>2
  <2>2. /\ Len(Leb(n) \o r) = Len(Leb(n)) + Len(r)
        /\ \A k \in 1 .. Len(Leb(n)) : (Leb(n) \o r)[k] = Leb(n)[k]
    BY ONLY <1>2, r \in Seq(Nat), Joined
  <2> QED BY ONLY <1>3, <2>1, <2>2
<1>5. Len(Leb(m)) <= Len(s) /\ \A k \in 1 .. Len(Leb(m)) : s[k] = Leb(m)[k]
  <2>1. Len(Leb(m)) \in Nat /\ Len(q) \in Nat
    BY <1>2
  <2>2. /\ Len(Leb(m) \o q) = Len(Leb(m)) + Len(q)
        /\ \A k \in 1 .. Len(Leb(m)) : (Leb(m) \o q)[k] = Leb(m)[k]
    BY ONLY <1>2, q \in Seq(Nat), Joined
  <2> QED BY ONLY <1>3, <2>1, <2>2
<1>6. LebValue(s) = n
  BY <1>4, LebReads
<1>7. LebValue(s) = m
  BY <1>5, LebReads
<1> QED BY <1>6, <1>7

Regroups(x, v, r) == (x \o v) \o r = x \o (v \o r)

LEMMA Regrouped == \A x, v, r \in Seq(Nat) : Regroups(x, v, r)
  BY JoinedAgain DEF Regroups

\* The bytes x, v and r are the bytes y, w and q.
Alike(x, v, r, y, w, q) == (x \o v) \o r = (y \o w) \o q
RestAlike(x, v, r, y, w, q) == x = y /\ v \o r = w \o q

\* What is read is taken away, and the rest begins alike again.
LEMMA HeadRead ==
    ASSUME NEW x \in Seq(Nat), NEW y \in Seq(Nat), NEW v \in Seq(Nat), NEW w \in Seq(Nat),
           NEW r \in Seq(Nat), NEW q \in Seq(Nat), Alike(x, v, r, y, w, q),
           NEW t, NEW u, Reads(x, t, y, u)
    PROVE  t = u /\ RestAlike(x, v, r, y, w, q)
<1>1. v \o r \in Seq(Nat) /\ w \o q \in Seq(Nat)
  BY Joined
<1>2. Regroups(x, v, r) /\ Regroups(y, w, q)
  BY Regrouped
<1>3. x \o (v \o r) = y \o (w \o q)
  <2>1. (x \o v) \o r = x \o (v \o r)
    BY <1>2 DEF Regroups
  <2>2. (y \o w) \o q = y \o (w \o q)
    BY <1>2 DEF Regroups
  <2> QED BY <2>1, <2>2 DEF Alike
<1>4. t = u /\ x = y
  BY <1>1, <1>3 DEF Reads
<1>5. v \o r = w \o q
  <2>1. x \o (v \o r) = x \o (w \o q)
    BY <1>3, <1>4
  <2> QED BY ONLY x \in Seq(Nat), <1>1, <2>1, Cancelled
<1> QED BY <1>4, <1>5 DEF RestAlike

\* Two things one after the other; the second is read when the first was.
LEMMA PairRead ==
    ASSUME NEW x \in Seq(Nat), NEW y \in Seq(Nat), NEW t, NEW u, Reads(x, t, y, u),
           NEW v \in Seq(Nat), NEW w \in Seq(Nat), NEW a, NEW b, t = u => Reads(v, a, w, b)
    PROVE  Reads(x \o v, <<t, a>>, y \o w, <<u, b>>)
<1> SUFFICES ASSUME NEW r \in Seq(Nat), NEW q \in Seq(Nat), (x \o v) \o r = (y \o w) \o q
             PROVE  t = u /\ a = b /\ x \o v = y \o w
  BY DEF Reads
<1>1. t = u /\ x = y /\ v \o r = w \o q
  <2>1. Alike(x, v, r, y, w, q)
    BY DEF Alike
  <2>2. t = u /\ RestAlike(x, v, r, y, w, q)
    BY <2>1, HeadRead
  <2> QED BY <2>2 DEF RestAlike
<1>2. a = b /\ v = w
  BY <1>1 DEF Reads
<1> QED BY <1>1, <1>2

LEMMA TextRead ==
    ASSUME NEW n \in NameLength, NEW m \in NameLength
    PROVE  Reads(Text(n), n, Text(m), m)
<1>1. IsU32(n) /\ IsU32(m) /\ n \in Nat /\ m \in Nat
  BY NameIs
<1>2. /\ Letters(n) \in Seq(Nat) /\ Len(Letters(n)) = n
      /\ Letters(m) \in Seq(Nat) /\ Len(Letters(m)) = m
  BY <1>1, LettersType
<1>3. Text(n) = Leb(n) \o Letters(n) /\ Text(m) = Leb(m) \o Letters(m)
  BY <1>2 DEF Text, Counted
<1>4. Reads(Leb(n), n, Leb(m), m)
  BY <1>1, LebRead
<1>5. Leb(n) \in Seq(Nat) /\ Leb(m) \in Seq(Nat)
  BY <1>1, LebType
<1> SUFFICES ASSUME NEW r \in Seq(Nat), NEW q \in Seq(Nat), Text(n) \o r = Text(m) \o q
             PROVE  n = m
  BY DEF Reads
<1>6. Alike(Leb(n), Letters(n), r, Leb(m), Letters(m), q)
  BY <1>3 DEF Alike
<1> QED BY ONLY <1>2, <1>4, <1>5, <1>6, r \in Seq(Nat), q \in Seq(Nat), HeadRead

LEMMA OptionalRead ==
    ASSUME NEW e, NEW t, NEW u, t # Absent => e[t] \in Seq(Nat), u # Absent => e[u] \in Seq(Nat),
           t # Absent /\ u # Absent => Reads(e[t], t, e[u], u)
    PROVE  Reads(Optional(e, t), t, Optional(e, u), u)
<1> DEFINE flag(a) == IF a = Absent THEN 0 ELSE 1
           rest(a) == IF a = Absent THEN <<>> ELSE e[a]
<1>1. PICK v \in Seq(Nat), w \in Seq(Nat), a \in Nat, b \in Nat :
          v = rest(t) /\ w = rest(u) /\ a = flag(t) /\ b = flag(u)
  <2>1. <<>> \in Seq(Nat)
    OBVIOUS
  <2>2. rest(t) \in Seq(Nat) /\ rest(u) \in Seq(Nat)
    BY <2>1
  <2> QED BY <2>2
<1>2. <<a>> \in Seq(Nat) /\ <<b>> \in Seq(Nat)
  BY ByteType
<1>3. Optional(e, t) = <<a>> \o v
  <2>1. CASE t = Absent
    <3>1. Optional(e, t) = <<0>> /\ a = 0 /\ v = <<>>
      BY <1>1, <2>1 DEF Optional
    <3> QED BY <1>2, <3>1
  <2>2. CASE t # Absent
    BY <1>1, <2>2 DEF Optional
  <2> QED BY <2>1, <2>2
<1>4. Optional(e, u) = <<b>> \o w
  <2>1. CASE u = Absent
    <3>1. Optional(e, u) = <<0>> /\ b = 0 /\ w = <<>>
      BY <1>1, <2>1 DEF Optional
    <3> QED BY <1>2, <3>1
  <2>2. CASE u # Absent
    BY <1>1, <2>2 DEF Optional
  <2> QED BY <2>1, <2>2
<1> SUFFICES ASSUME NEW r \in Seq(Nat), NEW q \in Seq(Nat), Optional(e, t) \o r = Optional(e, u) \o q
             PROVE  t = u
  BY DEF Reads
<1>5. Reads(<<a>>, a, <<b>>, b)
  BY ByteRead
<1>6. Alike(<<a>>, v, r, <<b>>, w, q)
  BY <1>3, <1>4 DEF Alike
<1>7. a = b /\ RestAlike(<<a>>, v, r, <<b>>, w, q)
  BY ONLY <1>2, <1>5, <1>6, v \in Seq(Nat), w \in Seq(Nat), r \in Seq(Nat), q \in Seq(Nat), HeadRead
<1>8. CASE t # Absent /\ u # Absent
  <2>1. Reads(v, t, w, u)
    BY <1>1, <1>8
  <2> QED BY <1>7, <2>1 DEF Reads, RestAlike
<1>9. CASE t = Absent <=> u # Absent
  <2>1. a # b
    BY <1>1, <1>9
  <2> QED BY <1>7, <2>1
<1> QED BY <1>8, <1>9

\* A list whose entries can be read.
LEMMA ListRead ==
    ASSUME NEW s \in Seq(Seq(Nat)), NEW z \in Seq(Seq(Nat)), IsU32(Len(s)), IsU32(Len(z)),
           Len(s) = Len(z) => \A k \in 1 .. Len(s) : Tells(s[k], z[k])
    PROVE  Reads(Listed(s), s, Listed(z), z)
<1>1. Len(s) \in Nat /\ Len(z) \in Nat
  OBVIOUS
<1>2. /\ Leb(Len(s)) \in Seq(Nat) /\ Leb(Len(z)) \in Seq(Nat)
      /\ Concat(s) \in Seq(Nat) /\ Concat(z) \in Seq(Nat)
  BY <1>1, LebType, ConcatType
<1>3. Reads(Leb(Len(s)), Len(s), Leb(Len(z)), Len(z))
  BY LebRead
<1> SUFFICES ASSUME NEW r \in Seq(Nat), NEW q \in Seq(Nat), Listed(s) \o r = Listed(z) \o q
             PROVE  s = z
  BY DEF Reads
<1>4. Alike(Leb(Len(s)), Concat(s), r, Leb(Len(z)), Concat(z), q)
  BY DEF Listed, Alike
<1>5. Len(s) = Len(z) /\ RestAlike(Leb(Len(s)), Concat(s), r, Leb(Len(z)), Concat(z), q)
  BY ONLY <1>2, <1>3, <1>4, r \in Seq(Nat), q \in Seq(Nat), HeadRead
<1> QED BY <1>5, ConcatTells DEF RestAlike

LEMMA EntriesRead ==
    ASSUME NEW s \in Seq(Seq(Nat)), NEW z \in Seq(Seq(Nat)), IsU32(Len(s)), IsU32(Len(z)),
           NEW S, NEW a \in Seq(S), NEW b \in Seq(S), Len(a) = Len(s), Len(b) = Len(z),
           Len(s) = Len(z) => \A k \in 1 .. Len(s) : Reads(s[k], a[k], z[k], b[k])
    PROVE  Reads(Listed(s), a, Listed(z), b)
<1>1. Len(s) = Len(z) => \A k \in 1 .. Len(s) : Tells(s[k], z[k])
  BY DEF Reads, Tells
<1>2. Reads(Listed(s), s, Listed(z), z)
  BY <1>1, ListRead
<1>3. ASSUME s = z PROVE a = b
  <2>1. PICK n \in Nat : n = Len(s) /\ n = Len(z) /\ n = Len(a) /\ n = Len(b)
    BY <1>3
  <2>2. ASSUME NEW k \in 1 .. n PROVE a[k] = b[k]
    <3>1. s[k] \in Seq(Nat) /\ z[k] = s[k]
      BY <1>3, <2>1
    <3>2. Reads(s[k], a[k], s[k], b[k])
      BY <2>1, <3>1
    <3>3. <<>> \in Seq(Nat)
      OBVIOUS
    <3> QED BY <3>2, <3>3 DEF Reads
  <2> QED BY <2>1, <2>2, SameSeq
<1> QED BY <1>2, <1>3 DEF Reads

\* The first byte of a code of n is n, or says that more follow.
LEMMA LebBegins ==
    ASSUME NEW n, IsU32(n)
    PROVE  \E b \in Nat, s \in Seq(Nat) : Leb(n) = <<b>> \o s /\ (b = n \/ b >= 128)
<1>0. n \in Nat
  BY DEF IsU32
<1>1. PICK v, size : Digits(n, v, size)
  BY <1>0, LebIs
<1>2. size \in 1 .. 5 /\ Leb(n) \in Seq(Nat) /\ Len(Leb(n)) = size /\ v[0] = n
  BY <1>1 DEF Digits
<1>3. PICK c \in Seq(Nat), m \in Nat : c = Leb(n) /\ Len(c) = m + 1
  <2>1. size - 1 \in Nat /\ (size - 1) + 1 = size
    BY <1>2
  <2> QED BY <1>2, <2>1
<1>4. c[1] \in Nat /\ (c[1] = n \/ c[1] >= 128)
  <2>1. 1 \in 1 .. size /\ (1 < size \/ 1 = size) /\ 1 - 1 = 0
    BY <1>2
  <2>2. /\ 1 < size => Leb(n)[1] >= 128
        /\ 1 = size => Leb(n)[1] < 128
        /\ Leb(n)[1] \in 0 .. 255
        /\ v[1] = v[1 - 1] \div 128
        /\ Leb(n)[1] % 128 = v[1 - 1] % 128
    BY ONLY <1>0, <1>1, <2>1, LebBytes
  <2>3. ASSUME size = 1 PROVE c[1] = n
    <3>1. v[1] = 0
      BY <1>1, <2>3, NothingLeft
    <3>0. Leb(n)[1] \in 0 .. 255 /\ Leb(n)[1] < 128 /\ Leb(n)[1] % 128 = n % 128 /\ Leb(n)[1] = c[1]
      BY ONLY <1>2, <1>3, <2>1, <2>2, <2>3
    <3>2. PICK x \in Nat : x = c[1] /\ x < 128 /\ x % 128 = n % 128
      <4>1. c[1] \in Nat
        BY <1>3
      <4> QED BY ONLY <3>0, <4>1
    <3>3. n \div 128 = 0
      BY ONLY <1>2, <2>1, <2>2, <3>1
    <3>4. n % 128 = n
      BY ONLY <1>0, <3>3
    <3>5. x % 128 = x
      BY <3>2
    <3> QED BY ONLY <3>2, <3>4, <3>5
  <2> QED BY <1>3, <2>1, <2>2, <2>3
<1> DEFINE s == [k \in 1 .. m |-> c[k + 1]]
<1>5. s \in Seq(Nat) /\ Len(s) = m /\ \A k \in 1 .. m : s[k] = c[k + 1]
  <2>1. \A k \in 1 .. m : c[k + 1] \in Nat
    BY <1>3
  <2>2. s \in [1 .. m -> Nat]
    BY <2>1
  <2> QED BY <2>2, CountedSeq
<1> HIDE DEF s
<1>6. <<c[1]>> \in Seq(Nat) /\ Len(<<c[1]>>) = 1 /\ <<c[1]>>[1] = c[1]
  BY <1>4, ByteType
<1>7. PICK d : d = <<c[1]>>
  OBVIOUS
<1>8. /\ d \o s \in Seq(Nat) /\ Len(d \o s) = 1 + m
      /\ (d \o s)[1] = c[1] /\ \A k \in 1 .. m : (d \o s)[1 + k] = s[k]
  <2>1. 1 \in 1 .. 1
    OBVIOUS
  <2> QED BY <1>5, <1>6, <1>7, <2>1, Joined
<1>9. ASSUME NEW k \in 1 .. m + 1 PROVE (d \o s)[k] = c[k]
  <2>1. k = 1 \/ (k - 1 \in 1 .. m /\ 1 + (k - 1) = k /\ (k - 1) + 1 = k)
    OBVIOUS
  <2> QED BY <1>5, <1>8, <2>1
<1>10. c = d \o s
  <2>1. PICK w \in Seq(Nat) : w = d \o s
    BY <1>8
  <2>2. Len(c) = Len(w) /\ \A k \in 1 .. Len(c) : c[k] = w[k]
    BY <1>3, <1>8, <1>9, <2>1
  <2>3. c = w
    BY ONLY <1>3, <2>2, c \in Seq(Nat), w \in Seq(Nat), SameSeq
  <2> QED BY <2>1, <2>3
<1> QED BY <1>3, <1>4, <1>5, <1>7, <1>10

Readable(e, B) == \A x \in B : e[x] \in Seq(Nat) /\ \A y \in B : Reads(e[x], x, e[y], y)

LEMMA OpcodeOf ==
    ASSUME NEW B, Absent \notin B, NEW t, IsValType(t, B)
    PROVE  /\ t.op \in Nat
           /\ t.kind = "primitive" => t.op \in 115 .. 127
           /\ t.kind = "wrapper" => t.op \in {111, 112}
           /\ t.kind = "result" => t.op = 110
           /\ t.kind = "tuple" => t.op = 109
           /\ t.kind = "record" => t.op = 108
           /\ t.kind = "variant" => t.op = 107
           /\ t.kind = "flags" => t.op = 106
           /\ t.kind = "handle" => t.op \in {104, 105}
           /\ t.kind = "ref" => t.op = 0
<1>1. t.op \in 0 .. 127
  BY PartsOf
<1>2. /\ Opcode["primitive"] = 115 .. 127 /\ Opcode["wrapper"] = {111, 112}
      /\ Opcode["result"] = {110} /\ Opcode["tuple"] = {109} /\ Opcode["record"] = {108}
      /\ Opcode["variant"] = {107} /\ Opcode["flags"] = {106} /\ Opcode["handle"] = {104, 105}
      /\ Opcode["ref"] = {0}
  BY DEF Opcode
<1>3. t.op \in Opcode[t.kind]
  BY DEF IsValType
<1>4. t.op \in Nat
  BY <1>1
<1> QED BY <1>2, <1>3, <1>4

LEMMA KindOfOpcode ==
    ASSUME NEW B, Absent \notin B, NEW t, NEW u, IsValType(t, B), IsValType(u, B),
           t.kind # "ref", u.kind # "ref", t.op = u.op
    PROVE  t.kind = u.kind
<1>1. /\ t.op \in Nat
      /\ t.kind = "primitive" => t.op \in 115 .. 127
      /\ t.kind = "wrapper" => t.op \in {111, 112}
      /\ t.kind = "result" => t.op = 110
      /\ t.kind = "tuple" => t.op = 109
      /\ t.kind = "record" => t.op = 108
      /\ t.kind = "variant" => t.op = 107
      /\ t.kind = "flags" => t.op = 106
      /\ t.kind = "handle" => t.op \in {104, 105}
  BY OpcodeOf
<1>2. /\ u.kind = "primitive" => u.op \in 115 .. 127
      /\ u.kind = "wrapper" => u.op \in {111, 112}
      /\ u.kind = "result" => u.op = 110
      /\ u.kind = "tuple" => u.op = 109
      /\ u.kind = "record" => u.op = 108
      /\ u.kind = "variant" => u.op = 107
      /\ u.kind = "flags" => u.op = 106
      /\ u.kind = "handle" => u.op \in {104, 105}
  BY OpcodeOf
<1>3. t.kind \in Kinds \ {"ref"} /\ u.kind \in Kinds \ {"ref"}
  BY PartsOf
<1>4. PICK o \in Nat : o = t.op /\ o = u.op
  BY <1>1
<1> QED BY <1>1, <1>2, <1>3, <1>4 DEF Kinds

LEMMA SameVal ==
    ASSUME NEW B, NEW t, NEW u, IsValType(t, B), IsValType(u, B), t.kind = u.kind, t.op = u.op,
           t.index = u.index, t.names = u.names, t.inner = u.inner
    PROVE  t = u
  BY DEF IsValType

\* The bytes of a type behind its opcode.
Body(e, t) ==
    CASE t.kind = "primitive" -> <<>>
      [] t.kind = "wrapper" -> e[t.inner[1]]
      [] t.kind = "result" -> Optional(e, t.inner[1]) \o Optional(e, t.inner[2])
      [] t.kind = "tuple" -> Listed(Elements(e, t))
      [] t.kind = "record" -> Listed(Fields(e, t))
      [] t.kind = "variant" -> Listed(Alternatives(e, t))
      [] t.kind = "flags" -> Listed(Labels(t))
      [] t.kind = "handle" -> Leb(t.index)

LEMMA BodyIs ==
    ASSUME NEW e, NEW t
    PROVE  /\ t.kind = "primitive" => Body(e, t) = <<>>
           /\ t.kind = "wrapper" => Body(e, t) = e[t.inner[1]]
           /\ t.kind = "result" => Body(e, t) = Optional(e, t.inner[1]) \o Optional(e, t.inner[2])
           /\ t.kind = "tuple" => Body(e, t) = Listed(Elements(e, t))
           /\ t.kind = "record" => Body(e, t) = Listed(Fields(e, t))
           /\ t.kind = "variant" => Body(e, t) = Listed(Alternatives(e, t))
           /\ t.kind = "flags" => Body(e, t) = Listed(Labels(t))
           /\ t.kind = "handle" => Body(e, t) = Leb(t.index)
  BY Zenon DEF Body

\* The types inside a result.
LEMMA ResultInner ==
    ASSUME NEW B, Absent \notin B, NEW t, IsValType(t, B), t.kind = "result"
    PROVE  /\ t.inner[1] # Absent => t.inner[1] \in B
           /\ t.inner[2] # Absent => t.inner[2] \in B
<1>1. Len(t.inner) = 2
  BY PartsOf
<1>2. /\ DOMAIN t.inner = 1 .. Len(t.inner)
      /\ \A k \in DOMAIN t.inner : t.inner[k] \in B \/ t.inner[k] = Absent
  BY InnerOf
<1>3. 1 \in DOMAIN t.inner /\ 2 \in DOMAIN t.inner
  BY ONLY <1>1, <1>2
<1> QED BY <1>2, <1>3

LEMMA BodyType ==
    ASSUME NEW B, Absent \notin B, NEW t, IsValType(t, B), t.kind # "ref",
           NEW e, \A x \in B : e[x] \in Seq(Nat)
    PROVE  Body(e, t) \in Seq(Nat) /\ ValBytes(e, t) = <<t.op>> \o Body(e, t)
<1>0. t.op \in Nat /\ t.index \in Nat
  BY OpcodeOf, PartsOf
<1>1. <<t.op>> \in Seq(Nat) /\ Leb(t.index) \in Seq(Nat) /\ <<>> \in Seq(Nat)
  BY ONLY <1>0, ByteType, LebType
<1>2. CASE t.kind = "primitive"
  <2>1. Body(e, t) = <<>>
    BY <1>2, BodyIs
  <2>2. ValBytes(e, t) = <<t.op>>
    BY <1>2, BytesOfKind
  <2>3. <<t.op>> \o <<>> = <<t.op>>
    BY ONLY <1>0
  <2> QED BY <1>1, <2>1, <2>2, <2>3
<1>3. CASE t.kind = "wrapper"
  <2>1. t.inner[1] \in B
    BY <1>3, PartsOf
  <2>2. e[t.inner[1]] \in Seq(Nat)
    BY <2>1
  <2>3. Body(e, t) = e[t.inner[1]]
    BY ONLY <1>3, BodyIs
  <2>4. ValBytes(e, t) = <<t.op>> \o e[t.inner[1]]
    BY ONLY <1>3, BytesOfKind
  <2> QED BY ONLY <2>2, <2>3, <2>4
<1>4. CASE t.kind = "result"
  <2>1. Optional(e, t.inner[1]) \in Seq(Nat) /\ Optional(e, t.inner[2]) \in Seq(Nat)
    BY <1>4, ResultInner, OptionalType
  <2>2. PICK x \in Seq(Nat), v \in Seq(Nat), o \in Seq(Nat) :
            x = Optional(e, t.inner[1]) /\ v = Optional(e, t.inner[2]) /\ o = <<t.op>>
    BY <1>1, <2>1
  <2>3. ValBytes(e, t) = (o \o x) \o v
    BY ONLY <1>4, <2>2, BytesOfKind
  <2>4. Body(e, t) = x \o v
    BY ONLY <1>4, <2>2, BodyIs
  <2>5. Regroups(o, x, v)
    BY Regrouped
  <2>6. x \o v \in Seq(Nat)
    BY Joined
  <2> QED BY ONLY <2>2, <2>3, <2>4, <2>5, <2>6 DEF Regroups
<1>5. CASE t.kind \in {"tuple", "record", "variant", "flags"}
  <2>1. /\ t.kind = "tuple" => Listed(Elements(e, t)) \in Seq(Nat)
        /\ t.kind = "record" => Listed(Fields(e, t)) \in Seq(Nat)
        /\ t.kind = "variant" => Listed(Alternatives(e, t)) \in Seq(Nat)
        /\ t.kind = "flags" => Listed(Labels(t)) \in Seq(Nat)
    BY PieceTypes, ListedType
  <2>2. CASE t.kind = "tuple"
    <3>1. Body(e, t) = Listed(Elements(e, t))
      BY ONLY <2>2, BodyIs
    <3>2. ValBytes(e, t) = <<t.op>> \o Listed(Elements(e, t))
      BY ONLY <2>2, BytesOfKind
    <3> QED BY ONLY <2>2, <2>1, <3>1, <3>2
  <2>3. CASE t.kind = "record"
    <3>1. Body(e, t) = Listed(Fields(e, t))
      BY ONLY <2>3, BodyIs
    <3>2. ValBytes(e, t) = <<t.op>> \o Listed(Fields(e, t))
      BY ONLY <2>3, BytesOfKind
    <3> QED BY ONLY <2>3, <2>1, <3>1, <3>2
  <2>4. CASE t.kind = "variant"
    <3>1. Body(e, t) = Listed(Alternatives(e, t))
      BY ONLY <2>4, BodyIs
    <3>2. ValBytes(e, t) = <<t.op>> \o Listed(Alternatives(e, t))
      BY ONLY <2>4, BytesOfKind
    <3> QED BY ONLY <2>4, <2>1, <3>1, <3>2
  <2>5. CASE t.kind = "flags"
    <3>1. Body(e, t) = Listed(Labels(t))
      BY ONLY <2>5, BodyIs
    <3>2. ValBytes(e, t) = <<t.op>> \o Listed(Labels(t))
      BY ONLY <2>5, BytesOfKind
    <3> QED BY ONLY <2>5, <2>1, <3>1, <3>2
  <2> QED BY <1>5, <2>2, <2>3, <2>4, <2>5
<1>6. CASE t.kind = "handle"
  <2>1. Body(e, t) = Leb(t.index)
    BY ONLY <1>6, BodyIs
  <2>2. ValBytes(e, t) = <<t.op>> \o Leb(t.index)
    BY ONLY <1>6, BytesOfKind
  <2> QED BY ONLY <1>1, <2>1, <2>2
<1> QED BY <1>2, <1>3, <1>4, <1>5, <1>6, PartsOf DEF Kinds

\* The bytes behind the opcode tell the rest of a type.
LEMMA BodyRead ==
    ASSUME NEW B, Absent \notin B, NEW t, NEW u, IsValType(t, B), IsValType(u, B),
           t.kind = u.kind, t.op = u.op, t.kind # "ref", NEW e, Readable(e, B)
    PROVE  Reads(Body(e, t), t, Body(e, u), u)
<1>0. /\ \A x \in B : e[x] \in Seq(Nat)
      /\ \A x, y \in B : Reads(e[x], x, e[y], y)
  BY DEF Readable
<1>1. ASSUME NEW x, NEW y, x # Absent => x \in B, y # Absent => y \in B
      PROVE  /\ Reads(Optional(e, x), x, Optional(e, y), y)
             /\ Optional(e, x) \in Seq(Nat) /\ Optional(e, y) \in Seq(Nat)
  <2>1. x # Absent => e[x] \in Seq(Nat)
    BY <1>0, <1>1
  <2>2. y # Absent => e[y] \in Seq(Nat)
    BY <1>0, <1>1
  <2>3. x # Absent /\ y # Absent => Reads(e[x], x, e[y], y)
    BY <1>0, <1>1
  <2> QED BY <2>1, <2>2, <2>3, OptionalRead, OptionalType
<1>2. PICK n \in Nat, m \in Nat, l \in Nat, o \in Nat :
          /\ n = Len(t.inner) /\ DOMAIN t.inner = 1 .. n /\ l = Len(t.names) /\ DOMAIN t.names = 1 .. l
          /\ m = Len(u.inner) /\ DOMAIN u.inner = 1 .. m /\ o = Len(u.names) /\ DOMAIN u.names = 1 .. o
  <2>1. /\ Len(t.inner) \in Nat /\ DOMAIN t.inner = 1 .. Len(t.inner)
        /\ Len(t.names) \in Nat /\ DOMAIN t.names = 1 .. Len(t.names)
    BY InnerOf
  <2>2. /\ Len(u.inner) \in Nat /\ DOMAIN u.inner = 1 .. Len(u.inner)
        /\ Len(u.names) \in Nat /\ DOMAIN u.names = 1 .. Len(u.names)
    BY InnerOf
  <2> QED BY ONLY <2>1, <2>2
<1>3. /\ IsU32(n) /\ IsU32(m) /\ IsU32(l) /\ IsU32(o) /\ IsU32(t.index) /\ IsU32(u.index)
      /\ t.inner \in Seq(B \union {Absent}) /\ u.inner \in Seq(B \union {Absent})
      /\ t.names \in Seq(NameLength) /\ u.names \in Seq(NameLength)
  BY <1>2, PartsOf
<1>4. CASE t.kind = "primitive"
  <2>1. t.index = 0 /\ t.names = <<>> /\ t.inner = <<>>
    BY <1>4, PartsOf
  <2>2. u.index = 0 /\ u.names = <<>> /\ u.inner = <<>>
    BY <1>4, PartsOf
  <2>3. t = u
    BY <2>1, <2>2, SameVal
  <2> QED BY <2>3 DEF Reads
<1>5. CASE t.kind = "wrapper"
  <2>1. t.index = 0 /\ t.names = <<>> /\ n = 1 /\ t.inner[1] \in B
    BY <1>2, <1>5, PartsOf
  <2>2. u.index = 0 /\ u.names = <<>> /\ m = 1 /\ u.inner[1] \in B
    BY <1>2, <1>5, PartsOf
  <2>3. Reads(e[t.inner[1]], t.inner[1], e[u.inner[1]], u.inner[1])
    BY <1>0, <2>1, <2>2
  <2>4. Body(e, t) = e[t.inner[1]] /\ Body(e, u) = e[u.inner[1]]
    BY <1>5, BodyIs
  <2>5. ASSUME t.inner[1] = u.inner[1] PROVE t = u
    <3>1. \A k \in 1 .. 1 : t.inner[k] = u.inner[k]
      BY <2>5
    <3>2. t.inner = u.inner
      BY <1>2, <1>3, <2>1, <2>2, <3>1, SameSeq
    <3> QED BY <2>1, <2>2, <3>2, SameVal
  <2> QED BY ONLY <2>3, <2>4, <2>5 DEF Reads
<1>6. CASE t.kind = "result"
  <2>1. t.index = 0 /\ t.names = <<>> /\ n = 2
    BY <1>2, <1>6, PartsOf
  <2>2. u.index = 0 /\ u.names = <<>> /\ m = 2
    BY <1>2, <1>6, PartsOf
  <2>3. PICK x1, x2, y1, y2 : x1 = t.inner[1] /\ x2 = t.inner[2] /\ y1 = u.inner[1] /\ y2 = u.inner[2]
    OBVIOUS
  <2>4. /\ x1 # Absent => x1 \in B
        /\ x2 # Absent => x2 \in B
        /\ y1 # Absent => y1 \in B
        /\ y2 # Absent => y2 \in B
    BY <1>6, <2>3, ResultInner
  <2>5. /\ Reads(Optional(e, x1), x1, Optional(e, y1), y1)
        /\ Optional(e, x1) \in Seq(Nat) /\ Optional(e, y1) \in Seq(Nat)
        /\ Reads(Optional(e, x2), x2, Optional(e, y2), y2)
        /\ Optional(e, x2) \in Seq(Nat) /\ Optional(e, y2) \in Seq(Nat)
    BY ONLY <1>1, <2>4
  <2>6. Reads(Optional(e, x1) \o Optional(e, x2), <<x1, x2>>,
              Optional(e, y1) \o Optional(e, y2), <<y1, y2>>)
    BY ONLY <2>5, PairRead
  <2>7. /\ Body(e, t) = Optional(e, x1) \o Optional(e, x2)
        /\ Body(e, u) = Optional(e, y1) \o Optional(e, y2)
    BY ONLY <1>6, t.kind = u.kind, <2>3, BodyIs
  <2>8. ASSUME <<x1, x2>> = <<y1, y2>> PROVE t = u
    <3>0. x1 = y1 /\ x2 = y2
      BY ONLY <2>8
    <3>1. \A k \in 1 .. 2 : t.inner[k] = u.inner[k]
      <4> TAKE k \in 1 .. 2
      <4>1. k = 1 \/ k = 2
        OBVIOUS
      <4>2. t.inner[1] = u.inner[1] /\ t.inner[2] = u.inner[2]
        BY ONLY <2>3, <3>0
      <4> QED BY ONLY <4>1, <4>2
    <3>2. t.inner = u.inner
      BY <1>2, <1>3, <2>1, <2>2, <3>1, SameSeq
    <3> QED BY <2>1, <2>2, <3>2, SameVal
  <2> QED BY ONLY <2>6, <2>7, <2>8 DEF Reads
<1>7. CASE t.kind = "tuple"
  <2>1. t.index = 0 /\ t.names = <<>> /\ u.index = 0 /\ u.names = <<>>
    BY <1>7, PartsOf
  <2>2. /\ Elements(e, t) \in Seq(Seq(Nat)) /\ Len(Elements(e, t)) = n
        /\ Elements(e, u) \in Seq(Seq(Nat)) /\ Len(Elements(e, u)) = m
    BY <1>0, <1>2, <1>7, PieceTypes
  <2>3. ASSUME n = m, NEW k \in 1 .. n
        PROVE  Reads(Elements(e, t)[k], t.inner[k], Elements(e, u)[k], u.inner[k])
    <3>1. t.inner[k] \in B /\ u.inner[k] \in B
      BY <1>2, <1>7, <2>3, InnerOf
    <3>2. Elements(e, t)[k] = e[t.inner[k]] /\ Elements(e, u)[k] = e[u.inner[k]]
      BY <1>2, <2>3 DEF Elements
    <3> QED BY <1>0, <3>1, <3>2
  <2>4. Reads(Listed(Elements(e, t)), t.inner, Listed(Elements(e, u)), u.inner)
    BY <1>2, <1>3, <2>2, <2>3, EntriesRead
  <2>5. Body(e, t) = Listed(Elements(e, t)) /\ Body(e, u) = Listed(Elements(e, u))
    BY <1>7, BodyIs
  <2>6. t.inner = u.inner => t = u
    BY <2>1, SameVal
  <2> QED BY ONLY <2>4, <2>5, <2>6 DEF Reads
<1>8. CASE t.kind = "flags"
  <2>1. t.index = 0 /\ t.inner = <<>> /\ u.index = 0 /\ u.inner = <<>>
    BY <1>8, PartsOf
  <2>2. /\ Labels(t) \in Seq(Seq(Nat)) /\ Len(Labels(t)) = l
        /\ Labels(u) \in Seq(Seq(Nat)) /\ Len(Labels(u)) = o
    BY <1>0, <1>2, PieceTypes
  <2>3. ASSUME l = o, NEW k \in 1 .. l
        PROVE  Reads(Labels(t)[k], t.names[k], Labels(u)[k], u.names[k])
    <3>1. t.names[k] \in NameLength /\ u.names[k] \in NameLength
      BY <1>2, <2>3, InnerOf
    <3>2. Labels(t)[k] = Text(t.names[k]) /\ Labels(u)[k] = Text(u.names[k])
      BY <1>2, <2>3 DEF Labels
    <3> QED BY <3>1, <3>2, TextRead
  <2>4. Reads(Listed(Labels(t)), t.names, Listed(Labels(u)), u.names)
    BY <1>2, <1>3, <2>2, <2>3, EntriesRead
  <2>5. Body(e, t) = Listed(Labels(t)) /\ Body(e, u) = Listed(Labels(u))
    BY <1>8, BodyIs
  <2>6. t.names = u.names => t = u
    BY <2>1, SameVal
  <2> QED BY ONLY <2>4, <2>5, <2>6 DEF Reads
<1>9. CASE t.kind = "handle"
  <2>1. t.names = <<>> /\ t.inner = <<>> /\ u.names = <<>> /\ u.inner = <<>>
    BY <1>9, PartsOf
  <2>2. Reads(Leb(t.index), t.index, Leb(u.index), u.index)
    BY <1>3, LebRead
  <2>3. Body(e, t) = Leb(t.index) /\ Body(e, u) = Leb(u.index)
    BY <1>9, BodyIs
  <2>4. t.index = u.index => t = u
    BY <2>1, SameVal
  <2> QED BY ONLY <2>2, <2>3, <2>4 DEF Reads
<1> DEFINE pair(x) == [k \in DOMAIN x.inner |-> <<x.names[k], x.inner[k]>>]
<1>10. ASSUME t.kind \in {"record", "variant"}
       PROVE  /\ pair(t) \in Seq(NameLength \X (B \union {Absent})) /\ Len(pair(t)) = n
              /\ pair(u) \in Seq(NameLength \X (B \union {Absent})) /\ Len(pair(u)) = m
              /\ pair(t) = pair(u) => t = u
              /\ \A k \in 1 .. n : t.names[k] \in NameLength /\ pair(t)[k] = <<t.names[k], t.inner[k]>>
              /\ \A k \in 1 .. m : u.names[k] \in NameLength /\ pair(u)[k] = <<u.names[k], u.inner[k]>>
  <2>1. t.index = 0 /\ u.index = 0 /\ l = n /\ o = m
    BY <1>2, <1>10, PartsOf
  <2>2. \A k \in 1 .. n : t.names[k] \in NameLength /\ t.inner[k] \in B \union {Absent}
    BY <1>2, <2>1, InnerOf
  <2>3. \A k \in 1 .. m : u.names[k] \in NameLength /\ u.inner[k] \in B \union {Absent}
    BY <1>2, <2>1, InnerOf
  <2>4. /\ \A k \in 1 .. n : pair(t)[k] = <<t.names[k], t.inner[k]>>
        /\ \A k \in 1 .. m : pair(u)[k] = <<u.names[k], u.inner[k]>>
    BY <1>2
  <2>5. pair(t) \in [1 .. n -> NameLength \X (B \union {Absent})]
    BY <1>2, <2>2
  <2>6. pair(u) \in [1 .. m -> NameLength \X (B \union {Absent})]
    BY <1>2, <2>3
  <2> HIDE DEF pair
  <2>7. /\ pair(t) \in Seq(NameLength \X (B \union {Absent})) /\ Len(pair(t)) = n
        /\ pair(u) \in Seq(NameLength \X (B \union {Absent})) /\ Len(pair(u)) = m
    BY ONLY <2>5, <2>6, n \in Nat, m \in Nat, CountedSeq
  <2>8. ASSUME pair(t) = pair(u) PROVE t = u
    <3>1. n = m
      BY <2>7, <2>8
    <3>2. \A k \in 1 .. n : t.names[k] = u.names[k] /\ t.inner[k] = u.inner[k]
      BY <2>4, <2>8, <3>1
    <3>3. t.names = u.names
      BY <1>2, <1>3, <2>1, <3>1, <3>2, SameSeq
    <3>4. t.inner = u.inner
      BY <1>2, <1>3, <3>1, <3>2, SameSeq
    <3> QED BY <2>1, <3>3, <3>4, SameVal
  <2> QED BY <2>2, <2>3, <2>4, <2>7, <2>8
<1> HIDE DEF pair
<1>11. CASE t.kind = "record"
  <2>1. /\ Fields(e, t) \in Seq(Seq(Nat)) /\ Len(Fields(e, t)) = n
        /\ Fields(e, u) \in Seq(Seq(Nat)) /\ Len(Fields(e, u)) = m
    BY <1>0, <1>2, <1>11, PieceTypes
  <2>2. ASSUME n = m, NEW k \in 1 .. n
        PROVE  Reads(Fields(e, t)[k], pair(t)[k], Fields(e, u)[k], pair(u)[k])
    <3>1. t.inner[k] \in B /\ u.inner[k] \in B
      BY <1>2, <1>11, <2>2, InnerOf
    <3>2. PICK x, y, a, b : x = t.inner[k] /\ y = u.inner[k] /\ a = t.names[k] /\ b = u.names[k]
      OBVIOUS
    <3>3. x \in B /\ y \in B /\ a \in NameLength /\ b \in NameLength
      BY <1>10, <1>11, <2>2, <3>1, <3>2
    <3>4. /\ Reads(Text(a), a, Text(b), b) /\ Text(a) \in Seq(Nat) /\ Text(b) \in Seq(Nat)
          /\ Reads(e[x], x, e[y], y) /\ e[x] \in Seq(Nat) /\ e[y] \in Seq(Nat)
      BY ONLY <1>0, <3>3, TextRead, TextType
    <3>5. Reads(Text(a) \o e[x], <<a, x>>, Text(b) \o e[y], <<b, y>>)
      BY ONLY <3>4, PairRead
    <3>6. Fields(e, t)[k] = Text(a) \o e[x] /\ Fields(e, u)[k] = Text(b) \o e[y]
      BY <1>2, <2>2, <3>2 DEF Fields
    <3>7. pair(t)[k] = <<a, x>> /\ pair(u)[k] = <<b, y>>
      BY <1>10, <1>11, <2>2, <3>2
    <3> QED BY ONLY <3>5, <3>6, <3>7
  <2>3. Reads(Listed(Fields(e, t)), pair(t), Listed(Fields(e, u)), pair(u))
    BY <1>3, <1>10, <1>11, <2>1, <2>2, EntriesRead
  <2>4. Body(e, t) = Listed(Fields(e, t)) /\ Body(e, u) = Listed(Fields(e, u))
    BY <1>11, BodyIs
  <2>5. pair(t) = pair(u) => t = u
    BY <1>10, <1>11
  <2> QED BY ONLY <2>3, <2>4, <2>5 DEF Reads
<1>12. CASE t.kind = "variant"
  <2>1. /\ Alternatives(e, t) \in Seq(Seq(Nat)) /\ Len(Alternatives(e, t)) = n
        /\ Alternatives(e, u) \in Seq(Seq(Nat)) /\ Len(Alternatives(e, u)) = m
    BY <1>0, <1>2, <1>12, PieceTypes
  <2>2. ASSUME n = m, NEW k \in 1 .. n
        PROVE  Reads(Alternatives(e, t)[k], pair(t)[k], Alternatives(e, u)[k], pair(u)[k])
    <3>1. PICK x, y, a, b : x = t.inner[k] /\ y = u.inner[k] /\ a = t.names[k] /\ b = u.names[k]
      OBVIOUS
    <3>2. (x # Absent => x \in B) /\ (y # Absent => y \in B)
      BY <1>2, <2>2, <3>1, InnerOf
    <3>3. a \in NameLength /\ b \in NameLength
      BY <1>10, <1>12, <2>2, <3>1
    <3>4. /\ Reads(Text(a), a, Text(b), b) /\ Text(a) \in Seq(Nat) /\ Text(b) \in Seq(Nat)
      BY ONLY <3>3, TextRead, TextType
    <3>5. /\ Reads(Optional(e, x), x, Optional(e, y), y)
          /\ Optional(e, x) \in Seq(Nat) /\ Optional(e, y) \in Seq(Nat)
      BY ONLY <1>1, <3>2
    <3>6. Reads(Text(a) \o Optional(e, x), <<a, x>>, Text(b) \o Optional(e, y), <<b, y>>)
      BY ONLY <3>4, <3>5, PairRead
    <3>7. /\ Alternatives(e, t)[k] = Text(a) \o Optional(e, x)
          /\ Alternatives(e, u)[k] = Text(b) \o Optional(e, y)
      BY <1>2, <2>2, <3>1 DEF Alternatives
    <3>8. pair(t)[k] = <<a, x>> /\ pair(u)[k] = <<b, y>>
      BY <1>10, <1>12, <2>2, <3>1
    <3> QED BY ONLY <3>6, <3>7, <3>8
  <2>3. Reads(Listed(Alternatives(e, t)), pair(t), Listed(Alternatives(e, u)), pair(u))
    BY <1>3, <1>10, <1>12, <2>1, <2>2, EntriesRead
  <2>4. Body(e, t) = Listed(Alternatives(e, t)) /\ Body(e, u) = Listed(Alternatives(e, u))
    BY <1>12, BodyIs
  <2>5. pair(t) = pair(u) => t = u
    BY <1>10, <1>12
  <2> QED BY ONLY <2>3, <2>4, <2>5 DEF Reads
<1>13. t.kind \in Kinds
  BY PartsOf
<1> QED BY <1>4, <1>5, <1>6, <1>7, <1>8, <1>9, <1>11, <1>12, <1>13 DEF Kinds

\* A type reference whose index would not be taken for an opcode.
LowRef(t) == t.kind = "ref" => t.index \notin 104 .. 127

\* How a type's bytes begin: the byte b is an opcode, unless an index comes bare.
Begun(e, t, b, s) ==
    /\ b \in Nat /\ s \in Seq(Nat)
    /\ ValBytes(e, t) = <<b>> \o s
    /\ t.kind # "ref" => b = t.op /\ s = Body(e, t)
    /\ t.kind = "ref" <=> b \notin 104 .. 127

LEMMA ValBegins ==
    ASSUME NEW B, Absent \notin B, NEW t, IsValType(t, B), LowRef(t),
           NEW e, \A x \in B : e[x] \in Seq(Nat)
    PROVE  \E b, s : Begun(e, t, b, s)
<1>1. CASE t.kind # "ref"
  <2>1. Body(e, t) \in Seq(Nat) /\ ValBytes(e, t) = <<t.op>> \o Body(e, t)
    BY <1>1, BodyType
  <2>2. t.kind \in Kinds \ {"ref"}
    BY <1>1, PartsOf
  <2>3. t.op \in Nat /\ t.op \in 104 .. 127
    <3>1. /\ t.op \in Nat
          /\ t.kind = "primitive" => t.op \in 115 .. 127
          /\ t.kind = "wrapper" => t.op \in {111, 112}
          /\ t.kind = "result" => t.op = 110
          /\ t.kind = "tuple" => t.op = 109
          /\ t.kind = "record" => t.op = 108
          /\ t.kind = "variant" => t.op = 107
          /\ t.kind = "flags" => t.op = 106
          /\ t.kind = "handle" => t.op \in {104, 105}
      BY OpcodeOf
    <3>2. PICK o \in Nat : o = t.op
      BY <3>1
    <3> QED BY ONLY <2>2, <3>1, <3>2 DEF Kinds
  <2> QED BY ONLY <1>1, <2>1, <2>3 DEF Begun
<1>2. CASE t.kind = "ref"
  <2>1. ValBytes(e, t) = Leb(t.index)
    BY <1>2, BytesOfKind
  <2>2. IsU32(t.index) /\ t.index \in Nat
    BY PartsOf
  <2>3. PICK b \in Nat, s \in Seq(Nat) : Leb(t.index) = <<b>> \o s /\ (b = t.index \/ b >= 128)
    BY <2>2, LebBegins
  <2>4. b \notin 104 .. 127
    <3>1. t.index \notin 104 .. 127
      BY <1>2 DEF LowRef
    <3>2. PICK i \in Nat : i = t.index
      BY ONLY <2>2
    <3>3. (b = i \/ b >= 128) /\ i \notin 104 .. 127
      BY ONLY <2>3, <3>1, <3>2
    <3> QED BY ONLY <3>3, b \in Nat, i \in Nat
  <2> QED BY <1>2, <2>1, <2>3, <2>4 DEF Begun
<1> QED BY <1>1, <1>2

LEMMA ValRead ==
    ASSUME NEW B, Absent \notin B, NEW t, NEW u, IsValType(t, B), IsValType(u, B),
           LowRef(t), LowRef(u), NEW e, Readable(e, B)
    PROVE  Reads(ValBytes(e, t), t, ValBytes(e, u), u)
<1>0. \A x \in B : e[x] \in Seq(Nat)
  BY DEF Readable
<1>1. PICK b, s : Begun(e, t, b, s)
  BY <1>0, ValBegins
<1>2. PICK c, z : Begun(e, u, c, z)
  BY <1>0, ValBegins
<1> SUFFICES ASSUME NEW r \in Seq(Nat), NEW q \in Seq(Nat), ValBytes(e, t) \o r = ValBytes(e, u) \o q
             PROVE  t = u
  BY DEF Reads
<1> b \in Nat /\ c \in Nat /\ s \in Seq(Nat) /\ z \in Seq(Nat)
  BY <1>1, <1>2 DEF Begun
<1>3. b = c /\ s \o r = z \o q
  <2>1. Alike(<<b>>, s, r, <<c>>, z, q)
    BY <1>1, <1>2 DEF Alike, Begun
  <2>2. Reads(<<b>>, b, <<c>>, c) /\ <<b>> \in Seq(Nat) /\ <<c>> \in Seq(Nat)
    BY ByteRead, ByteType
  <2>3. b = c /\ RestAlike(<<b>>, s, r, <<c>>, z, q)
    BY ONLY <2>1, <2>2, s \in Seq(Nat), z \in Seq(Nat), r \in Seq(Nat), q \in Seq(Nat), HeadRead
  <2> QED BY <2>3 DEF RestAlike
<1>4. CASE t.kind # "ref"
  <2>1. u.kind # "ref" /\ t.op = u.op /\ s = Body(e, t) /\ z = Body(e, u)
    BY ONLY <1>1, <1>2, <1>3, <1>4 DEF Begun
  <2>2. t.kind = u.kind
    BY <1>4, <2>1, KindOfOpcode
  <2>3. Reads(Body(e, t), t, Body(e, u), u)
    BY <1>4, <2>1, <2>2, BodyRead
  <2> QED BY ONLY <1>3, <2>1, <2>3, r \in Seq(Nat), q \in Seq(Nat) DEF Reads
<1>5. CASE t.kind = "ref"
  <2>1. u.kind = "ref"
    BY ONLY <1>1, <1>2, <1>3, <1>5 DEF Begun
  <2>2. /\ t.op = 0 /\ t.names = <<>> /\ t.inner = <<>> /\ IsU32(t.index)
        /\ u.op = 0 /\ u.names = <<>> /\ u.inner = <<>> /\ IsU32(u.index)
    <3>1. t.op = 0 /\ u.op = 0
      BY <1>5, <2>1, OpcodeOf
    <3>2. t.names = <<>> /\ t.inner = <<>> /\ IsU32(t.index)
      BY <1>5, PartsOf
    <3>3. u.names = <<>> /\ u.inner = <<>> /\ IsU32(u.index)
      BY <2>1, PartsOf
    <3> QED BY <3>1, <3>2, <3>3
  <2>3. Leb(t.index) \o r = Leb(u.index) \o q
    BY <1>5, <2>1, BytesOfKind
  <2>4. t.index = u.index
    BY <2>2, <2>3, LebRead DEF Reads
  <2> QED BY <1>5, <2>1, <2>2, <2>4, SameVal
<1> QED BY <1>4, <1>5

LEMMA ValTypeBoth ==
    ASSUME NEW A, NEW B, NEW t, IsValType(t, A), IsValType(t, B), Absent \notin A, Absent \notin B
    PROVE  IsValType(t, A \cap B)
<1>1. ASSUME NEW s \in Seq(A), s \in Seq(B) PROVE s \in Seq(A \cap B)
  <2>1. \A k \in 1 .. Len(s) : s[k] \in A /\ s[k] \in B
    BY <1>1
  <2> QED BY <2>1
<1>2. t.inner \in Seq((A \cap B) \union {Absent})
  <2>1. PICK s \in Seq(A \union {Absent}) : s = t.inner /\ s \in Seq(B \union {Absent})
    BY DEF IsValType
  <2>2. \A k \in 1 .. Len(s) : s[k] \in A \union {Absent} /\ s[k] \in B \union {Absent}
    BY <2>1
  <2>3. \A k \in 1 .. Len(s) : s[k] \in (A \cap B) \union {Absent}
    BY <2>2
  <2> QED BY <2>1, <2>3
<1>3. t.kind \notin {"result", "variant"} => t.inner \in Seq(A \cap B)
  BY <1>1 DEF IsValType
<1> QED BY <1>2, <1>3 DEF IsValType

\* Types with the types inside them, and no reference that reads as an opcode.
Legible(L) == /\ L \in SUBSET Val
              /\ \A t \in L : IsValType(t, L) /\ LowRef(t)

LEMMA LegibleReadable == ASSUME NEW L, Legible(L) PROVE Readable(EncodeValType, L)
<1>1. PICK n \in Nat :
        /\ ValBefore(1) = {} /\ ValBefore(n + 1) = Val
        /\ \A d \in 1 .. n : ValBefore(d + 1) = ValBefore(d) \union Vals[d]
        /\ \A d \in 1 .. n + 1 : /\ ValBefore(d) \subseteq Val /\ Absent \notin ValBefore(d)
                                 /\ \A t \in ValBefore(d) : IsValType(t, ValBefore(d))
        /\ \A d \in 1 .. n : \A t \in Vals[d] : IsValType(t, ValBefore(d))
  BY ValLayers
<1>2. PICK e : e = EncodeValType /\ \A t \in Val : e[t] = ValBytes(e, t) /\ e[t] \in Seq(Nat)
  BY EncodesAll, EncodedType DEF Encodes
<1> DEFINE P(k) == Readable(e, L \cap ValBefore(k + 1))
           N == {k \in Nat : k <= n => P(k)}
<1>3. P(0)
  BY <1>1 DEF Readable
<1>4. ASSUME NEW k \in Nat, k + 1 <= n, P(k) PROVE P(k + 1)
  <2>1. k + 1 \in 1 .. n /\ k + 1 \in 1 .. n + 1 /\ (k + 1) + 1 \in 1 .. n + 1
    BY <1>4
  <2>2. PICK B : B = L \cap ValBefore(k + 1)
    OBVIOUS
  <2>3. Absent \notin B /\ Absent \notin ValBefore(k + 1) /\ Absent \notin L /\ Readable(e, B)
    BY <1>1, <1>4, <2>1, <2>2, ValAssumption DEF Legible
  <2>4. ASSUME NEW t \in L \cap ValBefore((k + 1) + 1)
        PROVE  IsValType(t, B) /\ LowRef(t) /\ e[t] = ValBytes(e, t) /\ e[t] \in Seq(Nat)
    <3>1. IsValType(t, ValBefore(k + 1)) /\ t \in Val
      BY <1>1, <2>1
    <3>2. IsValType(t, L) /\ LowRef(t)
      BY DEF Legible
    <3>3. IsValType(t, B)
      BY <2>2, <2>3, <3>1, <3>2, ValTypeBoth
    <3> QED BY <1>2, <3>1, <3>2, <3>3
  <2>5. ASSUME NEW t \in L \cap ValBefore((k + 1) + 1), NEW u \in L \cap ValBefore((k + 1) + 1)
        PROVE  Reads(e[t], t, e[u], u)
    <3>1. IsValType(t, B) /\ LowRef(t) /\ e[t] = ValBytes(e, t)
      BY <2>4
    <3>2. IsValType(u, B) /\ LowRef(u) /\ e[u] = ValBytes(e, u)
      BY <2>4
    <3>3. Reads(ValBytes(e, t), t, ValBytes(e, u), u)
      BY ONLY <2>3, <3>1, <3>2, ValRead
    <3> QED BY <3>1, <3>2, <3>3
  <2> QED BY <2>4, <2>5 DEF Readable
<1>5. P(n)
  <2> HIDE DEF P
  <2>1. 0 \in N /\ \A k \in N : k + 1 \in N
    BY <1>3, <1>4
  <2>2. N = Nat
    BY <2>1, NatSetInduction
  <2>3. n \in N
    BY <2>2
  <2> QED BY <2>3
<1>6. L \cap ValBefore(n + 1) = L
  BY <1>1 DEF Legible
<1> QED BY <1>2, <1>5, <1>6

LEMMA FunctionsGrow == ASSUME NEW A, NEW B, A \subseteq B PROVE Functions(A) \subseteq Functions(B)
<1>1. PICK P, Q : P = [name : NameLength, type : A] /\ Q = [name : NameLength, type : B]
  OBVIOUS
<1>2. P \subseteq Q
  BY <1>1
<1>3. Seq(P) \subseteq Seq(Q)
  BY ONLY <1>2
<1>4. A \union {Absent} \subseteq B \union {Absent}
  OBVIOUS
<1>5. /\ Functions(A) = [name : NameLength, params : Seq(P), result : A \union {Absent}]
      /\ Functions(B) = [name : NameLength, params : Seq(Q), result : B \union {Absent}]
  BY <1>1 DEF Functions
<1> QED BY ONLY <1>3, <1>4, <1>5

\* Parameters and result can be read back from a signature.
LEMMA SignatureRead ==
    ASSUME NEW L, Legible(L), NEW f \in Functions(L), NEW g \in Functions(L),
           IsU32(Len(f.params)), IsU32(Len(g.params))
    PROVE  Reads(Signature(f), <<f.params, f.result>>, Signature(g), <<g.params, g.result>>)
<1>1. PICK e : e = EncodeValType /\ Readable(e, L)
  BY LegibleReadable
<1>2. f \in Functions(Val) /\ g \in Functions(Val) /\ Absent \notin L
  <2>1. L \subseteq Val
    BY DEF Legible
  <2>2. Functions(L) \subseteq Functions(Val)
    BY <2>1, FunctionsGrow
  <2> QED BY <2>1, <2>2, ValAssumption
<1>3. /\ ParamPieces(f) \in Seq(Seq(Nat)) /\ Len(ParamPieces(f)) = Len(f.params)
      /\ ParamBytes(f) = Listed(ParamPieces(f)) /\ ParamBytes(f) \in Seq(Nat)
      /\ Optional(e, f.result) \in Seq(Nat)
  BY <1>1, <1>2, SignatureType
<1>4. /\ ParamPieces(g) \in Seq(Seq(Nat)) /\ Len(ParamPieces(g)) = Len(g.params)
      /\ ParamBytes(g) = Listed(ParamPieces(g)) /\ ParamBytes(g) \in Seq(Nat)
      /\ Optional(e, g.result) \in Seq(Nat)
  BY <1>1, <1>2, SignatureType
<1>5. f.params \in Seq(Param(L)) /\ g.params \in Seq(Param(L))
  BY DEF Functions, Param
<1>6. PICK n \in Nat, m \in Nat :
        n = Len(f.params) /\ m = Len(g.params) /\ DOMAIN f.params = 1 .. n /\ DOMAIN g.params = 1 .. m
  BY <1>5
<1>7. ASSUME n = m, NEW k \in 1 .. n
      PROVE  Reads(ParamPieces(f)[k], f.params[k], ParamPieces(g)[k], g.params[k])
  <2>1. PICK x \in Param(L), y \in Param(L) : x = f.params[k] /\ y = g.params[k]
    BY <1>5, <1>6, <1>7
  <2>2. /\ x.name \in NameLength /\ x.type \in L /\ x = [name |-> x.name, type |-> x.type]
        /\ y.name \in NameLength /\ y.type \in L /\ y = [name |-> y.name, type |-> y.type]
    BY DEF Param
  <2>3. /\ ParamPieces(f)[k] = Text(x.name) \o e[x.type]
        /\ ParamPieces(g)[k] = Text(y.name) \o e[y.type]
    BY <1>1, <1>6, <1>7, <2>1 DEF ParamPieces
  <2>4. /\ Reads(Text(x.name), x.name, Text(y.name), y.name)
        /\ Text(x.name) \in Seq(Nat) /\ Text(y.name) \in Seq(Nat)
        /\ Reads(e[x.type], x.type, e[y.type], y.type)
        /\ e[x.type] \in Seq(Nat) /\ e[y.type] \in Seq(Nat)
    BY <1>1, <2>2, TextRead, TextType DEF Readable
  <2>5. Reads(Text(x.name) \o e[x.type], <<x.name, x.type>>, Text(y.name) \o e[y.type], <<y.name, y.type>>)
    BY ONLY <2>4, PairRead
  <2>6. <<x.name, x.type>> = <<y.name, y.type>> => x = y
    BY <2>2
  <2> QED BY ONLY <2>1, <2>3, <2>5, <2>6 DEF Reads
<1>8. Reads(ParamBytes(f), f.params, ParamBytes(g), g.params)
  BY <1>3, <1>4, <1>5, <1>6, <1>7, EntriesRead
<1>9. Reads(Optional(e, f.result), f.result, Optional(e, g.result), g.result)
  <2>1. f.result \in L \union {Absent} /\ g.result \in L \union {Absent}
    BY DEF Functions
  <2>2. f.result # Absent => e[f.result] \in Seq(Nat)
    BY <1>1, <2>1 DEF Readable
  <2>3. g.result # Absent => e[g.result] \in Seq(Nat)
    BY <1>1, <2>1 DEF Readable
  <2>4. f.result # Absent /\ g.result # Absent => Reads(e[f.result], f.result, e[g.result], g.result)
    BY <1>1, <2>1 DEF Readable
  <2> QED BY ONLY <2>2, <2>3, <2>4, OptionalRead
<1>10. Reads(ParamBytes(f) \o Optional(e, f.result), <<f.params, f.result>>,
             ParamBytes(g) \o Optional(e, g.result), <<g.params, g.result>>)
  BY ONLY <1>3, <1>4, <1>8, <1>9, PairRead
<1>11. /\ Signature(f) = ParamBytes(f) \o Optional(e, f.result)
       /\ Signature(g) = ParamBytes(g) \o Optional(e, g.result)
  BY <1>1 DEF Signature
<1> QED BY <1>10, <1>11

LEMMA SameFunction ==
    ASSUME NEW S, NEW f \in Functions(S), NEW g \in Functions(S),
           f.name = g.name, f.params = g.params, f.result = g.result
    PROVE  f = g
  BY DEF Functions

\* The types whose functions have types of L.
TypesOver(L) == {t \in ComponentType : t.funcs \in Seq(Functions(L))}

LEMMA FunctionRead ==
    ASSUME NEW L, Legible(L), NEW f \in Functions(L), NEW g \in Functions(L),
           IsU32(Len(f.params)), IsU32(Len(g.params)), NEW c \in Seq(Nat)
    PROVE  /\ Reads(Text(f.name) \o (c \o Signature(f)), f, Text(g.name) \o (c \o Signature(g)), g)
           /\ Text(f.name) \in Seq(Nat) /\ Signature(f) \in Seq(Nat)
           /\ Text(g.name) \in Seq(Nat) /\ Signature(g) \in Seq(Nat)
<1>1. f \in Functions(Val) /\ g \in Functions(Val)
  <2>1. L \subseteq Val
    BY DEF Legible
  <2>2. Functions(L) \subseteq Functions(Val)
    BY <2>1, FunctionsGrow
  <2> QED BY <2>2
<1>2. f.name \in NameLength /\ g.name \in NameLength
  BY DEF Functions
<1>3. /\ Text(f.name) \in Seq(Nat) /\ Signature(f) \in Seq(Nat)
      /\ Text(g.name) \in Seq(Nat) /\ Signature(g) \in Seq(Nat)
      /\ c \o Signature(f) \in Seq(Nat) /\ c \o Signature(g) \in Seq(Nat)
  <2>1. Signature(f) \in Seq(Nat) /\ Signature(g) \in Seq(Nat)
    BY <1>1, SignatureType
  <2> QED BY <1>2, <2>1, TextType, Joined
<1>4. Reads(Text(f.name), f.name, Text(g.name), g.name)
  BY <1>2, TextRead
<1>5. Reads(c, c, c, c)
  BY DEF Reads
<1>6. Reads(Signature(f), <<f.params, f.result>>, Signature(g), <<g.params, g.result>>)
  BY SignatureRead
<1>7. Reads(c \o Signature(f), <<c, <<f.params, f.result>>>>,
            c \o Signature(g), <<c, <<g.params, g.result>>>>)
  BY ONLY <1>3, <1>5, <1>6, c \in Seq(Nat), PairRead
<1>8. Reads(Text(f.name) \o (c \o Signature(f)), <<f.name, <<c, <<f.params, f.result>>>>>>,
            Text(g.name) \o (c \o Signature(g)), <<g.name, <<c, <<g.params, g.result>>>>>>)
  BY ONLY <1>3, <1>4, <1>7, PairRead
<1>9. ASSUME <<f.name, <<c, <<f.params, f.result>>>>>> = <<g.name, <<c, <<g.params, g.result>>>>>>
      PROVE  f = g
  <2>1. f.name = g.name /\ f.params = g.params /\ f.result = g.result
    BY ONLY <1>9
  <2> QED BY <2>1, SameFunction
<1> QED BY <1>3, <1>8, <1>9 DEF Reads

\* A type's first byte, and the bytes behind it.
TypeTag(t) == CASE t.kind = "func" -> 64 [] t.kind = "instance" -> 66 [] t.kind = "component" -> 65
TypeRest(t) ==
    CASE t.kind = "func" -> Text(t.funcs[1].name) \o Signature(t.funcs[1])
      [] t.kind = "instance" -> Listed(FuncPieces(t))
      [] t.kind = "component" -> <<>>

LEMMA TypeParts ==
    ASSUME NEW t \in ComponentType
    PROVE  /\ TypeTag(t) \in Nat /\ TypeRest(t) \in Seq(Nat)
           /\ EncodeType(t) = <<TypeTag(t)>> \o TypeRest(t)
           /\ t.kind \in {"func", "instance", "component"}
           /\ t.kind = "func" => TypeTag(t) = 64
           /\ t.kind = "instance" => TypeTag(t) = 66
           /\ t.kind = "component" => TypeTag(t) = 65
           /\ t.kind = "func" => TypeRest(t) = Text(t.funcs[1].name) \o Signature(t.funcs[1])
           /\ t.kind = "instance" => TypeRest(t) = Listed(FuncPieces(t))
<1>1. /\ t.kind \in {"func", "instance", "component"}
      /\ t.kind = "func" => TypeTag(t) = 64
      /\ t.kind = "instance" => TypeTag(t) = 66
      /\ t.kind = "component" => TypeTag(t) = 65
      /\ t.kind = "func" => TypeRest(t) = Text(t.funcs[1].name) \o Signature(t.funcs[1])
      /\ t.kind = "instance" => TypeRest(t) = Listed(FuncPieces(t))
      /\ t.kind = "component" => TypeRest(t) = <<>>
  <2>1. t.kind \in {"func", "instance", "component"}
    BY BytesOfType
  <2> QED BY <2>1, Zenon DEF TypeTag, TypeRest
<1>2. CASE t.kind = "func"
  <2>1. t.funcs[1] \in Functions(Val) /\ t.funcs[1].name \in NameLength
    BY <1>2, BytesOfType DEF Functions
  <2>2. PICK x \in Seq(Nat), v \in Seq(Nat), c \in Seq(Nat) :
            x = Text(t.funcs[1].name) /\ v = Signature(t.funcs[1]) /\ c = <<64>>
    BY <2>1, TextType, SignatureType, ByteType
  <2>3. EncodeType(t) = (c \o x) \o v
    BY <1>2, <2>2, BytesOfType
  <2>4. Regroups(c, x, v)
    BY Regrouped
  <2>5. x \o v \in Seq(Nat)
    BY Joined
  <2>6. TypeRest(t) = x \o v /\ TypeTag(t) = 64
    BY <1>1, <1>2, <2>2
  <2>7. EncodeType(t) = c \o (x \o v)
    BY <2>3, <2>4 DEF Regroups
  <2> QED BY ONLY <1>1, <2>2, <2>5, <2>6, <2>7
<1>3. CASE t.kind = "instance"
  <2>1. Listed(FuncPieces(t)) \in Seq(Nat)
    BY FuncPiecesType, ListedType
  <2>2. EncodeType(t) = <<66>> \o Listed(FuncPieces(t))
    BY <1>3, BytesOfType
  <2> QED BY ONLY <1>1, <1>3, <2>1, <2>2
<1>4. CASE t.kind = "component"
  <2>1. EncodeType(t) = <<65>> /\ TypeRest(t) = <<>> /\ TypeTag(t) = 65
    BY <1>1, <1>4, BytesOfType
  <2>2. <<65>> \o <<>> = <<65>> /\ <<>> \in Seq(Nat)
    OBVIOUS
  <2> QED BY ONLY <1>1, <1>4, <2>1, <2>2
<1> QED BY <1>1, <1>2, <1>3, <1>4

LEMMA SameType ==
    ASSUME NEW S, NEW t \in [kind : {"func", "instance", "component"}, funcs : S],
           NEW u \in [kind : {"func", "instance", "component"}, funcs : S],
           t.kind = u.kind, t.funcs = u.funcs
    PROVE  t = u
  OBVIOUS

LEMMA TypeFacts ==
    ASSUME NEW t \in ComponentType
    PROVE  /\ t \in [kind : {"func", "instance", "component"}, funcs : Seq(Functions(Val))]
           /\ IsU32(Len(t.funcs)) /\ \A k \in DOMAIN t.funcs : IsU32(Len(t.funcs[k].params))
<1>1. IsType(t)
  BY DEF ComponentType
<1> QED BY ONLY <1>1 DEF IsType

LEMMA TypeRead ==
    ASSUME NEW L, Legible(L), NEW t \in TypesOver(L), NEW u \in TypesOver(L)
    PROVE  Reads(EncodeType(t), t, EncodeType(u), u)
<1>1. t \in ComponentType /\ u \in ComponentType
  BY DEF TypesOver
<1>2. PICK a \in Nat, b \in Nat, v \in Seq(Nat), w \in Seq(Nat) :
        /\ a = TypeTag(t) /\ b = TypeTag(u) /\ v = TypeRest(t) /\ w = TypeRest(u)
        /\ EncodeType(t) = <<a>> \o v /\ EncodeType(u) = <<b>> \o w
  BY <1>1, TypeParts
<1> SUFFICES ASSUME NEW r \in Seq(Nat), NEW q \in Seq(Nat), EncodeType(t) \o r = EncodeType(u) \o q
             PROVE  t = u
  BY DEF Reads
<1>3. a = b /\ v \o r = w \o q
  <2>1. Alike(<<a>>, v, r, <<b>>, w, q)
    BY <1>2 DEF Alike
  <2>2. Reads(<<a>>, a, <<b>>, b) /\ <<a>> \in Seq(Nat) /\ <<b>> \in Seq(Nat)
    BY ByteRead, ByteType
  <2>3. a = b /\ RestAlike(<<a>>, v, r, <<b>>, w, q)
    BY ONLY <2>1, <2>2, v \in Seq(Nat), w \in Seq(Nat), r \in Seq(Nat), q \in Seq(Nat), HeadRead
  <2> QED BY <2>3 DEF RestAlike
<1>4. t.kind = u.kind
  <2>1. /\ t.kind \in {"func", "instance", "component"}
        /\ t.kind = "func" => a = 64
        /\ t.kind = "instance" => a = 66
        /\ t.kind = "component" => a = 65
    BY <1>1, <1>2, TypeParts
  <2>2. /\ u.kind \in {"func", "instance", "component"}
        /\ u.kind = "func" => b = 64
        /\ u.kind = "instance" => b = 66
        /\ u.kind = "component" => b = 65
    BY <1>1, <1>2, TypeParts
  <2> QED BY ONLY <1>3, <2>1, <2>2
<1>5. t.funcs = u.funcs => t = u
  BY <1>1, <1>4, TypeFacts, SameType
<1>6. PICK f \in Seq(Functions(L)), g \in Seq(Functions(L)), n \in Nat, m \in Nat :
          /\ f = t.funcs /\ g = u.funcs /\ n = Len(f) /\ m = Len(g)
          /\ DOMAIN f = 1 .. n /\ DOMAIN g = 1 .. m
  BY DEF TypesOver
<1>7. /\ IsU32(n) /\ IsU32(m)
      /\ \A k \in 1 .. n : IsU32(Len(f[k].params)) /\ f[k] \in Functions(L)
      /\ \A k \in 1 .. m : IsU32(Len(g[k].params)) /\ g[k] \in Functions(L)
  <2>1. IsU32(n) /\ \A k \in 1 .. n : IsU32(Len(f[k].params))
    BY <1>1, <1>6, TypeFacts
  <2>2. IsU32(m) /\ \A k \in 1 .. m : IsU32(Len(g[k].params))
    BY <1>1, <1>6, TypeFacts
  <2>3. \A k \in 1 .. n : f[k] \in Functions(L)
    BY <1>6
  <2>4. \A k \in 1 .. m : g[k] \in Functions(L)
    BY <1>6
  <2> QED BY ONLY <2>1, <2>2, <2>3, <2>4
<1>8. CASE t.kind = "func"
  <2>1. n = 1 /\ m = 1
    BY <1>1, <1>4, <1>6, <1>8, BytesOfType
  <2>2. PICK x \in Functions(L), y \in Functions(L) :
            x = f[1] /\ y = g[1] /\ IsU32(Len(x.params)) /\ IsU32(Len(y.params))
    BY <1>7, <2>1
  <2> DEFINE c == <<>>
  <2>3. c \in Seq(Nat) /\ \A z \in Seq(Nat) : c \o z = z
    OBVIOUS
  <2> HIDE DEF c
  <2>4. /\ Reads(Text(x.name) \o (c \o Signature(x)), x, Text(y.name) \o (c \o Signature(y)), y)
        /\ Signature(x) \in Seq(Nat) /\ Signature(y) \in Seq(Nat)
    BY <2>2, <2>3, FunctionRead
  <2>5. c \o Signature(x) = Signature(x) /\ c \o Signature(y) = Signature(y)
    BY ONLY <2>3, <2>4
  <2>6. v = Text(x.name) \o Signature(x) /\ w = Text(y.name) \o Signature(y)
    BY <1>1, <1>2, <1>4, <1>6, <1>8, <2>2, TypeParts
  <2>7. Reads(v, x, w, y)
    BY <2>4, <2>5, <2>6
  <2>8. x = y
    BY <1>3, <2>7 DEF Reads
  <2>9. f = g
    <3>1. f[1] = g[1]
      BY <2>2, <2>8
    <3>2. Len(f) = 1 /\ Len(g) = 1
      BY <1>6, <2>1
    <3>3. \A k \in 1 .. 1 : f[k] = g[k]
      <4> TAKE k \in 1 .. 1
      <4>1. k = 1
        OBVIOUS
      <4> QED BY ONLY <3>1, <4>1
    <3>4. f \in Seq(Functions(L)) /\ g \in Seq(Functions(L))
      OBVIOUS
    <3> QED BY ONLY <3>2, <3>3, <3>4, SameSeq
  <2> QED BY <1>5, <1>6, <2>9
<1>9. CASE t.kind = "instance"
  <2>1. /\ FuncPieces(t) \in Seq(Seq(Nat)) /\ Len(FuncPieces(t)) = n
        /\ FuncPieces(u) \in Seq(Seq(Nat)) /\ Len(FuncPieces(u)) = m
    BY <1>1, <1>6, FuncPiecesType
  <2>2. ASSUME n = m, NEW k \in 1 .. n
        PROVE  Reads(FuncPieces(t)[k], f[k], FuncPieces(u)[k], g[k])
    <3>1. PICK x \in Functions(L), y \in Functions(L) :
              x = f[k] /\ y = g[k] /\ IsU32(Len(x.params)) /\ IsU32(Len(y.params))
      BY <1>7, <2>2
    <3>2. PICK c \in Seq(Nat) : c = <<64>>
      BY ByteType
    <3>3. /\ Reads(Text(x.name) \o (c \o Signature(x)), x, Text(y.name) \o (c \o Signature(y)), y)
          /\ Text(x.name) \in Seq(Nat) /\ Signature(x) \in Seq(Nat)
          /\ Text(y.name) \in Seq(Nat) /\ Signature(y) \in Seq(Nat)
      BY <3>1, FunctionRead
    <3>4. /\ FuncPieces(t)[k] = (Text(x.name) \o c) \o Signature(x)
          /\ FuncPieces(u)[k] = (Text(y.name) \o c) \o Signature(y)
      BY <1>6, <2>2, <3>1, <3>2 DEF FuncPieces
    <3>5. Regroups(Text(x.name), c, Signature(x)) /\ Regroups(Text(y.name), c, Signature(y))
      BY ONLY <3>3, c \in Seq(Nat), Regrouped
    <3> QED BY ONLY <3>1, <3>3, <3>4, <3>5 DEF Regroups
  <2>3. Reads(Listed(FuncPieces(t)), f, Listed(FuncPieces(u)), g)
    BY <1>6, <1>7, <2>1, <2>2, EntriesRead
  <2>4. v = Listed(FuncPieces(t)) /\ w = Listed(FuncPieces(u))
    BY <1>1, <1>2, <1>4, <1>9, TypeParts
  <2>5. f = g
    BY <1>3, <2>3, <2>4 DEF Reads
  <2> QED BY <1>5, <1>6, <2>5
<1>10. CASE t.kind = "component"
  <2>1. t.funcs = <<>> /\ u.funcs = <<>>
    BY <1>1, <1>4, <1>10, BytesOfType
  <2> QED BY <1>5, <2>1
<1>11. t.kind \in {"func", "instance", "component"}
  BY <1>1, TypeParts
<1> QED BY <1>8, <1>9, <1>10, <1>11

LEMMA RestOf ==
    ASSUME NEW y \in Seq(Nat), NEW n \in Nat, NEW m \in Nat, m = Len(y), n <= m
    PROVE  /\ SubSeq(y, n + 1, m) \in Seq(Nat) /\ Len(SubSeq(y, n + 1, m)) = m - n
           /\ \A k \in 1 .. m - n : SubSeq(y, n + 1, m)[k] = y[n + k]
<1>1. PICK j \in Nat : j = m - n
  <2>1. m - n \in Nat
    OBVIOUS
  <2> QED BY ONLY <2>1
<1>2. (m - (n + 1)) + 1 = j /\ \A k \in 1 .. j : n + k \in 1 .. m
  BY <1>1
<1>3. Len(SubSeq(y, n + 1, m)) = j
  BY <1>1
<1>4. \A k \in 1 .. j : SubSeq(y, n + 1, m)[k] = y[n + k]
  BY <1>1
<1>5. SubSeq(y, n + 1, m) \in Seq(Nat)
  BY <1>1, <1>2
<1> QED BY <1>1, <1>3, <1>4, <1>5

\* Neither of two encodings that can be read is the beginning of the other.
LEMMA ReadsApart ==
    ASSUME NEW x \in Seq(Nat), NEW y \in Seq(Nat), NEW t, NEW u, Reads(x, t, y, u), Begins(x, y)
    PROVE  t = u
<1>1. Len(x) <= Len(y) /\ SubSeq(y, 1, Len(x)) = x /\ Len(x) \in Nat /\ Len(y) \in Nat
  BY DEF Begins
<1>2. PICK n \in Nat, m \in Nat : n = Len(x) /\ m = Len(y) /\ n <= m
  BY <1>1
<1> DEFINE r == SubSeq(y, n + 1, m)
           c == <<>>
<1>3. r \in Seq(Nat) /\ Len(r) = m - n /\ \A k \in 1 .. m - n : r[k] = y[n + k]
  BY <1>2, RestOf
<1>4. c \in Seq(Nat) /\ y \o c = y
  OBVIOUS
<1> HIDE DEF r, c
<1>5. \A k \in 1 .. n : x[k] = y[k]
  BY <1>1, <1>2
<1>6. /\ x \o r \in Seq(Nat) /\ Len(x \o r) = Len(x) + Len(r)
      /\ \A k \in 1 .. Len(x) : (x \o r)[k] = x[k]
      /\ \A k \in 1 .. Len(r) : (x \o r)[Len(x) + k] = r[k]
  BY ONLY x \in Seq(Nat), <1>3, Joined
<1>7. PICK z \in Seq(Nat) : z = x \o r
  BY <1>6
<1>8. Len(z) = m
  <2>1. Len(z) = n + Len(r)
    BY ONLY <1>2, <1>6, <1>7
  <2>2. Len(r) = m - n
    BY <1>3
  <2> QED BY ONLY <2>1, <2>2, n \in Nat, m \in Nat
<1>9. ASSUME NEW k \in 1 .. m PROVE z[k] = y[k]
  <2>1. CASE k <= n
    <3>1. k \in 1 .. n
      BY <2>1, <1>2
    <3>2. z[k] = x[k]
      BY ONLY <1>2, <1>6, <1>7, <3>1
    <3> QED BY <1>5, <3>1, <3>2
  <2>2. CASE k > n
    <3>1. PICK j \in Nat : j = k - n
      <4>1. k - n \in Nat
        BY ONLY <2>2, n \in Nat, m \in Nat, k \in 1 .. m
      <4> QED BY ONLY <4>1
    <3>2. j \in 1 .. m - n /\ k = n + j
      BY <2>2, <3>1
    <3>3. j \in 1 .. Len(r)
      BY ONLY <1>3, <3>2
    <3>4. z[k] = r[j]
      BY ONLY <1>2, <1>6, <1>7, <3>2, <3>3
    <3>5. r[j] = y[n + j]
      BY ONLY <1>3, <3>2
    <3> QED BY ONLY <3>2, <3>4, <3>5
  <2> QED BY <1>2, <2>1, <2>2
<1>10. z = y
  BY ONLY <1>2, <1>8, <1>9, z \in Seq(Nat), y \in Seq(Nat), SameSeq
<1>11. x \o r = y \o c
  BY ONLY <1>4, <1>7, <1>10
<1> QED BY ONLY <1>3, <1>4, <1>11, Reads(x, t, y, u) DEF Reads

LEMMA ValLegible == ASSUME \A t \in Val : LowRef(t) PROVE Legible(Val) /\ TypesOver(Val) = ComponentType
<1>1. \A t \in Val : IsValType(t, Val)
  BY ValLayers
<1> QED BY <1>1 DEF Legible, TypesOver, ComponentType

LEMMA BinaryInvAlways == BinarySpec => []BinaryInv
<1>1. BinaryInit => BinaryInv
  BY NewBuilderType DEF BinaryInit, BinaryInv
<1> QED BY <1>1, BinaryInvNext, PTL DEF BinarySpec

\* A reader tells the types of a type section apart, of whatever size and depth they are, when
\* no type reference has an index from 104 to 127: such an index is written as it is, and begins
\* as the opcode of another type does.
THEOREM TypesDistinctAlways ==
    ASSUME \A t \in Val : LowRef(t)
    PROVE  BinarySpec => []TypesDistinct
<1>1. BinaryInv => TypesDistinct
  <2> SUFFICES ASSUME BinaryInv, NEW j \in DOMAIN builder.types, NEW k \in DOMAIN builder.types,
                      Begins(EncodeType(builder.types[j]), EncodeType(builder.types[k]))
               PROVE  builder.types[j] = builder.types[k]
    BY DEF TypesDistinct
  <2>1. builder.types \in Seq(ComponentType)
    BY DEF BinaryInv, BuilderType
  <2>2. PICK t \in ComponentType, u \in ComponentType : t = builder.types[j] /\ u = builder.types[k]
    BY <2>1
  <2>3. Reads(EncodeType(t), t, EncodeType(u), u)
    BY ValLegible, TypeRead
  <2>4. EncodeType(t) \in Seq(Nat) /\ EncodeType(u) \in Seq(Nat)
    BY EncodedTypeType
  <2> QED BY <2>2, <2>3, <2>4, ReadsApart
<1>2. BinarySpec => []TypesDistinct
  BY <1>1, BinaryInvAlways, PTL
<1> QED BY <1>2

-----------------------------------------------------------------------------
(***************************************************************************)
(* Worlds: the types of references.                                        *)
(***************************************************************************)

RefKinds == {"primitive", "named", "list", "option", "result", "tuple", "own", "borrow"}

LEMMA RefParts ==
    ASSUME NEW B, Absent \notin B, NEW r, IsRef(r, B)
    PROVE  /\ r.kind \in RefKinds /\ r.args \in Seq(B \union {Absent}) /\ IsU32(Len(r.args))
           /\ r.kind = "primitive" => r.op \in 115 .. 127
           /\ r.kind # "primitive" => r.op = 0
           /\ r.kind \in {"primitive", "named"} => r.args = <<>>
           /\ r.kind # "result" => r.args \in Seq(B)
           /\ r.kind \in {"list", "option"} => Len(r.args) = 1
           /\ r.kind = "result" => Len(r.args) = 2
<1>1. Opcode["primitive"] = 115 .. 127
  BY DEF Opcode
<1>2. /\ r.kind \in RefKinds /\ r.args \in Seq(B \union {Absent}) /\ IsU32(Len(r.args))
      /\ r.op \in {0} \union 115 .. 127
  BY <1>1 DEF IsRef, RefKinds
<1>3. /\ IF r.kind = "primitive" THEN r.op # 0 ELSE r.op = 0
      /\ r.kind \in {"primitive", "named"} => r.args = <<>>
      /\ r.kind # "result" => r.args \in Seq(B)
      /\ r.kind \in {"list", "option", "own", "borrow"} => Len(r.args) = 1
      /\ r.kind = "result" => Len(r.args) = 2
  BY DEF IsRef
<1> QED BY <1>2, <1>3

LEMMA RefWidened ==
    ASSUME NEW B, NEW C, B \subseteq C, NEW r, IsRef(r, B)
    PROVE  IsRef(r, C)
<1>1. Seq(B) \subseteq Seq(C) /\ Seq(B \union {Absent}) \subseteq Seq(C \union {Absent})
  OBVIOUS
<1> QED BY <1>1 DEF IsRef

RefBefore(d) == Before(Refs, d)

\* Layers of references, whose arguments are of earlier layers.
LEMMA RefLayers ==
    \E n \in Nat :
        /\ RefBefore(1) = {} /\ RefBefore(n + 1) = Ref
        /\ \A d \in 1 .. n : RefBefore(d + 1) = RefBefore(d) \union Refs[d]
        /\ \A d \in 1 .. n + 1 : /\ RefBefore(d) \subseteq Ref /\ Absent \notin RefBefore(d)
                                 /\ \A r \in RefBefore(d) : IsRef(r, RefBefore(d))
        /\ \A d \in 1 .. n : \A r \in Refs[d] : IsRef(r, RefBefore(d))
<1>1. PICK n \in Nat : n = Len(Refs) /\ DOMAIN Refs = 1 .. n
  BY RefAssumption
<1>2. /\ RefBefore(1) = {} /\ RefBefore(n + 1) = Ref
      /\ \A d \in 1 .. n : RefBefore(d + 1) = RefBefore(d) \union Refs[d]
      /\ \A d \in 1 .. n + 1 : RefBefore(d) \subseteq Ref
      /\ \A d \in 1 .. n + 1 : \A r \in RefBefore(d) :
            \E c \in 1 .. n : r \in Refs[c] /\ RefBefore(c) \subseteq RefBefore(d)
  <2>1. Refs \in Seq(SUBSET Ref)
    BY RefAssumption
  <2>2. Ref = AllOf(Refs)
    BY DEF Ref, AllOf
  <2>3. /\ Before(Refs, 1) = {}
        /\ \A d \in 1 .. n : Before(Refs, d + 1) = Before(Refs, d) \union Refs[d]
        /\ Before(Refs, n + 1) = AllOf(Refs)
        /\ \A d \in 1 .. n + 1 : Before(Refs, d) \subseteq AllOf(Refs)
        /\ \A d \in 1 .. n + 1 : \A r \in Before(Refs, d) :
              \E c \in 1 .. n : r \in Refs[c] /\ Before(Refs, c) \subseteq Before(Refs, d)
    BY ONLY <1>1, <2>1, LayersGrow
  <2> QED BY <2>2, <2>3 DEF RefBefore
<1>3. \A d \in 1 .. n : \A r \in Refs[d] : IsRef(r, RefBefore(d))
  BY <1>1, RefAssumption DEF RefBefore
<1>4. ASSUME NEW d \in 1 .. n + 1, NEW r \in RefBefore(d) PROVE IsRef(r, RefBefore(d))
  <2>1. PICK c \in 1 .. n : r \in Refs[c] /\ RefBefore(c) \subseteq RefBefore(d)
    BY <1>2
  <2>2. IsRef(r, RefBefore(c))
    BY <1>3, <2>1
  <2> QED BY <2>1, <2>2, RefWidened
<1>5. \A d \in 1 .. n + 1 : Absent \notin RefBefore(d)
  BY <1>2, RefAssumption
<1> QED BY <1>2, <1>3, <1>4, <1>5

\* What becomes of a reference's arguments.
InnerVals(c, r) == [k \in DOMAIN r.args |-> IF r.args[k] = Absent THEN Absent ELSE c[r.args[k]]]
OpenArgs(o, r) == [k \in DOMAIN r.args |-> IF r.args[k] = Absent THEN <<>> ELSE <<o[r.args[k]]>>]

LEMMA ConvertedIs ==
    ASSUME NEW c, NEW r
    PROVE  /\ r.kind = "primitive" => Converted(c, r) = Plain("primitive", r.op, <<>>)
           /\ r.kind = "list" => Converted(c, r) = Plain("wrapper", 112, InnerVals(c, r))
           /\ r.kind = "option" => Converted(c, r) = Plain("wrapper", 111, InnerVals(c, r))
           /\ r.kind = "result" => Converted(c, r) = Plain("result", 110, InnerVals(c, r))
           /\ r.kind = "tuple" => Converted(c, r) = Plain("tuple", 109, InnerVals(c, r))
           /\ r.kind = "own" => Converted(c, r) = Plain("handle", 105, <<>>)
           /\ r.kind = "borrow" => Converted(c, r) = Plain("handle", 104, <<>>)
           /\ r.kind = "named" => Converted(c, r) = Plain("ref", 0, <<>>)
  BY Zenon DEF Converted, InnerVals

LEMMA OpenedIs ==
    ASSUME NEW o, NEW r
    PROVE  /\ r.kind \in {"own", "borrow", "named"} =>
                 Opened(o, r) = [kind |-> r.kind, op |-> 0, args |-> <<>>]
           /\ r.kind \notin {"own", "borrow", "named"} =>
                 Opened(o, r) = [kind |-> r.kind, op |-> r.op, args |-> OpenArgs(o, r)]
  BY Zenon DEF Opened, OpenArgs

\* Both conversions, so that what follows is said once: that to types, and the other.
ConvertBy(types, f, r) == IF types THEN Converted(f, r) ELSE Opened(f, r)

LEMMA ConvertSame ==
    ASSUME NEW B, Absent \notin B, NEW r, IsRef(r, B), NEW types \in BOOLEAN,
           NEW f, NEW g, \A x \in B : f[x] = g[x]
    PROVE  ConvertBy(types, f, r) = ConvertBy(types, g, r)
<1>1. PICK s \in Seq(B \union {Absent}) : s = r.args
  BY RefParts
<1>2. \A k \in DOMAIN s : s[k] \in B \/ s[k] = Absent
  OBVIOUS
<1>3. InnerVals(f, r) = InnerVals(g, r)
  BY <1>1, <1>2 DEF InnerVals
<1>4. OpenArgs(f, r) = OpenArgs(g, r)
  BY <1>1, <1>2 DEF OpenArgs
<1>5. Converted(f, r) = Converted(g, r)
  <2>1. r.kind \in RefKinds
    BY RefParts
  <2> QED BY <1>3, <2>1, ConvertedIs DEF RefKinds
<1>6. Opened(f, r) = Opened(g, r)
  BY <1>4, OpenedIs
<1> QED BY <1>5, <1>6 DEF ConvertBy

Converts(types, f, B) == /\ f = [r \in Ref |-> f[r]]
                         /\ \A r \in B : f[r] = ConvertBy(types, f, r)

LEMMA ConvertsMore ==
    ASSUME NEW B \in SUBSET Ref, NEW C \in SUBSET Ref, Absent \notin B, NEW types \in BOOLEAN,
           \A r \in B : IsRef(r, B), \A r \in C : IsRef(r, B),
           NEW f, Converts(types, f, B)
    PROVE  \E g : Converts(types, g, B \union C)
<1> DEFINE g == [r \in Ref |-> IF r \in B THEN f[r] ELSE ConvertBy(types, f, r)]
<1>1. \A r \in B : g[r] = f[r]
  OBVIOUS
<1>2. \A r \in C : r \notin B => g[r] = ConvertBy(types, f, r)
  OBVIOUS
<1>3. g = [r \in Ref |-> g[r]]
  OBVIOUS
<1> HIDE DEF g
<1>4. ASSUME NEW r \in B \union C PROVE ConvertBy(types, g, r) = ConvertBy(types, f, r)
  <2>1. IsRef(r, B)
    OBVIOUS
  <2> QED BY <1>1, <2>1, ConvertSame
<1>5. ASSUME NEW r \in B \union C PROVE g[r] = ConvertBy(types, g, r)
  <2>1. CASE r \in B
    BY <1>1, <1>4, <2>1 DEF Converts
  <2>2. CASE r \notin B
    BY <1>2, <1>4, <2>2
  <2> QED BY <2>1, <2>2
<1> QED BY <1>3, <1>5 DEF Converts

LEMMA ConvertsAll == ASSUME NEW types \in BOOLEAN PROVE \E f : Converts(types, f, Ref)
<1>1. PICK n \in Nat :
        /\ RefBefore(1) = {} /\ RefBefore(n + 1) = Ref
        /\ \A d \in 1 .. n : RefBefore(d + 1) = RefBefore(d) \union Refs[d]
        /\ \A d \in 1 .. n + 1 : /\ RefBefore(d) \subseteq Ref /\ Absent \notin RefBefore(d)
                                 /\ \A r \in RefBefore(d) : IsRef(r, RefBefore(d))
        /\ \A d \in 1 .. n : \A r \in Refs[d] : IsRef(r, RefBefore(d))
  BY RefLayers
<1> DEFINE N == {k \in Nat : k <= n => \E f : Converts(types, f, RefBefore(k + 1))}
<1>2. 0 \in N
  <2>1. Converts(types, [r \in Ref |-> <<>>], {})
    BY DEF Converts
  <2>2. \E f : Converts(types, f, RefBefore(1))
    BY <1>1, <2>1
  <2>3. 0 + 1 = 1 /\ 0 \in Nat
    OBVIOUS
  <2> QED BY ONLY <2>2, <2>3
<1>3. ASSUME NEW k \in N PROVE k + 1 \in N
  <2> SUFFICES ASSUME k + 1 <= n PROVE \E f : Converts(types, f, RefBefore((k + 1) + 1))
    OBVIOUS
  <2>1. PICK f : Converts(types, f, RefBefore(k + 1))
    OBVIOUS
  <2>2. k + 1 \in 1 .. n /\ k + 1 \in 1 .. n + 1 /\ (k + 1) + 1 \in 1 .. n + 1
    OBVIOUS
  <2>3. /\ RefBefore((k + 1) + 1) = RefBefore(k + 1) \union Refs[k + 1]
        /\ RefBefore(k + 1) \subseteq Ref /\ Absent \notin RefBefore(k + 1)
        /\ RefBefore((k + 1) + 1) \subseteq Ref
        /\ \A r \in RefBefore(k + 1) : IsRef(r, RefBefore(k + 1))
        /\ \A r \in Refs[k + 1] : IsRef(r, RefBefore(k + 1))
    BY <1>1, <2>2
  <2> QED BY ONLY <2>1, <2>3, types \in BOOLEAN, ConvertsMore
<1>4. N = Nat
  BY <1>2, <1>3, NatSetInduction
<1>5. \E f : Converts(types, f, RefBefore(n + 1))
  <2>1. n \in N
    BY <1>4
  <2>2. n <= n
    OBVIOUS
  <2> QED BY ONLY <2>1, <2>2
<1> QED BY <1>1, <1>5

\* The two functions are what their definitions say.
LEMMA ValTypeIs == \A r \in Ref : ValType[r] = Converted(ValType, r)
<1>1. PICK f : Converts(TRUE, f, Ref)
  BY ConvertsAll
<1>2. f = [r \in Ref |-> Converted(f, r)]
  BY <1>1 DEF Converts, ConvertBy
<1>3. ValType = CHOOSE g : g = [r \in Ref |-> Converted(g, r)]
  BY DEF ValType
<1>4. ValType = [r \in Ref |-> Converted(ValType, r)]
  BY <1>2, <1>3
<1>5. PICK v : v = ValType
  OBVIOUS
<1>6. v = [r \in Ref |-> Converted(v, r)]
  BY <1>4, <1>5
<1> QED BY ONLY <1>5, <1>6

LEMMA UnresolvedIs == \A r \in Ref : Unresolved[r] = Opened(Unresolved, r)
<1>1. PICK f : Converts(FALSE, f, Ref)
  BY ConvertsAll
<1>2. f = [r \in Ref |-> Opened(f, r)]
  BY <1>1 DEF Converts, ConvertBy
<1>3. Unresolved = CHOOSE g : g = [r \in Ref |-> Opened(g, r)]
  BY DEF Unresolved
<1>4. Unresolved = [r \in Ref |-> Opened(Unresolved, r)]
  BY <1>2, <1>3
<1>5. PICK v : v = Unresolved
  OBVIOUS
<1>6. v = [r \in Ref |-> Opened(v, r)]
  BY <1>4, <1>5
<1> QED BY ONLY <1>5, <1>6

\* A type, and what is left of the reference it is made of, say the same of one reference.
LEMMA ArgSame ==
    ASSUME NEW B, Absent \notin B, NEW c, NEW o, \A x \in B : c[x] # Absent,
           \A x, y \in B : c[x] = c[y] <=> o[x] = o[y],
           NEW a \in B \union {Absent}, NEW b \in B \union {Absent}
    PROVE  (IF a = Absent THEN Absent ELSE c[a]) = (IF b = Absent THEN Absent ELSE c[b])
             <=> (IF a = Absent THEN <<>> ELSE <<o[a]>>) = (IF b = Absent THEN <<>> ELSE <<o[b]>>)
<1>1. CASE a \in B /\ b \in B
  <2>1. a # Absent /\ b # Absent /\ (c[a] = c[b] <=> o[a] = o[b])
    BY <1>1
  <2>2. <<o[a]>> = <<o[b]>> <=> o[a] = o[b]
    OBVIOUS
  <2> QED BY <2>1, <2>2
<1>2. CASE a = Absent /\ b \in B
  <2>1. b # Absent /\ c[b] # Absent /\ <<o[b]>> # <<>>
    BY <1>2
  <2> QED BY <1>2, <2>1
<1>3. CASE a \in B /\ b = Absent
  <2>1. a # Absent /\ c[a] # Absent /\ <<o[a]>> # <<>>
    BY <1>3
  <2> QED BY <1>3, <2>1
<1>4. CASE a = Absent /\ b = Absent
  BY <1>4
<1> QED BY <1>1, <1>2, <1>3, <1>4

LEMMA ArgsSame ==
    ASSUME NEW B, Absent \notin B, NEW c, NEW o, \A x \in B : c[x] # Absent,
           \A x, y \in B : c[x] = c[y] <=> o[x] = o[y],
           NEW r, NEW s, IsRef(r, B), IsRef(s, B)
    PROVE  InnerVals(c, r) = InnerVals(c, s) <=> OpenArgs(o, r) = OpenArgs(o, s)
<1>1. PICK a \in Seq(B \union {Absent}), b \in Seq(B \union {Absent}), n \in Nat, m \in Nat :
        /\ a = r.args /\ b = s.args /\ n = Len(a) /\ m = Len(b)
        /\ DOMAIN a = 1 .. n /\ DOMAIN b = 1 .. m
  <2>1. r.args \in Seq(B \union {Absent}) /\ s.args \in Seq(B \union {Absent})
    BY RefParts
  <2> QED BY ONLY <2>1
<1> DEFINE vi(q) == [k \in DOMAIN q |-> IF q[k] = Absent THEN Absent ELSE c[q[k]]]
           oi(q) == [k \in DOMAIN q |-> IF q[k] = Absent THEN <<>> ELSE <<o[q[k]]>>]
<1>2. /\ InnerVals(c, r) = vi(a) /\ InnerVals(c, s) = vi(b)
      /\ OpenArgs(o, r) = oi(a) /\ OpenArgs(o, s) = oi(b)
  BY <1>1 DEF InnerVals, OpenArgs
<1>3. ASSUME DOMAIN a = DOMAIN b PROVE vi(a) = vi(b) <=> oi(a) = oi(b)
  <2>1. ASSUME NEW k \in DOMAIN a
        PROVE  vi(a)[k] = vi(b)[k] <=> oi(a)[k] = oi(b)[k]
    <3>1. a[k] \in B \union {Absent} /\ b[k] \in B \union {Absent}
      BY <1>1, <1>3
    <3>2. (IF a[k] = Absent THEN Absent ELSE c[a[k]]) = (IF b[k] = Absent THEN Absent ELSE c[b[k]])
             <=> (IF a[k] = Absent THEN <<>> ELSE <<o[a[k]]>>)
                    = (IF b[k] = Absent THEN <<>> ELSE <<o[b[k]]>>)
      BY <3>1, ArgSame
    <3>3. /\ vi(a)[k] = (IF a[k] = Absent THEN Absent ELSE c[a[k]])
          /\ oi(a)[k] = (IF a[k] = Absent THEN <<>> ELSE <<o[a[k]]>>)
      OBVIOUS
    <3>4. /\ vi(b)[k] = (IF b[k] = Absent THEN Absent ELSE c[b[k]])
          /\ oi(b)[k] = (IF b[k] = Absent THEN <<>> ELSE <<o[b[k]]>>)
      BY <1>3
    <3> QED BY ONLY <3>2, <3>3, <3>4
  <2>2. vi(a) = vi(b) <=> \A k \in DOMAIN a : vi(a)[k] = vi(b)[k]
    BY <1>3
  <2>3. oi(a) = oi(b) <=> \A k \in DOMAIN a : oi(a)[k] = oi(b)[k]
    BY <1>3
  <2> QED BY ONLY <2>1, <2>2, <2>3
<1>4. vi(a) = vi(b) => DOMAIN a = DOMAIN b
  <2>1. DOMAIN vi(a) = DOMAIN a /\ DOMAIN vi(b) = DOMAIN b
    OBVIOUS
  <2> QED BY ONLY <2>1
<1>5. oi(a) = oi(b) => DOMAIN a = DOMAIN b
  <2>1. DOMAIN oi(a) = DOMAIN a /\ DOMAIN oi(b) = DOMAIN b
    OBVIOUS
  <2> QED BY ONLY <2>1
<1> QED BY ONLY <1>2, <1>3, <1>4, <1>5

LEMMA PlainSame ==
    ASSUME NEW k, NEW l, NEW a, NEW b, NEW s, NEW t
    PROVE  Plain(k, a, s) = Plain(l, b, t) <=> k = l /\ a = b /\ s = t
  BY DEF Plain

LEMMA LeftSame ==
    ASSUME NEW k, NEW l, NEW a, NEW b, NEW s, NEW t
    PROVE  [kind |-> k, op |-> a, args |-> s] = [kind |-> l, op |-> b, args |-> t]
             <=> k = l /\ a = b /\ s = t
  OBVIOUS

\* The opcode of what a reference of a kind becomes; a primitive type has its own.
RefOp(r) == CASE r.kind = "primitive" -> r.op [] r.kind = "list" -> 112 [] r.kind = "option" -> 111
              [] r.kind = "result" -> 110 [] r.kind = "tuple" -> 109 [] r.kind = "own" -> 105
              [] r.kind = "borrow" -> 104 [] r.kind = "named" -> 0
RefInner(c, r) == IF r.kind \in {"list", "option", "result", "tuple"} THEN InnerVals(c, r) ELSE <<>>

LEMMA RefOpIs ==
    ASSUME NEW B, Absent \notin B, NEW q, IsRef(q, B), NEW c
    PROVE  /\ \E kind : Converted(c, q) = Plain(kind, RefOp(q), RefInner(c, q))
           /\ q.kind \in RefKinds /\ RefOp(q) \in Nat
           /\ q.kind = "primitive" => RefOp(q) = q.op /\ RefOp(q) \in 115 .. 127
           /\ q.kind # "primitive" => q.op = 0
           /\ q.kind = "list" => RefOp(q) = 112
           /\ q.kind = "option" => RefOp(q) = 111
           /\ q.kind = "result" => RefOp(q) = 110
           /\ q.kind = "tuple" => RefOp(q) = 109
           /\ q.kind = "own" => RefOp(q) = 105
           /\ q.kind = "borrow" => RefOp(q) = 104
           /\ q.kind = "named" => RefOp(q) = 0
<1>1. /\ q.kind \in RefKinds
      /\ q.kind = "primitive" => q.op \in 115 .. 127
      /\ q.kind # "primitive" => q.op = 0
  BY RefParts
<1>2. /\ q.kind = "primitive" => RefOp(q) = q.op
      /\ q.kind = "list" => RefOp(q) = 112
      /\ q.kind = "option" => RefOp(q) = 111
      /\ q.kind = "result" => RefOp(q) = 110
      /\ q.kind = "tuple" => RefOp(q) = 109
      /\ q.kind = "own" => RefOp(q) = 105
      /\ q.kind = "borrow" => RefOp(q) = 104
      /\ q.kind = "named" => RefOp(q) = 0
  BY Zenon DEF RefOp
<1>3. /\ q.kind \in {"list", "option", "result", "tuple"} => RefInner(c, q) = InnerVals(c, q)
      /\ q.kind \notin {"list", "option", "result", "tuple"} => RefInner(c, q) = <<>>
  BY Zenon DEF RefInner
<1>4. /\ q.kind = "primitive" => Converted(c, q) = Plain("primitive", q.op, <<>>)
      /\ q.kind = "list" => Converted(c, q) = Plain("wrapper", 112, InnerVals(c, q))
      /\ q.kind = "option" => Converted(c, q) = Plain("wrapper", 111, InnerVals(c, q))
      /\ q.kind = "result" => Converted(c, q) = Plain("result", 110, InnerVals(c, q))
      /\ q.kind = "tuple" => Converted(c, q) = Plain("tuple", 109, InnerVals(c, q))
      /\ q.kind = "own" => Converted(c, q) = Plain("handle", 105, <<>>)
      /\ q.kind = "borrow" => Converted(c, q) = Plain("handle", 104, <<>>)
      /\ q.kind = "named" => Converted(c, q) = Plain("ref", 0, <<>>)
  BY ConvertedIs
<1>5. \E kind : Converted(c, q) = Plain(kind, RefOp(q), RefInner(c, q))
  <2>1. CASE q.kind \in {"list", "option"}
    <3>1. Converted(c, q) = Plain("wrapper", RefOp(q), RefInner(c, q))
      BY ONLY <1>2, <1>3, <1>4, <2>1
    <3> QED BY ONLY <3>1
  <2>2. CASE q.kind \in {"result", "tuple"}
    <3>1. Converted(c, q) = Plain(q.kind, RefOp(q), RefInner(c, q))
      BY ONLY <1>2, <1>3, <1>4, <2>2
    <3> QED BY ONLY <3>1
  <2>3. CASE q.kind = "primitive"
    <3>1. Converted(c, q) = Plain("primitive", RefOp(q), RefInner(c, q))
      BY ONLY <1>2, <1>3, <1>4, <2>3
    <3> QED BY ONLY <3>1
  <2>4. CASE q.kind \in {"own", "borrow"}
    <3>1. Converted(c, q) = Plain("handle", RefOp(q), RefInner(c, q))
      BY ONLY <1>2, <1>3, <1>4, <2>4
    <3> QED BY ONLY <3>1
  <2>5. CASE q.kind = "named"
    <3>1. Converted(c, q) = Plain("ref", RefOp(q), RefInner(c, q))
      BY ONLY <1>2, <1>3, <1>4, <2>5
    <3> QED BY ONLY <3>1
  <2> QED BY ONLY <1>1, <2>1, <2>2, <2>3, <2>4, <2>5 DEF RefKinds
<1>6. RefOp(q) \in Nat
  BY ONLY <1>1, <1>2 DEF RefKinds
<1> QED BY ONLY <1>1, <1>2, <1>5, <1>6

LEMMA ConvertedSame ==
    ASSUME NEW B, Absent \notin B, NEW r, NEW s, IsRef(r, B), IsRef(s, B), NEW c
    PROVE  Converted(c, r) = Converted(c, s)
             <=> r.kind = s.kind /\ r.op = s.op /\ RefInner(c, r) = RefInner(c, s)
<1>1. RefOp(r) \in Nat /\ RefOp(s) \in Nat
  BY RefOpIs
<1>4. /\ \E kind : Converted(c, r) = Plain(kind, RefOp(r), RefInner(c, r))
      /\ \E kind : Converted(c, s) = Plain(kind, RefOp(s), RefInner(c, s))
  BY RefOpIs
<1>2. CASE RefOp(r) = RefOp(s)
  <2>1. PICK n \in Nat : n = RefOp(r) /\ n = RefOp(s)
    BY <1>1, <1>2
  <2>2. r.kind = s.kind
    <3>1. /\ r.kind \in RefKinds
          /\ r.kind = "primitive" => RefOp(r) \in 115 .. 127
          /\ r.kind = "list" => RefOp(r) = 112
          /\ r.kind = "option" => RefOp(r) = 111
          /\ r.kind = "result" => RefOp(r) = 110
          /\ r.kind = "tuple" => RefOp(r) = 109
          /\ r.kind = "own" => RefOp(r) = 105
          /\ r.kind = "borrow" => RefOp(r) = 104
          /\ r.kind = "named" => RefOp(r) = 0
      BY RefOpIs
    <3>2. /\ s.kind \in RefKinds
          /\ s.kind = "primitive" => RefOp(s) \in 115 .. 127
          /\ s.kind = "list" => RefOp(s) = 112
          /\ s.kind = "option" => RefOp(s) = 111
          /\ s.kind = "result" => RefOp(s) = 110
          /\ s.kind = "tuple" => RefOp(s) = 109
          /\ s.kind = "own" => RefOp(s) = 105
          /\ s.kind = "borrow" => RefOp(s) = 104
          /\ s.kind = "named" => RefOp(s) = 0
      BY RefOpIs
    <3> QED BY ONLY <2>1, <3>1, <3>2 DEF RefKinds
  <2>3. r.op = s.op
    <3>1. /\ r.kind = "primitive" => RefOp(r) = r.op
          /\ r.kind # "primitive" => r.op = 0
      BY RefOpIs
    <3>2. /\ s.kind = "primitive" => RefOp(s) = s.op
          /\ s.kind # "primitive" => s.op = 0
      BY RefOpIs
    <3> QED BY ONLY <1>2, <2>2, <3>1, <3>2
  <2>4. RefInner(c, r) = RefInner(c, s) => Converted(c, r) = Converted(c, s)
    <3>1. r.kind \in RefKinds
      BY RefOpIs
    <3> QED BY <2>2, <2>3, <3>1, ConvertedIs DEF RefKinds, RefInner
  <2>5. Converted(c, r) = Converted(c, s) => RefInner(c, r) = RefInner(c, s)
    <3>1. PICK k : Converted(c, r) = Plain(k, RefOp(r), RefInner(c, r))
      BY <1>4
    <3>2. PICK l : Converted(c, s) = Plain(l, RefOp(s), RefInner(c, s))
      BY <1>4
    <3>3. Converted(c, r).inner = RefInner(c, r)
      BY ONLY <3>1 DEF Plain
    <3>4. Converted(c, s).inner = RefInner(c, s)
      BY ONLY <3>2 DEF Plain
    <3> QED BY ONLY <3>3, <3>4
  <2> QED BY <2>2, <2>3, <2>4, <2>5
<1>3. CASE RefOp(r) # RefOp(s)
  <2>1. Converted(c, r) # Converted(c, s)
    BY ONLY <1>3, <1>4, PlainSame
  <2>2. ~ (r.kind = s.kind /\ r.op = s.op)
    BY <1>3 DEF RefOp
  <2> QED BY <2>1, <2>2
<1> QED BY <1>2, <1>3

RefArgs(o, r) == IF r.kind \in {"own", "borrow", "named"} THEN <<>> ELSE OpenArgs(o, r)

LEMMA OpenedSame ==
    ASSUME NEW B, Absent \notin B, NEW r, NEW s, IsRef(r, B), IsRef(s, B), NEW o
    PROVE  Opened(o, r) = Opened(o, s)
             <=> r.kind = s.kind /\ r.op = s.op /\ RefArgs(o, r) = RefArgs(o, s)
<1>1. ASSUME NEW q, IsRef(q, B)
      PROVE  Opened(o, q) = [kind |-> q.kind, op |-> q.op, args |-> RefArgs(o, q)]
  <2>1. q.kind \in {"own", "borrow", "named"} => q.op = 0
    BY <1>1, RefParts
  <2> QED BY <2>1, OpenedIs DEF RefArgs
<1> QED BY <1>1, LeftSame

\* Two references become one type exactly when the same is left of them.
LEMMA RefSame ==
    ASSUME NEW B, Absent \notin B, NEW c, NEW o, \A x \in B : c[x] # Absent,
           \A x, y \in B : c[x] = c[y] <=> o[x] = o[y],
           NEW r, NEW s, IsRef(r, B), IsRef(s, B)
    PROVE  Converted(c, r) = Converted(c, s) <=> Opened(o, r) = Opened(o, s)
<1>1. Converted(c, r) = Converted(c, s)
        <=> r.kind = s.kind /\ r.op = s.op /\ RefInner(c, r) = RefInner(c, s)
  BY ConvertedSame
<1>2. Opened(o, r) = Opened(o, s)
        <=> r.kind = s.kind /\ r.op = s.op /\ RefArgs(o, r) = RefArgs(o, s)
  BY OpenedSame
<1>3. ASSUME r.kind = s.kind
      PROVE  RefInner(c, r) = RefInner(c, s) <=> RefArgs(o, r) = RefArgs(o, s)
  <2>1. r.kind \in RefKinds
    BY RefParts
  <2>2. CASE r.kind \in {"list", "option", "result", "tuple"}
    <3>1. InnerVals(c, r) = InnerVals(c, s) <=> OpenArgs(o, r) = OpenArgs(o, s)
      BY ArgsSame
    <3> QED BY <1>3, <2>2, <3>1 DEF RefInner, RefArgs
  <2>3. CASE r.kind = "primitive"
    <3>1. r.args = <<>> /\ s.args = <<>>
      BY <1>3, <2>3, RefParts
    <3>2. OpenArgs(o, r) = OpenArgs(o, s)
      BY <3>1 DEF OpenArgs
    <3> QED BY <1>3, <2>3, <3>2 DEF RefInner, RefArgs
  <2>4. CASE r.kind \in {"own", "borrow", "named"}
    BY <1>3, <2>4 DEF RefInner, RefArgs
  <2> QED BY <2>1, <2>2, <2>3, <2>4 DEF RefKinds
<1> QED BY <1>1, <1>2, <1>3

LEMMA RefsSame == \A r, s \in Ref : ValType[r] = ValType[s] <=> Unresolved[r] = Unresolved[s]
<1>1. PICK n \in Nat :
        /\ RefBefore(1) = {} /\ RefBefore(n + 1) = Ref
        /\ \A d \in 1 .. n : RefBefore(d + 1) = RefBefore(d) \union Refs[d]
        /\ \A d \in 1 .. n + 1 : /\ RefBefore(d) \subseteq Ref /\ Absent \notin RefBefore(d)
                                 /\ \A r \in RefBefore(d) : IsRef(r, RefBefore(d))
        /\ \A d \in 1 .. n : \A r \in Refs[d] : IsRef(r, RefBefore(d))
  BY RefLayers
<1>2. PICK c : c = ValType /\ \A r \in Ref : c[r] = Converted(c, r) /\ c[r] # Absent
  BY ValTypeIs, ConversionAssumption, ValAssumption
<1>3. PICK o : o = Unresolved /\ \A r \in Ref : o[r] = Opened(o, r)
  BY UnresolvedIs
<1> DEFINE P(k) == \A r, s \in RefBefore(k + 1) : c[r] = c[s] <=> o[r] = o[s]
           N == {k \in Nat : k <= n => P(k)}
<1>4. P(0)
  BY <1>1
<1>5. ASSUME NEW k \in Nat, k + 1 <= n, P(k) PROVE P(k + 1)
  <2>1. k + 1 \in 1 .. n /\ k + 1 \in 1 .. n + 1 /\ (k + 1) + 1 \in 1 .. n + 1
    BY <1>5
  <2>2. PICK B : B = RefBefore(k + 1)
    OBVIOUS
  <2>3. Absent \notin B /\ (\A x \in B : c[x] # Absent) /\ \A x, y \in B : c[x] = c[y] <=> o[x] = o[y]
    BY <1>1, <1>2, <1>5, <2>1, <2>2
  <2>4. ASSUME NEW r \in RefBefore((k + 1) + 1)
        PROVE  IsRef(r, B) /\ c[r] = Converted(c, r) /\ o[r] = Opened(o, r)
    <3>1. r \in Ref /\ IsRef(r, B)
      BY <1>1, <2>1, <2>2
    <3> QED BY <1>2, <1>3, <3>1
  <2>5. ASSUME NEW r \in RefBefore((k + 1) + 1), NEW s \in RefBefore((k + 1) + 1)
        PROVE  c[r] = c[s] <=> o[r] = o[s]
    <3>1. IsRef(r, B) /\ c[r] = Converted(c, r) /\ o[r] = Opened(o, r)
      BY <2>4
    <3>2. IsRef(s, B) /\ c[s] = Converted(c, s) /\ o[s] = Opened(o, s)
      BY <2>4
    <3>3. Converted(c, r) = Converted(c, s) <=> Opened(o, r) = Opened(o, s)
      BY ONLY <2>3, <3>1, <3>2, RefSame
    <3> QED BY <3>1, <3>2, <3>3
  <2> QED BY <2>5
<1>6. P(n)
  <2> HIDE DEF P
  <2>1. 0 \in N /\ \A k \in N : k + 1 \in N
    BY <1>4, <1>5
  <2>2. N = Nat
    BY <2>1, NatSetInduction
  <2>3. n \in N
    BY <2>2
  <2> QED BY <2>3
<1> QED BY <1>1, <1>2, <1>3, <1>6

PlainParts(kind, op, inner, L) ==
    /\ kind \in {"primitive", "wrapper", "result", "tuple", "handle", "ref"}
    /\ op \in 0 .. 127 /\ op \in Opcode[kind]
    /\ inner \in Seq(L \union {Absent}) /\ IsU32(Len(inner))
    /\ kind # "result" => inner \in Seq(L)
    /\ kind \in {"primitive", "handle", "ref"} => inner = <<>>
    /\ kind = "wrapper" => Len(inner) = 1
    /\ kind = "result" => Len(inner) = 2

LEMMA PlainIsVal ==
    ASSUME NEW L, NEW kind, NEW op, NEW inner, PlainParts(kind, op, inner, L)
    PROVE  IsValType(Plain(kind, op, inner), L) /\ LowRef(Plain(kind, op, inner))
<1>0. /\ kind \in {"primitive", "wrapper", "result", "tuple", "handle", "ref"}
      /\ op \in 0 .. 127 /\ op \in Opcode[kind]
      /\ inner \in Seq(L \union {Absent}) /\ IsU32(Len(inner))
      /\ kind # "result" => inner \in Seq(L)
      /\ kind \in {"primitive", "handle", "ref"} => inner = <<>>
      /\ kind = "wrapper" => Len(inner) = 1
      /\ kind = "result" => Len(inner) = 2
  BY DEF PlainParts
<1>1. PICK t : t = Plain(kind, op, inner)
  OBVIOUS
<1>2. t.kind = kind /\ t.op = op /\ t.index = 0 /\ t.names = <<>> /\ t.inner = inner
  BY <1>1 DEF Plain
<1>3. IsU32(0) /\ 0 \in Nat
  BY DEF IsU32
<1>4. <<>> \in Seq(NameLength) /\ Len(<<>>) = 0
  OBVIOUS
<1>5. t \in [kind : DOMAIN Opcode, op : 0 .. 127, index : Nat,
             names : Seq(NameLength), inner : Seq(L \union {Absent})]
  <2>1. kind \in DOMAIN Opcode
    BY <1>0 DEF Opcode
  <2> QED BY <1>0, <1>1, <1>3, <1>4, <2>1 DEF Plain
<1>6. IsU32(t.index) /\ IsU32(Len(t.names)) /\ IsU32(Len(t.inner))
  BY <1>0, <1>2, <1>3, <1>4
<1>7. LowRef(t)
  BY <1>2 DEF LowRef
<1>8. kind \notin {"record", "variant", "flags"}
  BY <1>0
<1>9. /\ t.op \in Opcode[t.kind]
      /\ t.kind \notin {"handle", "ref"} => t.index = 0
      /\ t.kind \notin {"record", "variant", "flags"} => t.names = <<>>
      /\ t.kind \in {"primitive", "flags", "handle", "ref"} => t.inner = <<>>
      /\ t.kind \notin {"result", "variant"} => t.inner \in Seq(L)
      /\ t.kind = "wrapper" => Len(t.inner) = 1
      /\ t.kind = "result" => Len(t.inner) = 2
      /\ t.kind \in {"record", "variant"} => Len(t.names) = Len(t.inner)
  BY <1>0, <1>2, <1>8
<1>10. IsValType(t, L)
  BY ONLY <1>5, <1>6, <1>9 DEF IsValType
<1> QED BY <1>1, <1>7, <1>10

\* The types that references become: none has an index that could be misread.
MadeVals == {ValType[r] : r \in Ref}

LEMMA RefIs == \A r \in Ref : IsRef(r, Ref)
<1>1. PICK n \in Nat : /\ RefBefore(n + 1) = Ref
                       /\ \A d \in 1 .. n + 1 : \A r \in RefBefore(d) : IsRef(r, RefBefore(d))
  BY RefLayers
<1>2. n + 1 \in 1 .. n + 1
  OBVIOUS
<1> QED BY <1>1, <1>2

LEMMA MadeLegible == Legible(MadeVals) /\ Absent \notin MadeVals
<1>1. MadeVals \in SUBSET Val
  BY ConversionAssumption DEF MadeVals
<1>2. Absent \notin MadeVals /\ Absent \notin Ref
  BY <1>1, ValAssumption, RefAssumption
<1>3. ASSUME NEW t \in MadeVals PROVE IsValType(t, MadeVals) /\ LowRef(t)
  <2>1. PICK r \in Ref : t = Converted(ValType, r)
    BY ValTypeIs DEF MadeVals
  <2>2. IsRef(r, Ref)
    BY RefIs
  <2>3. PICK c : c = ValType /\ \A x \in Ref : c[x] \in MadeVals
    BY DEF MadeVals
  <2>4. /\ r.kind \in RefKinds /\ r.args \in Seq(Ref \union {Absent}) /\ IsU32(Len(r.args))
        /\ r.kind = "primitive" => r.op \in 115 .. 127
        /\ r.kind # "result" => r.args \in Seq(Ref)
        /\ r.kind \in {"list", "option"} => Len(r.args) = 1
        /\ r.kind = "result" => Len(r.args) = 2
    BY <1>2, <2>2, RefParts
  <2>5. PICK a \in Seq(Ref \union {Absent}), n \in Nat : a = r.args /\ n = Len(a) /\ DOMAIN a = 1 .. n
    BY <2>4
  <2> DEFINE h == [k \in 1 .. n |-> IF a[k] = Absent THEN Absent ELSE c[a[k]]]
  <2>6. InnerVals(c, r) = h
    BY <2>5 DEF InnerVals
  <2>7. h \in Seq(MadeVals \union {Absent}) /\ Len(h) = n
    <3>1. h \in [1 .. n -> MadeVals \union {Absent}]
      <4>1. \A k \in 1 .. n : a[k] \in Ref \union {Absent}
        BY <2>5
      <4> QED BY <2>3, <4>1
    <3> HIDE DEF h
    <3> QED BY <3>1, CountedSeq
  <2>8. r.kind # "result" => h \in Seq(MadeVals)
    <3>1. ASSUME r.kind # "result" PROVE h \in Seq(MadeVals)
      <4>1. \A k \in 1 .. n : a[k] \in Ref
        BY <2>4, <2>5, <3>1
      <4>2. h \in [1 .. n -> MadeVals]
        BY <1>2, <2>3, <4>1
      <4> HIDE DEF h
      <4> QED BY <4>2, CountedSeq
    <3> QED BY <3>1
  <2> HIDE DEF h
  <2>9. IsU32(Len(h)) /\ (r.kind \in {"list", "option"} => Len(h) = 1) /\ (r.kind = "result" => Len(h) = 2)
    BY <2>4, <2>5, <2>7
  <2>10. /\ Opcode["primitive"] = 115 .. 127 /\ Opcode["wrapper"] = {111, 112}
         /\ Opcode["result"] = {110} /\ Opcode["tuple"] = {109} /\ Opcode["handle"] = {104, 105}
         /\ Opcode["ref"] = {0}
    BY DEF Opcode
  <2> DEFINE none == <<>>
  <2>11. none \in Seq(MadeVals \union {Absent}) /\ none \in Seq(MadeVals) /\ Len(none) = 0 /\ none = <<>>
    OBVIOUS
  <2>12. IsU32(0)
    BY DEF IsU32
  <2>13. /\ r.kind = "primitive" => t = Plain("primitive", r.op, none)
         /\ r.kind = "list" => t = Plain("wrapper", 112, h)
         /\ r.kind = "option" => t = Plain("wrapper", 111, h)
         /\ r.kind = "result" => t = Plain("result", 110, h)
         /\ r.kind = "tuple" => t = Plain("tuple", 109, h)
         /\ r.kind = "own" => t = Plain("handle", 105, none)
         /\ r.kind = "borrow" => t = Plain("handle", 104, none)
         /\ r.kind = "named" => t = Plain("ref", 0, none)
    BY <2>1, <2>3, <2>6, ConvertedIs
  <2> HIDE DEF none
  <2>14. CASE r.kind = "primitive"
    <3>1. PICK o \in 0 .. 127 : o = r.op /\ o \in Opcode["primitive"]
      BY <2>4, <2>10, <2>14
    <3>2. PlainParts("primitive", o, none, MadeVals)
      BY ONLY <2>11, <2>12, <3>1, o \in 0 .. 127 DEF PlainParts
    <3> QED BY <2>13, <2>14, <3>1, <3>2, PlainIsVal
  <2>15. CASE r.kind = "list"
    <3>1. PlainParts("wrapper", 112, h, MadeVals)
      BY ONLY <2>7, <2>8, <2>9, <2>10, <2>15 DEF PlainParts
    <3>2. t = Plain("wrapper", 112, h)
      BY ONLY <2>13, <2>15
    <3> QED BY ONLY <3>1, <3>2, PlainIsVal
  <2>16. CASE r.kind = "option"
    <3>1. PlainParts("wrapper", 111, h, MadeVals)
      BY ONLY <2>7, <2>8, <2>9, <2>10, <2>16 DEF PlainParts
    <3>2. t = Plain("wrapper", 111, h)
      BY ONLY <2>13, <2>16
    <3> QED BY ONLY <3>1, <3>2, PlainIsVal
  <2>17. CASE r.kind = "result"
    <3>1. PlainParts("result", 110, h, MadeVals)
      BY ONLY <2>7, <2>8, <2>9, <2>10, <2>17 DEF PlainParts
    <3>2. t = Plain("result", 110, h)
      BY ONLY <2>13, <2>17
    <3> QED BY ONLY <3>1, <3>2, PlainIsVal
  <2>18. CASE r.kind = "tuple"
    <3>1. PlainParts("tuple", 109, h, MadeVals)
      BY ONLY <2>7, <2>8, <2>9, <2>10, <2>18 DEF PlainParts
    <3>2. t = Plain("tuple", 109, h)
      BY ONLY <2>13, <2>18
    <3> QED BY ONLY <3>1, <3>2, PlainIsVal
  <2>19. CASE r.kind = "own"
    <3>1. PlainParts("handle", 105, none, MadeVals)
      BY ONLY <2>10, <2>11, <2>12, <2>19 DEF PlainParts
    <3>2. t = Plain("handle", 105, none)
      BY ONLY <2>13, <2>19
    <3> QED BY ONLY <3>1, <3>2, PlainIsVal
  <2>20. CASE r.kind = "borrow"
    <3>1. PlainParts("handle", 104, none, MadeVals)
      BY ONLY <2>10, <2>11, <2>12, <2>20 DEF PlainParts
    <3>2. t = Plain("handle", 104, none)
      BY ONLY <2>13, <2>20
    <3> QED BY ONLY <3>1, <3>2, PlainIsVal
  <2>21. CASE r.kind = "named"
    <3>1. PlainParts("ref", 0, none, MadeVals)
      BY ONLY <2>10, <2>11, <2>12, <2>21 DEF PlainParts
    <3>2. t = Plain("ref", 0, none)
      BY ONLY <2>13, <2>21
    <3> QED BY ONLY <3>1, <3>2, PlainIsVal
  <2> QED BY <2>4, <2>14, <2>15, <2>16, <2>17, <2>18, <2>19, <2>20, <2>21 DEF RefKinds
<1> QED BY <1>1, <1>2, <1>3 DEF Legible

-----------------------------------------------------------------------------
(***************************************************************************)
(* Worlds: the types of items.                                             *)
(***************************************************************************)

TypedResult(f) == IF f.result = Absent THEN Absent ELSE ValType[f.result]
TypedFunc(f) == [name |-> f.name, params |-> TypedParams(f), result |-> TypedResult(f)]
OpenParams(f) ==
    [k \in DOMAIN f.params |-> <<f.params[k].name, Unresolved[f.params[k].type]>>]
OpenResult(f) == IF f.result = Absent THEN <<>> ELSE <<Unresolved[f.result]>>

LEMMA ItemIs ==
    ASSUME NEW i
    PROVE  /\ i.func = Absent => /\ ItemType(i) = [kind |-> "instance", funcs |-> <<>>]
                                 /\ UnresolvedItem(i) = <<>>
           /\ i.func # Absent =>
                 /\ ItemType(i) = [kind |-> "func", funcs |-> <<TypedFunc(i.func)>>]
                 /\ UnresolvedItem(i) = <<i.name, OpenParams(i.func), OpenResult(i.func)>>
  BY DEF ItemType, UnresolvedItem, TypedFunc, TypedResult, OpenParams, OpenResult

LEMMA FuncParts ==
    ASSUME NEW f \in Functions(Ref)
    PROVE  /\ f.name \in NameLength /\ f.params \in Seq(Param(Ref)) /\ f.result \in Ref \union {Absent}
           /\ Len(f.params) \in Nat /\ DOMAIN f.params = 1 .. Len(f.params)
           /\ \A k \in DOMAIN f.params : f.params[k].name \in NameLength /\ f.params[k].type \in Ref
<1>1. f.name \in NameLength /\ f.params \in Seq(Param(Ref)) /\ f.result \in Ref \union {Absent}
  BY DEF Functions, Param
<1>2. PICK s \in Seq(Param(Ref)) : s = f.params
  BY <1>1
<1>3. Len(s) \in Nat /\ DOMAIN s = 1 .. Len(s) /\ \A k \in DOMAIN s : s[k] \in Param(Ref)
  OBVIOUS
<1>4. \A x \in Param(Ref) : x.name \in NameLength /\ x.type \in Ref
  BY DEF Param
<1> QED BY <1>1, <1>2, <1>3, <1>4

LEMMA TypedFuncType ==
    ASSUME NEW f \in Functions(Ref)
    PROVE  TypedFunc(f) \in Functions(MadeVals)
<1>1. /\ f.name \in NameLength /\ f.result \in Ref \union {Absent}
      /\ Len(f.params) \in Nat /\ DOMAIN f.params = 1 .. Len(f.params)
      /\ \A k \in DOMAIN f.params : f.params[k].name \in NameLength /\ f.params[k].type \in Ref
  BY FuncParts
<1>2. PICK c : c = ValType /\ \A r \in Ref : c[r] \in MadeVals
  BY DEF MadeVals
<1>3. PICK n \in Nat : n = Len(f.params)
  BY <1>1
<1>4. TypedParams(f) \in [1 .. n -> Param(MadeVals)]
  <2>1. \A k \in 1 .. n : [name |-> f.params[k].name, type |-> c[f.params[k].type]] \in Param(MadeVals)
    BY <1>1, <1>2, <1>3 DEF Param
  <2> QED BY <1>1, <1>2, <1>3, <2>1 DEF TypedParams
<1>5. TypedParams(f) \in Seq(Param(MadeVals))
  BY <1>4, CountedSeq
<1>6. TypedResult(f) \in MadeVals \union {Absent}
  BY <1>1, <1>2 DEF TypedResult
<1> QED BY <1>1, <1>5, <1>6 DEF TypedFunc, Functions, Param

LEMMA ItemTypeOver ==
    ASSUME NEW i, IsItem(i)
    PROVE  ItemType(i) \in TypesOver(MadeVals)
<1>1. ItemType(i) \in ComponentType
  BY ItemTypeIs
<1>2. CASE i.func = Absent
  <2>1. ItemType(i).funcs = <<>>
    BY <1>2, ItemIs
  <2>2. ItemType(i).funcs \in Seq(Functions(MadeVals))
    BY <2>1
  <2> QED BY <1>1, <2>2 DEF TypesOver
<1>3. CASE i.func # Absent
  <2>1. i.func \in Functions(Ref)
    BY <1>3 DEF IsItem
  <2>2. PICK g \in Functions(MadeVals) : g = TypedFunc(i.func)
    BY <2>1, TypedFuncType
  <2>3. ItemType(i).funcs = <<g>>
    BY <1>3, <2>2, ItemIs
  <2>4. ItemType(i).funcs \in Seq(Functions(MadeVals))
    BY <2>3
  <2> QED BY <1>1, <2>4 DEF TypesOver
<1> QED BY <1>2, <1>3

\* One type in the binary, one signature.
LEMMA ResultSame ==
    ASSUME NEW f \in Functions(Ref), NEW g \in Functions(Ref)
    PROVE  TypedResult(f) = TypedResult(g) <=> OpenResult(f) = OpenResult(g)
<1>1. PICK c, o : /\ c = ValType /\ o = Unresolved
                  /\ \A r \in Ref : c[r] # Absent
                  /\ \A r, s \in Ref : c[r] = c[s] <=> o[r] = o[s]
  BY RefsSame, ConversionAssumption, ValAssumption
<1>2. PICK a \in Ref \union {Absent}, b \in Ref \union {Absent} : a = f.result /\ b = g.result
  BY FuncParts
<1>3. (IF a = Absent THEN Absent ELSE c[a]) = (IF b = Absent THEN Absent ELSE c[b])
        <=> (IF a = Absent THEN <<>> ELSE <<o[a]>>) = (IF b = Absent THEN <<>> ELSE <<o[b]>>)
  BY <1>1, RefAssumption, ArgSame
<1> QED BY <1>1, <1>2, <1>3 DEF TypedResult, OpenResult

LEMMA ParamsSame ==
    ASSUME NEW f \in Functions(Ref), NEW g \in Functions(Ref)
    PROVE  TypedParams(f) = TypedParams(g) <=> OpenParams(f) = OpenParams(g)
<1>1. PICK c, o : /\ c = ValType /\ o = Unresolved
                  /\ \A r, s \in Ref : c[r] = c[s] <=> o[r] = o[s]
  BY RefsSame
<1>2. PICK p, q : /\ p = f.params /\ q = g.params
                  /\ \A k \in DOMAIN p : p[k].name \in NameLength /\ p[k].type \in Ref
                  /\ \A k \in DOMAIN q : q[k].name \in NameLength /\ q[k].type \in Ref
  BY FuncParts
<1> DEFINE tp(s) == [k \in DOMAIN s |-> [name |-> s[k].name, type |-> c[s[k].type]]]
           op(s) == [k \in DOMAIN s |-> <<s[k].name, o[s[k].type]>>]
<1>3. /\ TypedParams(f) = tp(p) /\ TypedParams(g) = tp(q)
      /\ OpenParams(f) = op(p) /\ OpenParams(g) = op(q)
  BY <1>1, <1>2 DEF TypedParams, OpenParams
<1>4. ASSUME DOMAIN p = DOMAIN q PROVE tp(p) = tp(q) <=> op(p) = op(q)
  <2>1. ASSUME NEW k \in DOMAIN p PROVE tp(p)[k] = tp(q)[k] <=> op(p)[k] = op(q)[k]
    <3>1. c[p[k].type] = c[q[k].type] <=> o[p[k].type] = o[q[k].type]
      BY <1>1, <1>2, <1>4
    <3>2. /\ tp(p)[k] = [name |-> p[k].name, type |-> c[p[k].type]]
          /\ op(p)[k] = <<p[k].name, o[p[k].type]>>
      OBVIOUS
    <3>3. /\ tp(q)[k] = [name |-> q[k].name, type |-> c[q[k].type]]
          /\ op(q)[k] = <<q[k].name, o[q[k].type]>>
      BY <1>4
    <3>4. [name |-> p[k].name, type |-> c[p[k].type]] = [name |-> q[k].name, type |-> c[q[k].type]]
            <=> p[k].name = q[k].name /\ c[p[k].type] = c[q[k].type]
      OBVIOUS
    <3>5. <<p[k].name, o[p[k].type]>> = <<q[k].name, o[q[k].type]>>
            <=> p[k].name = q[k].name /\ o[p[k].type] = o[q[k].type]
      OBVIOUS
    <3> QED BY ONLY <3>1, <3>2, <3>3, <3>4, <3>5
  <2>2. tp(p) = tp(q) <=> \A k \in DOMAIN p : tp(p)[k] = tp(q)[k]
    BY <1>4
  <2>3. op(p) = op(q) <=> \A k \in DOMAIN p : op(p)[k] = op(q)[k]
    BY <1>4
  <2> QED BY ONLY <2>1, <2>2, <2>3
<1>5. tp(p) = tp(q) => DOMAIN p = DOMAIN q
  <2>1. DOMAIN tp(p) = DOMAIN p /\ DOMAIN tp(q) = DOMAIN q
    OBVIOUS
  <2> QED BY ONLY <2>1
<1>6. op(p) = op(q) => DOMAIN p = DOMAIN q
  <2>1. DOMAIN op(p) = DOMAIN p /\ DOMAIN op(q) = DOMAIN q
    OBVIOUS
  <2> QED BY ONLY <2>1
<1> QED BY ONLY <1>3, <1>4, <1>5, <1>6

LEMMA FuncTypeSame ==
    ASSUME NEW f, NEW g
    PROVE  [kind |-> "func", funcs |-> <<f>>] = [kind |-> "func", funcs |-> <<g>>] <=> f = g
  OBVIOUS

LEMMA ItemSame ==
    ASSUME NEW i, NEW j, IsItem(i), IsItem(j)
    PROVE  ItemType(i) = ItemType(j) <=> UnresolvedItem(i) = UnresolvedItem(j)
<1>1. CASE i.func = Absent /\ j.func = Absent
  BY <1>1, ItemIs
<1>2. CASE i.func = Absent /\ j.func # Absent
  <2>1. ItemType(i).kind = "instance" /\ UnresolvedItem(i) = <<>>
    BY <1>2, ItemIs
  <2>2. /\ ItemType(j).kind = "func"
        /\ UnresolvedItem(j) = <<j.name, OpenParams(j.func), OpenResult(j.func)>>
    BY <1>2, ItemIs
  <2>3. UnresolvedItem(j) # <<>>
    BY ONLY <2>2
  <2> QED BY ONLY <2>1, <2>2, <2>3
<1>3. CASE i.func # Absent /\ j.func = Absent
  <2>1. ItemType(j).kind = "instance" /\ UnresolvedItem(j) = <<>>
    BY <1>3, ItemIs
  <2>2. /\ ItemType(i).kind = "func"
        /\ UnresolvedItem(i) = <<i.name, OpenParams(i.func), OpenResult(i.func)>>
    BY <1>3, ItemIs
  <2>3. UnresolvedItem(i) # <<>>
    BY ONLY <2>2
  <2> QED BY ONLY <2>1, <2>2, <2>3
<1>4. CASE i.func # Absent /\ j.func # Absent
  <2>1. PICK f \in Functions(Ref), g \in Functions(Ref) :
            f = i.func /\ g = j.func /\ f.name = i.name /\ g.name = j.name
    BY <1>4 DEF IsItem
  <2>2. /\ ItemType(i) = [kind |-> "func", funcs |-> <<TypedFunc(f)>>]
        /\ ItemType(j) = [kind |-> "func", funcs |-> <<TypedFunc(g)>>]
        /\ UnresolvedItem(i) = <<f.name, OpenParams(f), OpenResult(f)>>
        /\ UnresolvedItem(j) = <<g.name, OpenParams(g), OpenResult(g)>>
    BY <1>4, <2>1, ItemIs
  <2>3. TypedFunc(f) = TypedFunc(g)
          <=> f.name = g.name /\ TypedParams(f) = TypedParams(g) /\ TypedResult(f) = TypedResult(g)
    BY DEF TypedFunc
  <2>4. ItemType(i) = ItemType(j) <=> TypedFunc(f) = TypedFunc(g)
    BY ONLY <2>2, FuncTypeSame
  <2>5. UnresolvedItem(i) = UnresolvedItem(j)
          <=> f.name = g.name /\ OpenParams(f) = OpenParams(g) /\ OpenResult(f) = OpenResult(g)
    BY ONLY <2>2
  <2>6. /\ TypedParams(f) = TypedParams(g) <=> OpenParams(f) = OpenParams(g)
        /\ TypedResult(f) = TypedResult(g) <=> OpenResult(f) = OpenResult(g)
    BY ParamsSame, ResultSame
  <2> QED BY ONLY <2>3, <2>4, <2>5, <2>6
<1> QED BY <1>1, <1>2, <1>3, <1>4

\* The encodings of two items' types differ as the signatures do.
LEMMA ItemRead ==
    ASSUME NEW i, NEW j, IsItem(i), IsItem(j)
    PROVE  EncodeType(ItemType(i)) = EncodeType(ItemType(j)) <=> UnresolvedItem(i) = UnresolvedItem(j)
<1>1. PICK t \in TypesOver(MadeVals), u \in TypesOver(MadeVals) : t = ItemType(i) /\ u = ItemType(j)
  BY ItemTypeOver
<1>2. Reads(EncodeType(t), t, EncodeType(u), u)
  BY MadeLegible, TypeRead
<1> DEFINE c == <<>>
<1>3. c \in Seq(Nat)
  OBVIOUS
<1> HIDE DEF c
<1>4. EncodeType(t) = EncodeType(u) => t = u
  BY <1>2, <1>3 DEF Reads
<1>5. t = u <=> UnresolvedItem(i) = UnresolvedItem(j)
  BY <1>1, ItemSame
<1> QED BY <1>1, <1>4, <1>5

-----------------------------------------------------------------------------
(***************************************************************************)
(* Worlds: where the type, the import and the export of an item are.       *)
(***************************************************************************)

\* How many of the first k items are imports, or are not.
Count(items, k, way) == Cardinality({j \in 1 .. k : items[j].import = way})

LEMMA CountNext ==
    ASSUME NEW items, NEW way, NEW k \in Nat
    PROVE  /\ Count(items, k, way) \in Nat
           /\ Count(items, 0, way) = 0
           /\ items[k + 1].import = way => Count(items, k + 1, way) = Count(items, k, way) + 1
           /\ items[k + 1].import # way => Count(items, k + 1, way) = Count(items, k, way)
<1> DEFINE S == {j \in 1 .. k : items[j].import = way}
           T == {j \in 1 .. k + 1 : items[j].import = way}
<1>1. IsFiniteSet(S) /\ Cardinality(S) \in Nat
  <2>1. IsFiniteSet(1 .. k)
    BY FS_Interval
  <2>2. S \subseteq 1 .. k
    OBVIOUS
  <2>3. IsFiniteSet(S)
    BY ONLY <2>1, <2>2, FS_Subset
  <2> QED BY ONLY <2>3, FS_CardinalityType
<1>2. k + 1 \notin S
  OBVIOUS
<1>3. items[k + 1].import = way => T = S \union {k + 1}
  OBVIOUS
<1>4. items[k + 1].import # way => T = S
  OBVIOUS
<1>5. Count(items, 0, way) = 0
  <2>1. {j \in 1 .. 0 : items[j].import = way} = {}
    OBVIOUS
  <2> QED BY <2>1, FS_EmptySet DEF Count
<1>6. Count(items, k, way) = Cardinality(S) /\ Count(items, k + 1, way) = Cardinality(T)
  BY DEF Count
<1> HIDE DEF S, T
<1>7. Cardinality(S \union {k + 1}) = Cardinality(S) + 1
  BY ONLY <1>1, <1>2, FS_AddElement
<1> QED BY ONLY <1>1, <1>3, <1>4, <1>5, <1>6, <1>7

Longer(s, t) == Len(s) <= Len(t) /\ \A k \in 1 .. Len(s) : t[k] = s[k]

LEMMA AppendLonger ==
    ASSUME NEW S, NEW s \in Seq(S), NEW x \in S
    PROVE  /\ Append(s, x) \in Seq(S) /\ Len(Append(s, x)) = Len(s) + 1
           /\ Append(s, x)[Len(s) + 1] = x /\ Longer(s, Append(s, x))
  BY DEF Longer

LEMMA SameLonger == ASSUME NEW S, NEW s \in Seq(S) PROVE Longer(s, s)
  BY DEF Longer

\* A builder that has everything another has, in the same places.
Extends(b, c) == Longer(b.types, c.types) /\ Longer(b.imports, c.imports) /\ Longer(b.exports, c.exports)

\* The builder has the type of the item k of a list, and gives its index where the item's
\* import or export is.
HasItem(b, items, k) ==
    /\ k \in 1 .. Len(b.types) /\ b.types[k] = ItemType(items[k])
    /\ items[k].import = TRUE =>
          /\ Count(items, k, TRUE) \in 1 .. Len(b.imports)
          /\ b.imports[Count(items, k, TRUE)].type = k - 1
    /\ items[k].import = FALSE =>
          /\ Count(items, k, FALSE) \in 1 .. Len(b.exports)
          /\ b.exports[Count(items, k, FALSE)].index = k - 1

LEMMA HasItemStill ==
    ASSUME NEW b \in BuilderType, NEW c \in BuilderType, Extends(b, c), NEW items, NEW k, HasItem(b, items, k)
    PROVE  HasItem(c, items, k)
<1>1. PICK n \in Nat, m \in Nat, l \in Nat :
        n = Len(b.types) /\ m = Len(b.imports) /\ l = Len(b.exports)
  BY DEF BuilderType
<1>2. PICK n2 \in Nat, m2 \in Nat, l2 \in Nat :
        n2 = Len(c.types) /\ m2 = Len(c.imports) /\ l2 = Len(c.exports)
  BY DEF BuilderType
<1>3. /\ n <= n2 /\ \A j \in 1 .. n : c.types[j] = b.types[j]
      /\ m <= m2 /\ \A j \in 1 .. m : c.imports[j] = b.imports[j]
      /\ l <= l2 /\ \A j \in 1 .. l : c.exports[j] = b.exports[j]
  BY <1>1, <1>2 DEF Extends, Longer
<1>4. k \in 1 .. n2 /\ c.types[k] = ItemType(items[k])
  BY <1>1, <1>3 DEF HasItem
<1>5. ASSUME items[k].import = TRUE
      PROVE  Count(items, k, TRUE) \in 1 .. m2 /\ c.imports[Count(items, k, TRUE)].type = k - 1
  <2>1. PICK p \in 1 .. m : p = Count(items, k, TRUE) /\ b.imports[p].type = k - 1
    BY <1>1, <1>5 DEF HasItem
  <2>2. c.imports[p] = b.imports[p] /\ p \in 1 .. m2
    BY <1>3
  <2> QED BY ONLY <2>1, <2>2
<1>6. ASSUME items[k].import = FALSE
      PROVE  Count(items, k, FALSE) \in 1 .. l2 /\ c.exports[Count(items, k, FALSE)].index = k - 1
  <2>1. PICK p \in 1 .. l : p = Count(items, k, FALSE) /\ b.exports[p].index = k - 1
    BY <1>1, <1>6 DEF HasItem
  <2>2. c.exports[p] = b.exports[p] /\ p \in 1 .. l2
    BY <1>3
  <2> QED BY ONLY <2>1, <2>2
<1> QED BY <1>2, <1>4, <1>5, <1>6 DEF HasItem

\* What an item brings a builder.
Grown(b, i, c) ==
    /\ c \in BuilderType /\ Extends(b, c)
    /\ Len(c.types) = Len(b.types) + 1 /\ c.types[Len(b.types) + 1] = ItemType(i)
    /\ i.import = TRUE => /\ Len(c.imports) = Len(b.imports) + 1 /\ Len(c.exports) = Len(b.exports)
                          /\ c.imports[Len(b.imports) + 1].type = Len(b.types)
    /\ i.import = FALSE => /\ Len(c.exports) = Len(b.exports) + 1 /\ Len(c.imports) = Len(b.imports)
                           /\ c.exports[Len(b.exports) + 1].index = Len(b.types)

LEMMA AddItemGrows ==
    ASSUME NEW b \in BuilderType, NEW i, IsItem(i), NEW c, c = AddItem(b, i)
    PROVE  Grown(b, i, c)
<1>1. c \in BuilderType
  BY AddItemType
<1>2. PICK t \in ComponentType : t = ItemType(i)
  BY ItemTypeIs
<1>3. /\ b.types \in Seq(ComponentType) /\ b.imports \in Seq(ImportEntry) /\ b.exports \in Seq(ExportEntry)
      /\ b = [types |-> b.types, imports |-> b.imports, exports |-> b.exports, core |-> b.core]
  BY DEF BuilderType
<1>4. PICK n \in Nat : n = Len(b.types)
  BY <1>3
<1>5. i.name \in NameLength /\ i.import \in BOOLEAN
  BY DEF IsItem
<1> DEFINE kind == IF i.func = Absent THEN "instance" ELSE "func"
           x == [name |-> i.name, type |-> n]
           y == [name |-> i.name, index |-> n, kind |-> kind]
<1>6. kind \in DOMAIN ExportCode
  BY DEF ExportCode
<1> HIDE DEF kind
<1>7. x \in ImportEntry /\ x.type = n /\ y \in ExportEntry /\ y.index = n
  BY <1>5, <1>6 DEF ImportEntry, ExportEntry
<1>8. CASE i.import = TRUE
  <2>1. c = [[b EXCEPT !.types = Append(b.types, t)] EXCEPT !.imports = Append(b.imports, x)]
    BY <1>2, <1>3, <1>4, <1>8 DEF AddItem
  <2>2. c.types = Append(b.types, t) /\ c.imports = Append(b.imports, x) /\ c.exports = b.exports
    BY <1>3, <2>1
  <2> HIDE DEF x, y
  <2>3. /\ Len(c.types) = Len(b.types) + 1 /\ c.types[Len(b.types) + 1] = t /\ Longer(b.types, c.types)
    BY ONLY <1>3, <2>2, t \in ComponentType, AppendLonger
  <2>4. /\ Len(c.imports) = Len(b.imports) + 1 /\ c.imports[Len(b.imports) + 1] = x
        /\ Longer(b.imports, c.imports)
    BY ONLY <1>3, <1>7, <2>2, AppendLonger
  <2>5. Longer(b.exports, c.exports)
    BY ONLY <1>3, <2>2, SameLonger
  <2> QED BY ONLY <1>1, <1>2, <1>4, <1>7, <1>8, <2>2, <2>3, <2>4, <2>5 DEF Extends, Grown
<1>9. CASE i.import = FALSE
  <2>1. c = [[b EXCEPT !.types = Append(b.types, t)] EXCEPT !.exports = Append(b.exports, y)]
    BY <1>2, <1>3, <1>4, <1>9 DEF AddItem, kind
  <2>2. c.types = Append(b.types, t) /\ c.exports = Append(b.exports, y) /\ c.imports = b.imports
    BY <1>3, <2>1
  <2> HIDE DEF x, y
  <2>3. /\ Len(c.types) = Len(b.types) + 1 /\ c.types[Len(b.types) + 1] = t /\ Longer(b.types, c.types)
    BY ONLY <1>3, <2>2, t \in ComponentType, AppendLonger
  <2>4. /\ Len(c.exports) = Len(b.exports) + 1 /\ c.exports[Len(b.exports) + 1] = y
        /\ Longer(b.exports, c.exports)
    BY ONLY <1>3, <1>7, <2>2, AppendLonger
  <2>5. Longer(b.imports, c.imports)
    BY ONLY <1>3, <2>2, SameLonger
  <2> QED BY ONLY <1>1, <1>2, <1>4, <1>7, <1>9, <2>2, <2>3, <2>4, <2>5 DEF Extends, Grown
<1> QED BY <1>5, <1>8, <1>9

\* The builder b has just been given the first k items of a list.
GivenUpto(b, items, k) ==
    /\ b \in BuilderType
    /\ Len(b.types) = k /\ Len(b.imports) = Count(items, k, TRUE) /\ Len(b.exports) = Count(items, k, FALSE)
    /\ \A j \in 1 .. k : HasItem(b, items, j)

LEMMA GivenNext ==
    ASSUME NEW items, NEW k \in Nat, IsItem(items[k + 1]), NEW b, GivenUpto(b, items, k)
    PROVE  GivenUpto(AddItem(b, items[k + 1]), items, k + 1)
<1>1. PICK i, c : i = items[k + 1] /\ c = AddItem(b, i)
  OBVIOUS
<1>2. /\ b \in BuilderType /\ IsItem(i) /\ i.import \in BOOLEAN
      /\ Len(b.types) = k /\ Len(b.imports) = Count(items, k, TRUE) /\ Len(b.exports) = Count(items, k, FALSE)
  BY <1>1 DEF GivenUpto, IsItem
<1>3. PICK m \in Nat, l \in Nat : m = Count(items, k, TRUE) /\ l = Count(items, k, FALSE)
  BY CountNext
<1>4. /\ c \in BuilderType /\ Extends(b, c)
      /\ Len(c.types) = k + 1 /\ c.types[k + 1] = ItemType(i)
      /\ i.import = TRUE => Len(c.imports) = m + 1 /\ Len(c.exports) = l /\ c.imports[m + 1].type = k
      /\ i.import = FALSE => Len(c.exports) = l + 1 /\ Len(c.imports) = m /\ c.exports[l + 1].index = k
  <2>1. b \in BuilderType /\ IsItem(i) /\ c = AddItem(b, i)
    BY <1>1, <1>2
  <2>2. /\ c \in BuilderType /\ Extends(b, c)
        /\ Len(c.types) = Len(b.types) + 1 /\ c.types[Len(b.types) + 1] = ItemType(i)
        /\ i.import = TRUE => /\ Len(c.imports) = Len(b.imports) + 1 /\ Len(c.exports) = Len(b.exports)
                              /\ c.imports[Len(b.imports) + 1].type = Len(b.types)
        /\ i.import = FALSE => /\ Len(c.exports) = Len(b.exports) + 1 /\ Len(c.imports) = Len(b.imports)
                               /\ c.exports[Len(b.exports) + 1].index = Len(b.types)
    <3>1. Grown(b, i, c)
      BY ONLY <2>1, AddItemGrows
    <3> QED BY ONLY <3>1 DEF Grown
  <2>3. Len(b.types) = k /\ Len(b.imports) = m /\ Len(b.exports) = l
    BY <1>2, <1>3
  <2> QED BY ONLY <2>2, <2>3
<1>5. /\ i.import = TRUE => Count(items, k + 1, TRUE) = m + 1 /\ Count(items, k + 1, FALSE) = l
      /\ i.import = FALSE => Count(items, k + 1, FALSE) = l + 1 /\ Count(items, k + 1, TRUE) = m
  <2>1. /\ items[k + 1].import = TRUE => Count(items, k + 1, TRUE) = m + 1
        /\ items[k + 1].import # TRUE => Count(items, k + 1, TRUE) = m
    BY <1>3, CountNext
  <2>2. /\ items[k + 1].import = FALSE => Count(items, k + 1, FALSE) = l + 1
        /\ items[k + 1].import # FALSE => Count(items, k + 1, FALSE) = l
    BY <1>3, CountNext
  <2> QED BY ONLY <1>1, <2>1, <2>2
<1>6. HasItem(c, items, k + 1)
  <2>1. k + 1 \in 1 .. Len(c.types) /\ c.types[k + 1] = ItemType(items[k + 1]) /\ (k + 1) - 1 = k
    BY <1>1, <1>4
  <2>2. ASSUME i.import = TRUE
        PROVE  /\ Count(items, k + 1, TRUE) \in 1 .. Len(c.imports)
               /\ c.imports[Count(items, k + 1, TRUE)].type = k
    <3>1. m + 1 \in 1 .. m + 1
      OBVIOUS
    <3> QED BY ONLY <1>4, <1>5, <2>2, <3>1
  <2>3. ASSUME i.import = FALSE
        PROVE  /\ Count(items, k + 1, FALSE) \in 1 .. Len(c.exports)
               /\ c.exports[Count(items, k + 1, FALSE)].index = k
    <3>1. l + 1 \in 1 .. l + 1
      OBVIOUS
    <3> QED BY ONLY <1>4, <1>5, <2>3, <3>1
  <2> QED BY ONLY <1>1, <2>1, <2>2, <2>3 DEF HasItem
<1>7. ASSUME NEW j \in 1 .. k + 1 PROVE HasItem(c, items, j)
  <2>1. CASE j \in 1 .. k
    <3>1. HasItem(b, items, j)
      BY <2>1 DEF GivenUpto
    <3> QED BY <1>2, <1>4, <3>1, HasItemStill
  <2>2. CASE j = k + 1
    BY <1>6, <2>2
  <2> QED BY <2>1, <2>2
<1>8. Len(c.imports) = Count(items, k + 1, TRUE) /\ Len(c.exports) = Count(items, k + 1, FALSE)
  BY <1>2, <1>4, <1>5
<1> QED BY <1>1, <1>4, <1>7, <1>8 DEF GivenUpto

LEMMA WithItemsHas ==
    ASSUME NEW items \in World, NEW core \in Nat \union {Absent}
    PROVE  \A k \in DOMAIN items : HasItem(WithItems(items, core), items, k)
<1>1. PICK n \in Nat : n = Len(items) /\ DOMAIN items = 1 .. n
  BY WorldAssumption
<1>2. \A k \in 1 .. n : IsItem(items[k])
  BY <1>1, WorldAssumption
<1>3. PICK f : AddedOneByOne(items, core, n, f) /\ WithItems(items, core) = f[n]
  BY <1>1, WithItemsIs
<1>4. /\ f[0] = [NewBuilder EXCEPT !.core = core]
      /\ \A k \in 1 .. n : f[k] = AddItem(f[k - 1], items[k])
  BY <1>3 DEF AddedOneByOne
<1> DEFINE P(k) == GivenUpto(f[k], items, k)
           N == {k \in Nat : k <= n => P(k)}
<1>5. P(0)
  <2>1. f[0] \in BuilderType
    BY <1>4, NewBuilderType DEF BuilderType
  <2>2. Len(f[0].types) = 0 /\ Len(f[0].imports) = 0 /\ Len(f[0].exports) = 0
    BY <1>4 DEF NewBuilder
  <2>3. Count(items, 0, TRUE) = 0 /\ Count(items, 0, FALSE) = 0
    BY CountNext
  <2>4. 1 .. 0 = {}
    OBVIOUS
  <2> QED BY <2>1, <2>2, <2>3, <2>4 DEF GivenUpto
<1>6. ASSUME NEW k \in Nat, k + 1 <= n, P(k) PROVE P(k + 1)
  <2>1. k + 1 \in 1 .. n /\ (k + 1) - 1 = k
    BY <1>6
  <2>2. f[k + 1] = AddItem(f[k], items[k + 1]) /\ IsItem(items[k + 1])
    BY <1>2, <1>4, <2>1
  <2> QED BY <1>6, <2>2, GivenNext
<1>7. P(n)
  <2> HIDE DEF P
  <2>1. 0 \in N /\ \A k \in N : k + 1 \in N
    BY <1>5, <1>6
  <2>2. N = Nat
    BY <2>1, NatSetInduction
  <2>3. n \in N
    BY <2>2
  <2> QED BY <2>3
<1> QED BY <1>1, <1>3, <1>7 DEF GivenUpto

-----------------------------------------------------------------------------
(***************************************************************************)
(* Worlds: the invariant.                                                  *)
(***************************************************************************)

\* Whatever was added since, the builder has the items it was made from.
WorldInv == /\ world = <<>> \/ world \in World
            /\ \A k \in DOMAIN world : HasItem(builder, world, k)

LEMMA WorldStays ==
    ASSUME WorldInv, builder \in BuilderType, builder' \in BuilderType, Extends(builder, builder'),
           world' = world
    PROVE  WorldInv'
<1>1. PICK b \in BuilderType, c \in BuilderType : b = builder /\ c = builder'
  OBVIOUS
<1>2. PICK w : w = world /\ w = world'
  OBVIOUS
<1>3. (w = <<>> \/ w \in World) /\ \A k \in DOMAIN w : HasItem(b, w, k)
  BY <1>1, <1>2 DEF WorldInv
<1>4. Extends(b, c)
  BY <1>1
<1>5. \A k \in DOMAIN w : HasItem(c, w, k)
  BY <1>3, <1>4, HasItemStill
<1> QED BY <1>1, <1>3, <1>5, <1>2 DEF WorldInv

LEMMA SameExtends == ASSUME NEW b \in BuilderType PROVE Extends(b, b)
<1>1. /\ b.types \in Seq(ComponentType) /\ b.imports \in Seq(ImportEntry) /\ b.exports \in Seq(ExportEntry)
  BY DEF BuilderType
<1> QED BY <1>1, SameLonger DEF Extends

LEMMA WorldMade ==
    ASSUME NEW items \in World, NEW core \in Nat \union {Absent}, FromItems(items, core)
    PROVE  WorldInv'
<1>1. builder' = WithItems(items, core) /\ world' = items
  BY DEF FromItems
<1>2. \A k \in DOMAIN items : HasItem(WithItems(items, core), items, k)
  BY WithItemsHas
<1> QED BY <1>1, <1>2 DEF WorldInv

LEMMA WorldInvNext == BinaryInv /\ WorldInv /\ [BinaryNext]_binaryVars => WorldInv'
<1> SUFFICES ASSUME BinaryInv, WorldInv, [BinaryNext]_binaryVars PROVE WorldInv'
  OBVIOUS
<1>1. builder \in BuilderType /\ builder' \in BuilderType
  BY BinaryInvNext DEF BinaryInv
<1>2. /\ builder.types \in Seq(ComponentType) /\ builder.imports \in Seq(ImportEntry)
      /\ builder.exports \in Seq(ExportEntry)
      /\ builder = [types |-> builder.types, imports |-> builder.imports, exports |-> builder.exports,
                    core |-> builder.core]
  BY <1>1 DEF BuilderType
<1>3. /\ Longer(builder.types, builder.types) /\ Longer(builder.imports, builder.imports)
      /\ Longer(builder.exports, builder.exports)
  BY <1>1, SameExtends DEF Extends
<1>4. ASSUME NEW n \in ModuleSize, SetCoreModule(n) PROVE WorldInv'
  <2>1. builder' = [builder EXCEPT !.core = n] /\ world' = world
    BY <1>4 DEF SetCoreModule
  <2>2. builder'.types = builder.types /\ builder'.imports = builder.imports /\ builder'.exports = builder.exports
    BY ONLY <1>2, <2>1
  <2>3. Extends(builder, builder')
    BY ONLY <1>3, <2>2 DEF Extends
  <2> QED BY <1>1, <2>1, <2>3, WorldStays
<1>5. ASSUME NEW t \in Type, AddType(t) PROVE WorldInv'
  <2>1. builder' = [builder EXCEPT !.types = Append(builder.types, t)] /\ world' = world
    BY <1>5 DEF AddType
  <2>2. /\ builder'.types = Append(builder.types, t)
        /\ builder'.imports = builder.imports /\ builder'.exports = builder.exports
    BY ONLY <1>2, <2>1
  <2>3. t \in ComponentType
    BY TypeAssumption DEF IsType, ComponentType
  <2>4. Longer(builder.types, Append(builder.types, t))
    BY ONLY <1>2, <2>3, AppendLonger
  <2>5. Extends(builder, builder')
    BY ONLY <1>3, <2>2, <2>4 DEF Extends
  <2> QED BY <1>1, <2>1, <2>5, WorldStays
<1>6. ASSUME NEW name \in NameLength, NEW index \in 0 .. MaxItems - 1, AddImport(name, index)
      PROVE  WorldInv'
  <2>1. PICK e \in ImportEntry : e = [name |-> name, type |-> index]
    <3>1. index \in Nat
      BY NumberAssumption DEF IsU32
    <3> QED BY <3>1 DEF ImportEntry
  <2>2. builder' = [builder EXCEPT !.imports = Append(builder.imports, e)] /\ world' = world
    BY <1>6, <2>1 DEF AddImport
  <2>3. /\ builder'.imports = Append(builder.imports, e)
        /\ builder'.types = builder.types /\ builder'.exports = builder.exports
    BY ONLY <1>2, <2>2
  <2>4. Longer(builder.imports, Append(builder.imports, e))
    BY ONLY <1>2, e \in ImportEntry, AppendLonger
  <2>5. Extends(builder, builder')
    BY ONLY <1>3, <2>3, <2>4 DEF Extends
  <2> QED BY <1>1, <2>2, <2>5, WorldStays
<1>7. ASSUME NEW name \in NameLength, NEW index \in 0 .. MaxItems - 1,
             NEW kind \in DOMAIN ExportCode, AddExport(name, kind, index)
      PROVE  WorldInv'
  <2>1. PICK e \in ExportEntry : e = [name |-> name, kind |-> kind, index |-> index]
    <3>1. index \in Nat
      BY NumberAssumption DEF IsU32
    <3> QED BY <3>1 DEF ExportEntry
  <2>2. builder' = [builder EXCEPT !.exports = Append(builder.exports, e)] /\ world' = world
    BY <1>7, <2>1 DEF AddExport
  <2>3. /\ builder'.exports = Append(builder.exports, e)
        /\ builder'.types = builder.types /\ builder'.imports = builder.imports
    BY ONLY <1>2, <2>2
  <2>4. Longer(builder.exports, Append(builder.exports, e))
    BY ONLY <1>2, e \in ExportEntry, AppendLonger
  <2>5. Extends(builder, builder')
    BY ONLY <1>3, <2>3, <2>4 DEF Extends
  <2> QED BY <1>1, <2>2, <2>5, WorldStays
<1>8. ASSUME NEW items \in World, FromWorld(items) PROVE WorldInv'
  BY <1>8, WorldMade DEF FromWorld
<1>9. ASSUME NEW items \in World, NEW core \in ModuleSize, Adapt(items, core) PROVE WorldInv'
  <2>1. FromItems(items, core) /\ core \in Nat
    BY <1>9, NumberAssumption DEF Adapt
  <2> QED BY <2>1, WorldMade
<1>10. ASSUME builder' = builder, world' = world PROVE WorldInv'
  <2>1. Extends(builder, builder')
    BY <1>1, <1>10, SameExtends
  <2> QED BY <1>1, <1>10, <2>1, WorldStays
<1>11. ASSUME Build PROVE WorldInv'
  BY <1>10, <1>11 DEF Build
<1>12. ASSUME NEW n \in CutAt \union {Len(bytes)}, Read(n) PROVE WorldInv'
  BY <1>10, <1>12 DEF Read
<1>13. ASSUME Section PROVE WorldInv'
  BY <1>10, <1>13 DEF Section
<1>14. ASSUME Report PROVE WorldInv'
  BY <1>10, <1>14 DEF Report
<1>15. CASE UNCHANGED binaryVars
  BY <1>10, <1>15 DEF binaryVars
<1>16. CASE BinaryNext
  BY <1>4, <1>5, <1>6, <1>7, <1>8, <1>9, <1>11, <1>12, <1>13, <1>14, <1>16 DEF BinaryNext
<1> QED BY <1>15, <1>16

\* The index an import or export gives is that of its item's own type.
LEMMA IndexFound ==
    ASSUME WorldInv, NEW k \in DOMAIN world
    PROVE  IsItem(world[k]) /\ builder.types[IndexOf(k) + 1] = ItemType(world[k])
<1>1. world \in World
  <2> SUFFICES ASSUME world = <<>> PROVE FALSE
    BY DEF WorldInv
  <2> QED OBVIOUS
<1>2. IsItem(world[k])
  BY <1>1, WorldAssumption
<1>3. world[k].import \in BOOLEAN
  BY <1>2 DEF IsItem
<1>4. /\ k \in 1 .. Len(builder.types) /\ builder.types[k] = ItemType(world[k])
      /\ world[k].import = TRUE => builder.imports[Count(world, k, TRUE)].type = k - 1
      /\ world[k].import = FALSE => builder.exports[Count(world, k, FALSE)].index = k - 1
  BY DEF WorldInv, HasItem
<1>5. k \in Nat
  BY <1>4
<1>6. IndexOf(k) = k - 1
  <2>1. CASE world[k].import = TRUE
    <3>1. IndexOf(k) = builder.imports[Count(world, k, TRUE)].type
      BY <2>1 DEF IndexOf, Count
    <3> QED BY ONLY <1>4, <2>1, <3>1
  <2>2. CASE world[k].import = FALSE
    <3>1. IndexOf(k) = builder.exports[Count(world, k, FALSE)].index
      BY <2>2 DEF IndexOf, Count
    <3> QED BY ONLY <1>4, <2>2, <3>1
  <2> QED BY <1>3, <2>1, <2>2
<1>7. (k - 1) + 1 = k
  BY <1>5
<1> QED BY <1>2, <1>4, <1>6, <1>7

\* Of worlds of every length, with functions of every signature: the type index of an import or
\* export leads to bytes that say what its WIT signature says, up to the resources and names it
\* leaves open, and nothing less.  References become types whose indices are all 0, so no
\* condition on them is needed.
THEOREM WorldReadableAlways == BinarySpec => []WorldReadable
<1>1. BinaryInit => BinaryInv /\ WorldInv
  <2> SUFFICES ASSUME BinaryInit PROVE BinaryInv /\ WorldInv
    OBVIOUS
  <2>1. BinaryInv
    BY NewBuilderType DEF BinaryInit, BinaryInv
  <2>2. world = <<>>
    BY DEF BinaryInit
  <2> QED BY <2>1, <2>2 DEF WorldInv
<1>2. WorldInv => WorldReadable
  <2> SUFFICES ASSUME WorldInv, NEW k \in DOMAIN world, NEW j \in 1 .. k - 1
               PROVE  EncodeType(builder.types[IndexOf(j) + 1]) = EncodeType(builder.types[IndexOf(k) + 1])
                        <=> UnresolvedItem(world[j]) = UnresolvedItem(world[k])
    BY DEF WorldReadable
  <2>1. j \in DOMAIN world
    <3>1. world \in World
      <4> SUFFICES ASSUME world = <<>> PROVE FALSE
        BY DEF WorldInv
      <4> QED OBVIOUS
    <3>2. PICK n \in Nat : DOMAIN world = 1 .. n
      BY <3>1, WorldAssumption
    <3> QED BY <3>2
  <2>2. IsItem(world[k]) /\ builder.types[IndexOf(k) + 1] = ItemType(world[k])
    BY IndexFound
  <2>3. IsItem(world[j]) /\ builder.types[IndexOf(j) + 1] = ItemType(world[j])
    BY <2>1, IndexFound
  <2>4. EncodeType(ItemType(world[j])) = EncodeType(ItemType(world[k]))
          <=> UnresolvedItem(world[j]) = UnresolvedItem(world[k])
    BY ONLY <2>2, <2>3, ItemRead
  <2> QED BY ONLY <2>2, <2>3, <2>4
<1>3. BinaryInv /\ WorldInv /\ [BinaryNext]_binaryVars => BinaryInv' /\ WorldInv'
  BY BinaryInvNext, WorldInvNext
<1>4. BinarySpec => [](BinaryInv /\ WorldInv)
  BY <1>1, <1>3, PTL DEF BinarySpec
<1>5. BinaryInv /\ WorldInv => WorldReadable
  BY <1>2
<1> QED BY <1>4, <1>5, PTL
=============================================================================
