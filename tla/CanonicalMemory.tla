-------------------------- MODULE CanonicalMemory ---------------------------
(***************************************************************************)
(* LinearMemory and the canonical ABI functions over it, of                *)
(* src/component.rs: a bump allocator, lowering of strings, byte lists and *)
(* lists of words into memory, lifting them back, and cabi_realloc.        *)
(*                                                                         *)
(* alloc never looks at the memory's size; a write that does not fit is    *)
(* dropped and a read that does not fit is empty.  What was lowered is     *)
(* kept in a ghost, so that lifting can be compared with it.               *)
(***************************************************************************)
EXTENDS Integers, Sequences

CONSTANTS
    Byte,            \* the bytes of strings and byte lists, numbers below 256
    Word,            \* the elements of word lists, numbers below 2^32
    Align,           \* the alignments asked for, powers of two
    Capacity,        \* the memory's size: pages of 65536 bytes in the code
    Limit,           \* one more than the largest address, 2^32 in the code:
                     \* a power of two no alignment exceeds
    OverflowChecks,  \* whether address arithmetic panics or wraps on overflow
    None,            \* Option::None
    MaxLength,       \* bound: elements of a value lowered
    MaxRegions       \* bound: allocations made

ASSUME MemoryAssumption ==
    /\ Capacity \in Nat /\ Limit \in Nat /\ Capacity <= Limit /\ 8 < Limit
    /\ Align \subseteq {1, 2, 4, 8}
    /\ OverflowChecks \in BOOLEAN
    /\ MaxLength \in Nat /\ MaxRegions \in Nat

ASSUME ValueAssumption ==
    /\ Byte \subseteq 0 .. 255
    /\ Word \subseteq Nat /\ \A w \in Word : w \div 16777216 < 256

VARIABLES
    data,            \* the byte at each address
    allocPtr,        \* where the next allocation starts, before it is aligned
    regions          \* ghost: the allocations made, and what was lowered there

vars == <<data, allocPtr, regions>>

Address == 0 .. Capacity - 1

\* "start after null page"
Start == 8

Init ==
    /\ data = [a \in Address |-> 0]
    /\ allocPtr = Start
    /\ regions = <<>>

-----------------------------------------------------------------------------
(***************************************************************************)
(* Memory.                                                                 *)
(***************************************************************************)

\* The arithmetic of the build: past Limit it wraps, or panics, which is no
\* result at all.
Fits(n) == OverflowChecks => n < Limit
Wrapped(n) == n % Limit

\* A length `as u32`: it is cut, in every build.
Cut(n) == n % Limit

\* Slip: the pointer is rounded down.
AlignDown(p, align) == (p \div align) * align

\* (alloc_ptr + mask) & !mask
AlignUp(p, align) == (Wrapped(p + align - 1) \div align) * align

\* alloc: `ptr` is its result.
Alloc(ptr, size, align) ==
    /\ Fits(allocPtr + align - 1)
    /\ ptr = AlignUp(allocPtr, align)
    /\ Fits(ptr + size)
    /\ allocPtr' = Wrapped(ptr + size)

\* write_bytes: a write that does not fit is dropped.
Written(d, offset, bytes) ==
    IF offset + Len(bytes) <= Capacity
    THEN [a \in DOMAIN d |->
             IF a \in offset .. offset + Len(bytes) - 1 THEN bytes[a - offset + 1] ELSE d[a]]
    ELSE d

\* read_bytes: a read that does not fit is empty.
ReadBytes(offset, n) ==
    IF offset + n <= Capacity THEN [k \in 1 .. n |-> data[offset + k - 1]] ELSE <<>>

\* to_le_bytes and from_le_bytes of a u32.
ToBytes(w) == <<w % 256, (w \div 256) % 256, (w \div 65536) % 256, (w \div 16777216) % 256>>
FromBytes(b) == b[1] + 256 * b[2] + 65536 * b[3] + 16777216 * b[4]

\* read_u32: zero where it does not fit.
ReadWord(offset) == IF offset + 4 <= Capacity THEN FromBytes(ReadBytes(offset, 4)) ELSE 0

-----------------------------------------------------------------------------
(***************************************************************************)
(* Lowering: space is allocated, and the value is written there.           *)
(***************************************************************************)

Allocated(kind, ptr, size, align, value) ==
    regions' = Append(regions, [kind |-> kind, ptr |-> ptr, size |-> size,
                                align |-> align, value |-> value])

\* lower_string and lower_list_u8.
LowerBytes(kind, ptr, bytes) ==
    /\ Len(regions) < MaxRegions
    /\ Alloc(ptr, Cut(Len(bytes)), 1)
    /\ data' = Written(data, ptr, bytes)
    /\ Allocated(kind, ptr, Cut(Len(bytes)), 1, bytes)

\* Slip: the words are written as far apart as u64s.
WordsStrided(ptr, words) ==
    LET after[k \in 0 .. Len(words)] ==
            IF k = 0 THEN data
            ELSE Written(after[k - 1], ptr + 8 * (k - 1), ToBytes(words[k]))
    IN after[Len(words)]

\* The memory after write_u32 of every word in turn.
WordsWritten(ptr, words) ==
    LET after[k \in 0 .. Len(words)] ==
            IF k = 0 THEN data
            ELSE Written(after[k - 1], ptr + 4 * (k - 1), ToBytes(words[k]))
    IN after[Len(words)]

\* lower_list_u32: a list that does not fit is written as far as it does.
LowerWords(ptr, words) ==
    /\ Len(regions) < MaxRegions
    /\ Alloc(ptr, Cut(4 * Len(words)), 4)
    /\ data' = WordsWritten(ptr, words)
    /\ Allocated("words", ptr, Cut(4 * Len(words)), 4, words)

-----------------------------------------------------------------------------
(***************************************************************************)
(* The host: it asks for space and fills it.                               *)
(***************************************************************************)

\* cabi_realloc: the old allocation is neither copied nor reused.
Realloc(ptr, size, align) ==
    /\ Len(regions) < MaxRegions
    /\ Alloc(ptr, size, align)
    /\ Allocated("host", ptr, size, align, <<>>)
    /\ UNCHANGED data

\* write_bytes by the host, where cabi_realloc gave it space.
Fill(k, bytes) ==
    /\ regions[k].kind = "host"
    /\ Len(bytes) = regions[k].size
    /\ data' = Written(data, regions[k].ptr, bytes)
    /\ regions' = [regions EXCEPT ![k].value = bytes]
    /\ UNCHANGED allocPtr

Values(S) == UNION {[1 .. n -> S] : n \in 0 .. MaxLength}

Next ==
    \/ \E ptr \in 0 .. Limit :
        \/ \E kind \in {"string", "bytes"}, bytes \in Values(Byte) : LowerBytes(kind, ptr, bytes)
        \/ \E words \in Values(Word) : LowerWords(ptr, words)
        \/ \E size \in 0 .. MaxLength, align \in Align : Realloc(ptr, size, align)
    \/ \E k \in DOMAIN regions, bytes \in Values(Byte) : Fill(k, bytes)

Spec == Init /\ [][Next]_vars

-----------------------------------------------------------------------------
(***************************************************************************)
(* Lifting.                                                                *)
(***************************************************************************)

LiftString(ptr, n) == LET bytes == ReadBytes(ptr, n) IN IF Len(bytes) = n THEN bytes ELSE None
LiftBytes(ptr, n) == ReadBytes(ptr, n)
LiftWords(ptr, n) == [k \in 1 .. n |-> ReadWord(ptr + 4 * (k - 1))]

-----------------------------------------------------------------------------
(***************************************************************************)
(* Properties.                                                             *)
(***************************************************************************)

TypeOK ==
    /\ data \in [Address -> 0 .. 255]
    /\ allocPtr \in 0 .. Limit - 1
    /\ \A k \in DOMAIN regions :
           /\ regions[k].ptr \in 0 .. Limit - 1
           /\ regions[k].size \in Nat

RegionEnd(r) == r.ptr + r.size

\* No two allocations share an address, none reaches into the null page, and
\* each is aligned as asked, whatever mix of sizes and alignments came before.
RegionsDisjoint ==
    /\ \A k \in DOMAIN regions :
           regions[k].ptr >= 8 /\ regions[k].ptr % regions[k].align = 0
    /\ \A j, k \in DOMAIN regions :
           j < k => RegionEnd(regions[j]) <= regions[k].ptr

\* What was lowered lifts back, after any later lowering, allocation or host
\* write: a string or byte list that fits the memory is unchanged, one that
\* does not lifts as none or empty and never as a part of it, and of a list of
\* words exactly those that fit are there and the others read as zero.
LiftsWhatFits ==
    \A k \in DOMAIN regions :
        LET r == regions[k]
            fits == RegionEnd(r) <= Capacity
        IN /\ r.kind = "string" => 
                  LiftString(r.ptr, r.size) =
                      (IF fits \/ r.size = 0 THEN r.value ELSE None)
           /\ r.kind \in {"bytes", "host"} /\ Len(r.value) = r.size =>
                  LiftBytes(r.ptr, r.size) = (IF fits THEN r.value ELSE <<>>)
           /\ r.kind = "words" =>
                  LiftWords(r.ptr, Len(r.value)) =
                      [j \in DOMAIN r.value |-> IF r.ptr + 4 * j <= Capacity THEN r.value[j] ELSE 0]

\* Nothing is ever written where no allocation is: the null page, the gaps
\* alignment leaves and what lies past the last allocation stay zero.
UnallocatedClear ==
    \A a \in Address :
        (\A k \in DOMAIN regions : a \notin regions[k].ptr .. RegionEnd(regions[k]) - 1)
            => data[a] = 0

\* The memory holds what was lowered into it and nothing else.
HoldsWhatWasLowered == TypeOK /\ LiftsWhatFits /\ UnallocatedClear
=============================================================================
