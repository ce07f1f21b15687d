---------------------------- MODULE StreamsProofs ----------------------------
(***************************************************************************)
(* Proofs about Streams: the types, the counters of every stream, that no  *)
(* byte is doubled, overtaken or lost but in a closed output, and that the *)
(* result of a poll stays true until somebody acts on the stream.          *)
(***************************************************************************)
EXTENDS Streams, SequenceTheorems, FiniteSetTheorems, TLAPS

InputType == [buffer : Seq(Byte), closed : BOOLEAN, bytesRead : Nat]
OutputType == [buffer : Seq(Byte), flushed : Seq(Byte), closed : BOOLEAN, bytesWritten : Nat]
Source == [kind : {"input", "output", "timer"}, handle : 0 .. MaxHandle]

-----------------------------------------------------------------------------
(***************************************************************************)
(* What the operations do to one stream.                                   *)
(***************************************************************************)

\* A finite function from 1 .. n is a sequence.
LEMMA CountedIsSeq ==
    ASSUME NEW n \in Nat, NEW S, NEW f \in [1 .. n -> S]
    PROVE  f \in Seq(S) /\ Len(f) = n /\ DOMAIN f = 1 .. n
<1>1. f \in Seq(S)
  BY SeqDef
<1>2. Len(f) \in Nat /\ DOMAIN f = 1 .. Len(f) /\ DOMAIN f = 1 .. n
  BY <1>1, LenProperties
<1> QED BY <1>1, <1>2

LEMMA FreshParts ==
    ASSUME origin \in Seq(0 .. MaxHandle), NEW n \in Nat, Len(origin) + n <= MaxBytes
    PROVE  Fresh(n) \in Seq(Byte) /\ Len(Fresh(n)) = n
<1>1. Len(origin) \in Nat
  BY LenProperties
<1>2. Fresh(n) \in [1 .. n -> Byte]
  BY <1>1, StreamAssumption DEF Fresh, Byte
<1> QED BY <1>2, CountedIsSeq

\* Reading moves n bytes from the buffer to the counter.
LEMMA DrainedParts ==
    ASSUME NEW s \in InputType, NEW n \in 1 .. Len(s.buffer)
    PROVE  /\ Drained(s, n) \in InputType
           /\ Drained(s, n).closed = s.closed
           /\ Drained(s, n).bytesRead = s.bytesRead + n
           /\ Len(Drained(s, n).buffer) = Len(s.buffer) - n
<1>1. s.buffer \in Seq(Byte) /\ Len(s.buffer) \in Nat
  BY LenProperties DEF InputType
<1>2. \A k \in n + 1 .. Len(s.buffer) : s.buffer[k] \in Byte
  BY <1>1, LenProperties
<1>3. /\ SubSeq(s.buffer, n + 1, Len(s.buffer)) \in Seq(Byte)
      /\ Len(SubSeq(s.buffer, n + 1, Len(s.buffer))) = Len(s.buffer) - n
  BY <1>1, <1>2, SubSeqProperties
<1> DEFINE b == SubSeq(s.buffer, n + 1, Len(s.buffer))
           m == s.bytesRead + n
           r == Drained(s, n)
<1>4. b \in Seq(Byte) /\ Len(b) = Len(s.buffer) - n
  BY <1>3
<1>5. m \in Nat /\ m = s.bytesRead + n
  BY <1>1 DEF InputType
<1>6. r = [s EXCEPT !.buffer = b, !.bytesRead = m]
  BY DEF Drained
<1> HIDE DEF b, m, r
<1>7. r \in InputType /\ r.closed = s.closed /\ r.buffer = b /\ r.bytesRead = m
  <2>1. b \in Seq(Byte) /\ m \in Nat /\ s \in InputType
    BY <1>4, <1>5
  <2> QED BY ONLY <1>6, <2>1 DEF InputType
<1>8. r.bytesRead = s.bytesRead + n
  BY ONLY <1>5, <1>7
<1>9. Len(r.buffer) = Len(s.buffer) - n
  BY ONLY <1>4, <1>7
<1> QED BY <1>7, <1>8, <1>9 DEF r

\* What a splice or a read takes.
LEMMA TakenParts ==
    ASSUME NEW s \in InputType, NEW n \in 0 .. Len(s.buffer)
    PROVE  SubSeq(s.buffer, 1, n) \in Seq(Byte)
<1>1. s.buffer \in Seq(Byte) /\ Len(s.buffer) \in Nat
  BY LenProperties DEF InputType
<1>2. \A k \in 1 .. n : s.buffer[k] \in Byte
  BY <1>1, LenProperties
<1> QED BY <1>1, <1>2, SubSeqProperties

\* The part of CountersAgree about one output.
Agrees(s) ==
    /\ s.bytesWritten = Len(s.flushed) + Len(s.buffer)
    /\ s.closed => s.buffer = <<>>

LEMMA WrittenParts ==
    ASSUME NEW s \in OutputType, Agrees(s), NEW data \in Seq(Byte)
    PROVE  /\ Written(s, data) \in OutputType /\ Agrees(Written(s, data))
           /\ Written(s, data).closed = s.closed
<1>1. /\ s.buffer \o data \in Seq(Byte) /\ Len(s.buffer \o data) = Len(s.buffer) + Len(data)
      /\ Len(s.buffer) \in Nat /\ Len(data) \in Nat /\ Len(s.flushed) \in Nat
  BY ConcatProperties, LenProperties DEF OutputType
<1>2. CASE s.closed
  BY <1>2 DEF Written
<1>3. CASE ~ s.closed
  <2> DEFINE b == s.buffer \o data
             f == s.flushed
             m == s.bytesWritten + Len(data)
             r == Written(s, data)
  <2>1. b \in Seq(Byte) /\ Len(b) = Len(s.buffer) + Len(data) /\ f \in Seq(Byte) /\ f = s.flushed
    BY <1>1 DEF OutputType
  <2>2. m \in Nat /\ m = s.bytesWritten + Len(data) /\ s.bytesWritten \in Nat
    BY <1>1 DEF OutputType
  <2>3. r = [s EXCEPT !.buffer = b, !.bytesWritten = m]
    BY <1>3 DEF Written
  <2> HIDE DEF b, f, m, r
  <2>4. b \in Seq(Byte) /\ f = s.flushed /\ m \in Nat /\ s \in OutputType
    BY <2>1, <2>2
  <2>5. /\ r \in OutputType /\ r.closed = s.closed
        /\ r.buffer = b /\ r.flushed = f /\ r.bytesWritten = m
    BY ONLY <2>3, <2>4 DEF OutputType
  <2>6. Agrees(r)
    <3>1. s.bytesWritten = Len(f) + Len(s.buffer)
      BY <2>1 DEF Agrees
    <3>a. Len(f) \in Nat /\ Len(s.buffer) \in Nat /\ Len(data) \in Nat
      BY ONLY <1>1, <2>1
    <3>b. Len(b) = Len(s.buffer) + Len(data) /\ m = s.bytesWritten + Len(data)
      BY ONLY <2>1, <2>2
    <3>2. m = Len(f) + Len(b)
      BY ONLY <3>1, <3>a, <3>b
    <3>3. ~ r.closed
      BY <1>3, <2>5
    <3> QED BY ONLY <2>5, <3>2, <3>3 DEF Agrees
  <2> QED BY <2>5, <2>6 DEF r
<1> QED BY <1>2, <1>3

LEMMA FlushedParts ==
    ASSUME NEW s \in OutputType, Agrees(s)
    PROVE  /\ Flushed(s) \in OutputType /\ Agrees(Flushed(s))
           /\ Flushed(s).closed = s.closed /\ Flushed(s).buffer = <<>>
<1>1. /\ s.flushed \o s.buffer \in Seq(Byte)
      /\ Len(s.flushed \o s.buffer) = Len(s.flushed) + Len(s.buffer)
      /\ Len(s.buffer) \in Nat /\ Len(s.flushed) \in Nat
      /\ <<>> \in Seq(Byte) /\ Len(<<>>) = 0
  BY ConcatProperties, LenProperties, EmptySeq DEF OutputType
<1>2. CASE s.closed
  BY <1>2 DEF Flushed, Agrees
<1>3. CASE ~ s.closed
  <2> DEFINE f == s.flushed \o s.buffer
             r == Flushed(s)
  <2>1. f \in Seq(Byte) /\ Len(f) = Len(s.flushed) + Len(s.buffer)
    BY <1>1
  <2>3. r = [s EXCEPT !.flushed = f, !.buffer = <<>>]
    BY <1>3 DEF Flushed
  <2> HIDE DEF f, r
  <2>4. f \in Seq(Byte) /\ <<>> \in Seq(Byte) /\ s \in OutputType
    BY <1>1, <2>1
  <2>5. /\ r \in OutputType /\ r.closed = s.closed
        /\ r.buffer = <<>> /\ r.flushed = f /\ r.bytesWritten = s.bytesWritten
    BY ONLY <2>3, <2>4 DEF OutputType
  <2>6. Agrees(r)
    <3>1. s.bytesWritten = Len(s.flushed) + Len(s.buffer)
      BY DEF Agrees
    <3>2. s.bytesWritten = Len(f) + Len(<<>>)
      BY ONLY <1>1, <2>1, <3>1
    <3> QED BY ONLY <2>5, <3>2 DEF Agrees
  <2> QED BY <2>5, <2>6 DEF r
<1> QED BY <1>2, <1>3

-----------------------------------------------------------------------------
(***************************************************************************)
(* Counting the bytes that came to a stream.                               *)
(***************************************************************************)

Arrived(h) == {b \in DOMAIN origin : origin[b] = h}

\* n more bytes for h leave the count of every other stream alone.
LEMMA ArrivedCounts ==
    ASSUME origin \in Seq(0 .. MaxHandle), Len(origin) <= MaxBytes,
           NEW h \in 0 .. MaxHandle, NEW n \in Nat, Arrive(n, h)
    PROVE  /\ origin' \in Seq(0 .. MaxHandle) /\ Len(origin') <= MaxBytes
           /\ \A i : Cardinality(Arrived(i)) \in Nat
           /\ \A i : Cardinality(Arrived(i)') = Cardinality(Arrived(i)) + (IF i = h THEN n ELSE 0)
           /\ \A b \in DOMAIN origin' : origin'[b] = h \/ (b \in DOMAIN origin /\ origin'[b] = origin[b])
<1> DEFINE more == [k \in 1 .. n |-> h]
           new == Len(origin) + 1 .. Len(origin) + n
<1>1. more \in Seq(0 .. MaxHandle) /\ Len(more) = n
  <2>1. more \in [1 .. n -> 0 .. MaxHandle]
    OBVIOUS
  <2> QED BY <2>1, CountedIsSeq
<1>2. origin' = origin \o more /\ Len(origin) + n <= MaxBytes /\ Len(origin) \in Nat
  BY LenProperties DEF Arrive
<1>3. /\ origin' \in Seq(0 .. MaxHandle) /\ Len(origin') = Len(origin) + n
      /\ \A k \in 1 .. Len(origin) + n :
             origin'[k] = IF k <= Len(origin) THEN origin[k] ELSE more[k - Len(origin)]
  <2> HIDE DEF more
  <2> QED BY <1>1, <1>2, ConcatProperties
<1>4. DOMAIN origin = 1 .. Len(origin) /\ DOMAIN origin' = 1 .. Len(origin) + n
  BY <1>3, LenProperties
<1>5. /\ \A b \in DOMAIN origin : origin'[b] = origin[b]
      /\ \A b \in new : origin'[b] = h
      /\ DOMAIN origin' = DOMAIN origin \union new /\ DOMAIN origin \intersect new = {}
  BY <1>2, <1>3, <1>4
<1>6. IsFiniteSet(new) /\ Cardinality(new) = n
  BY <1>2, FS_Interval
<1>7. ASSUME NEW i PROVE IsFiniteSet(Arrived(i)) /\ Cardinality(Arrived(i)) \in Nat
  <2>1. IsFiniteSet(DOMAIN origin)
    BY <1>2, <1>4, FS_Interval
  <2>2. Arrived(i) \in SUBSET (DOMAIN origin)
    BY DEF Arrived
  <2> QED BY <2>1, <2>2, FS_Subset, FS_CardinalityType
<1>8. ASSUME NEW i
      PROVE  Cardinality(Arrived(i)') = Cardinality(Arrived(i)) + (IF i = h THEN n ELSE 0)
  <2> HIDE DEF new
  <2>1. CASE i = h
    <3>1. Arrived(i)' = Arrived(i) \union new /\ Arrived(i) \intersect new = {}
      BY <1>5, <2>1 DEF Arrived
    <3>2. Cardinality(Arrived(i)') = Cardinality(Arrived(i)) + n - Cardinality({})
      BY <3>1, <1>6, <1>7, FS_Union
    <3> QED BY <2>1, <3>2, <1>7, FS_EmptySet
  <2>2. CASE i # h
    <3>1. Arrived(i)' = Arrived(i)
      BY <1>5, <2>2 DEF Arrived
    <3> QED BY <2>2, <3>1, <1>7
  <2> QED BY <2>1, <2>2
<1> QED BY <1>2, <1>3, <1>5, <1>7, <1>8

-----------------------------------------------------------------------------
(***************************************************************************)
(* The invariant: types, the counters, and that bytes come to streams that *)
(* were made.                                                              *)
(***************************************************************************)

InputsOK ==
    /\ DOMAIN taken = DOMAIN inputs
    /\ \A i \in DOMAIN inputs :
           /\ inputs[i] \in InputType
           /\ inputs[i].bytesRead + Len(inputs[i].buffer) = Cardinality(Arrived(i))

OutputsOK == \A o \in DOMAIN outputs : outputs[o] \in OutputType /\ Agrees(outputs[o])

HandlesOK ==
    /\ nextHandle \in 0 .. MaxHandle + 1
    /\ DOMAIN inputs \intersect DOMAIN outputs = {}
    /\ DOMAIN inputs \union DOMAIN outputs = 0 .. nextHandle - 1

BytesOK ==
    /\ origin \in Seq(0 .. MaxHandle) /\ Len(origin) <= MaxBytes
    /\ \A b \in DOMAIN origin : origin[b] \in 0 .. nextHandle - 1

Inv == HandlesOK /\ InputsOK /\ OutputsOK /\ BytesOK /\ sources \in Seq(Source)

LEMMA InvInit == Init => Inv
<1> SUFFICES ASSUME Init PROVE Inv
  OBVIOUS
<1>1. HandlesOK /\ InputsOK /\ OutputsOK
  BY StreamAssumption DEF Init, HandlesOK, InputsOK, OutputsOK
<1>2. BytesOK /\ sources \in Seq(Source)
  <2>1. <<>> \in Seq(0 .. MaxHandle) /\ <<>> \in Seq(Source) /\ Len(<<>>) = 0 /\ DOMAIN <<>> = {}
    BY EmptySeq
  <2> QED BY <2>1, StreamAssumption DEF Init, BytesOK
<1> QED BY <1>1, <1>2 DEF Inv

\* A step that makes no stream and brings no byte keeps the invariant if what it does
\* to each stream does.
LEMMA InPlace ==
    ASSUME Inv, UNCHANGED <<nextHandle, origin, sources>>,
           DOMAIN inputs' = DOMAIN inputs, DOMAIN taken' = DOMAIN taken,
           DOMAIN outputs' = DOMAIN outputs,
           \A i \in DOMAIN inputs :
               /\ inputs'[i] \in InputType
               /\ inputs'[i].bytesRead + Len(inputs'[i].buffer) = inputs[i].bytesRead + Len(inputs[i].buffer),
           \A o \in DOMAIN outputs : outputs'[o] \in OutputType /\ Agrees(outputs'[o])
    PROVE  Inv'
<1>1. \A i : Arrived(i)' = Arrived(i)
  BY DEF Arrived
<1>2. InputsOK'
  BY <1>1 DEF Inv, InputsOK
<1>3. OutputsOK'
  BY DEF OutputsOK
<1>4. HandlesOK' /\ BytesOK' /\ (sources \in Seq(Source))'
  BY DEF Inv, HandlesOK, BytesOK
<1> QED BY <1>2, <1>3, <1>4 DEF Inv

\* What a read takes from a stream that holds something.
LEMMA GotParts ==
    ASSUME NEW i \in DOMAIN inputs, inputs[i] \in InputType, NEW n \in 1 .. MaxBytes, Got(i, n) > 0
    PROVE  Got(i, n) \in 1 .. Len(inputs[i].buffer) /\ Got(i, n) \in 0 .. Len(inputs[i].buffer)
<1>1. Len(inputs[i].buffer) \in Nat
  BY LenProperties DEF InputType
<1> QED BY <1>1 DEF Got

\* A drained input keeps its balance.
LEMMA DrainedBalance ==
    ASSUME Inv, NEW i \in DOMAIN inputs, NEW n \in 1 .. Len(inputs[i].buffer)
    PROVE  LET s == Drained(inputs[i], n) IN
           s \in InputType /\ s.bytesRead + Len(s.buffer) = inputs[i].bytesRead + Len(inputs[i].buffer)
<1> DEFINE s == Drained(inputs[i], n)
<1>1. inputs[i] \in InputType
  BY DEF Inv, InputsOK
<1>2. Len(inputs[i].buffer) \in Nat /\ inputs[i].bytesRead \in Nat
  BY <1>1, LenProperties DEF InputType
<1>3. /\ s \in InputType /\ s.bytesRead = inputs[i].bytesRead + n
      /\ Len(s.buffer) = Len(inputs[i].buffer) - n
  BY <1>1, DrainedParts
<1> HIDE DEF s
<1>4. s.bytesRead + Len(s.buffer) = inputs[i].bytesRead + Len(inputs[i].buffer)
  BY ONLY <1>2, <1>3, n \in 1 .. Len(inputs[i].buffer)
<1> QED BY <1>3, <1>4 DEF s

LEMMA ReadKeeps ==
    ASSUME Inv, NEW i \in DOMAIN inputs, NEW n \in 1 .. MaxBytes, Read(i, n)
    PROVE  Inv'
<1> DEFINE s == Drained(inputs[i], Got(i, n))
<1>1. inputs[i] \in InputType
  BY DEF Inv, InputsOK
<1>2. Got(i, n) \in 1 .. Len(inputs[i].buffer)
  BY <1>1, GotParts DEF Read
<1>3. s \in InputType /\ s.bytesRead + Len(s.buffer) = inputs[i].bytesRead + Len(inputs[i].buffer)
  BY <1>2, DrainedBalance
<1>4. inputs' = [inputs EXCEPT ![i] = s] /\ DOMAIN taken' = DOMAIN taken
  BY DEF Read
<1>5. UNCHANGED <<outputs, nextHandle, sources, origin>>
  BY DEF Read
<1> HIDE DEF s
<1>6. /\ DOMAIN inputs' = DOMAIN inputs /\ DOMAIN outputs' = DOMAIN outputs
      /\ \A j \in DOMAIN inputs :
             /\ inputs'[j] \in InputType
             /\ inputs'[j].bytesRead + Len(inputs'[j].buffer) = inputs[j].bytesRead + Len(inputs[j].buffer)
  BY <1>3, <1>4, <1>5 DEF Inv, InputsOK
<1>7. \A o \in DOMAIN outputs : outputs'[o] \in OutputType /\ Agrees(outputs'[o])
  BY <1>5 DEF Inv, OutputsOK
<1> QED BY <1>4, <1>5, <1>6, <1>7, InPlace

LEMMA SpliceKeeps ==
    ASSUME Inv, NEW i \in DOMAIN inputs, NEW o \in DOMAIN outputs, NEW n \in 1 .. MaxBytes,
           Splice(i, o, n)
    PROVE  Inv'
<1> DEFINE s == Drained(inputs[i], Got(i, n))
           data == SubSeq(inputs[i].buffer, 1, Got(i, n))
           w == Written(outputs[o], data)
<1>1. inputs[i] \in InputType /\ outputs[o] \in OutputType /\ Agrees(outputs[o])
  BY DEF Inv, InputsOK, OutputsOK
<1>2. Got(i, n) \in 1 .. Len(inputs[i].buffer) /\ Got(i, n) \in 0 .. Len(inputs[i].buffer)
  BY <1>1, GotParts DEF Splice
<1>3. s \in InputType /\ s.bytesRead + Len(s.buffer) = inputs[i].bytesRead + Len(inputs[i].buffer)
  BY <1>2, DrainedBalance
<1>4. w \in OutputType /\ Agrees(w)
  <2>1. data \in Seq(Byte)
    BY <1>1, <1>2, TakenParts
  <2> HIDE DEF data
  <2> QED BY <1>1, <2>1, WrittenParts
<1>5. inputs' = [inputs EXCEPT ![i] = s] /\ outputs' = [outputs EXCEPT ![o] = w]
  BY DEF Splice
<1>6. UNCHANGED <<nextHandle, sources, origin, taken>>
  BY DEF Splice
<1> HIDE DEF s, w
<1>7. /\ DOMAIN inputs' = DOMAIN inputs /\ DOMAIN outputs' = DOMAIN outputs
      /\ \A j \in DOMAIN inputs :
             /\ inputs'[j] \in InputType
             /\ inputs'[j].bytesRead + Len(inputs'[j].buffer) = inputs[j].bytesRead + Len(inputs[j].buffer)
  BY <1>3, <1>5 DEF Inv, InputsOK
<1>8. \A p \in DOMAIN outputs : outputs'[p] \in OutputType /\ Agrees(outputs'[p])
  BY <1>4, <1>5 DEF Inv, OutputsOK
<1> QED BY <1>6, <1>7, <1>8, InPlace

LEMMA CloseInputKeeps ==
    ASSUME Inv, NEW i \in DOMAIN inputs, CloseInput(i)
    PROVE  Inv'
<1>1. inputs[i] \in InputType
  BY DEF Inv, InputsOK
<1> DEFINE s == [inputs[i] EXCEPT !.closed = TRUE]
<1>2. s \in InputType /\ s.bytesRead = inputs[i].bytesRead /\ s.buffer = inputs[i].buffer
  BY ONLY <1>1 DEF InputType
<1>3. inputs' = [inputs EXCEPT ![i] = s]
  BY DEF CloseInput
<1>4. UNCHANGED <<outputs, nextHandle, sources, origin, taken>>
  BY DEF CloseInput
<1> HIDE DEF s
<1>5. /\ DOMAIN inputs' = DOMAIN inputs /\ DOMAIN outputs' = DOMAIN outputs
      /\ \A j \in DOMAIN inputs :
             /\ inputs'[j] \in InputType
             /\ inputs'[j].bytesRead + Len(inputs'[j].buffer) = inputs[j].bytesRead + Len(inputs[j].buffer)
  BY <1>2, <1>3, <1>4 DEF Inv, InputsOK
<1>6. \A o \in DOMAIN outputs : outputs'[o] \in OutputType /\ Agrees(outputs'[o])
  BY <1>4 DEF Inv, OutputsOK
<1> QED BY <1>4, <1>5, <1>6, InPlace

\* Flushing and closing change one output, and no other variable.
LEMMA OutputChange ==
    ASSUME Inv, UNCHANGED <<inputs, nextHandle, sources, origin, taken>>,
           NEW o \in DOMAIN outputs, NEW w \in OutputType, Agrees(w),
           outputs' = [outputs EXCEPT ![o] = w]
    PROVE  Inv'
<1>1. /\ DOMAIN inputs' = DOMAIN inputs /\ DOMAIN outputs' = DOMAIN outputs
      /\ \A j \in DOMAIN inputs :
             /\ inputs'[j] \in InputType
             /\ inputs'[j].bytesRead + Len(inputs'[j].buffer) = inputs[j].bytesRead + Len(inputs[j].buffer)
  BY DEF Inv, InputsOK
<1>2. \A p \in DOMAIN outputs : outputs'[p] \in OutputType /\ Agrees(outputs'[p])
  BY DEF Inv, OutputsOK
<1> QED BY <1>1, <1>2, InPlace

LEMMA FlushKeeps ==
    ASSUME Inv, NEW o \in DOMAIN outputs, Flush(o)
    PROVE  Inv'
<1>1. Flushed(outputs[o]) \in OutputType /\ Agrees(Flushed(outputs[o]))
  BY FlushedParts DEF Inv, OutputsOK
<1> QED BY <1>1, OutputChange DEF Flush

LEMMA CloseOutputKeeps ==
    ASSUME Inv, NEW o \in DOMAIN outputs, CloseOutput(o)
    PROVE  Inv'
<1> DEFINE f == Flushed(outputs[o])
           w == [f EXCEPT !.closed = TRUE]
<1>1. f \in OutputType /\ Agrees(f) /\ f.buffer = <<>>
  BY FlushedParts DEF Inv, OutputsOK
<1>2. outputs' = [outputs EXCEPT ![o] = w] /\ UNCHANGED <<inputs, nextHandle, sources, origin, taken>>
  BY DEF CloseOutput
<1> HIDE DEF f
<1>3. /\ w \in OutputType /\ w.bytesWritten = f.bytesWritten /\ w.buffer = f.buffer
      /\ w.flushed = f.flushed
  BY ONLY <1>1 DEF OutputType
<1> HIDE DEF w
<1>4. Agrees(w)
  BY ONLY <1>1, <1>3 DEF Agrees
<1> QED BY <1>2, <1>3, <1>4, OutputChange

-----------------------------------------------------------------------------
(***************************************************************************)
(* Operations that bring bytes or make streams.                            *)
(***************************************************************************)

LEMMA HandleOfStream ==
    ASSUME Inv, NEW h \in DOMAIN inputs \union DOMAIN outputs
    PROVE  h \in 0 .. nextHandle - 1 /\ h \in 0 .. MaxHandle
BY StreamAssumption DEF Inv, HandlesOK

LEMMA WriteKeeps ==
    ASSUME Inv, NEW o \in DOMAIN outputs, NEW n \in 1 .. MaxBytes, Write(o, n)
    PROVE  Inv'
<1> DEFINE w == Written(outputs[o], Fresh(n))
<1>1. o \in 0 .. nextHandle - 1 /\ o \in 0 .. MaxHandle /\ o \notin DOMAIN inputs
  BY HandleOfStream DEF Inv, HandlesOK
<1>2. n \in Nat /\ Arrive(n, o) /\ Len(origin) + n <= MaxBytes
  BY DEF Write, Arrive
<1>3. w \in OutputType /\ Agrees(w)
  <2>1. Fresh(n) \in Seq(Byte)
    BY <1>2, FreshParts DEF Inv, BytesOK
  <2> QED BY <2>1, WrittenParts DEF Inv, OutputsOK
<1>4. outputs' = [outputs EXCEPT ![o] = w] /\ UNCHANGED <<inputs, nextHandle, sources, taken>>
  BY DEF Write
<1> HIDE DEF w
<1>5. /\ origin' \in Seq(0 .. MaxHandle) /\ Len(origin') <= MaxBytes
      /\ \A i : Cardinality(Arrived(i)) \in Nat
      /\ \A i : Cardinality(Arrived(i)') = Cardinality(Arrived(i)) + (IF i = o THEN n ELSE 0)
      /\ \A b \in DOMAIN origin' : origin'[b] = o \/ (b \in DOMAIN origin /\ origin'[b] = origin[b])
  BY <1>1, <1>2, ArrivedCounts DEF Inv, BytesOK
<1>6. \A i \in DOMAIN inputs : Cardinality(Arrived(i)') = Cardinality(Arrived(i))
  BY <1>1, <1>5
<1>7. InputsOK'
  BY <1>4, <1>6 DEF Inv, InputsOK
<1>8. OutputsOK'
  BY <1>3, <1>4 DEF Inv, OutputsOK
<1>9. HandlesOK'
  BY <1>4 DEF Inv, HandlesOK
<1>10. BytesOK'
  BY <1>1, <1>4, <1>5 DEF Inv, BytesOK
<1> QED BY <1>4, <1>7, <1>8, <1>9, <1>10 DEF Inv

LEMMA PushKeeps ==
    ASSUME Inv, NEW i \in DOMAIN inputs, NEW n \in 1 .. MaxBytes, PushData(i, n)
    PROVE  Inv'
<1> DEFINE b == inputs[i].buffer \o Fresh(n)
           s == [inputs[i] EXCEPT !.buffer = b]
<1>1. i \in 0 .. nextHandle - 1 /\ i \in 0 .. MaxHandle
  BY HandleOfStream
<1>2. n \in Nat /\ Arrive(n, i) /\ Len(origin) + n <= MaxBytes
  BY DEF PushData, Arrive
<1>3. inputs[i] \in InputType /\ inputs[i].buffer \in Seq(Byte) /\ Len(inputs[i].buffer) \in Nat
  BY LenProperties DEF Inv, InputsOK, InputType
<1>4. b \in Seq(Byte) /\ Len(b) = Len(inputs[i].buffer) + n
  <2>1. Fresh(n) \in Seq(Byte) /\ Len(Fresh(n)) = n
    BY <1>2, FreshParts DEF Inv, BytesOK
  <2>2. \A a, c \in Seq(Byte) : a \o c \in Seq(Byte) /\ Len(a \o c) = Len(a) + Len(c)
    BY ConcatProperties
  <2> QED BY ONLY <1>3, <2>1, <2>2
<1>5. inputs' = [inputs EXCEPT ![i] = s] /\ UNCHANGED <<outputs, nextHandle, sources, taken>>
  BY DEF PushData
<1> HIDE DEF b
<1>6. s \in InputType /\ s.bytesRead = inputs[i].bytesRead /\ s.buffer = b
  <2>1. b \in Seq(Byte)
    BY <1>4
  <2> QED BY ONLY <1>3, <2>1 DEF InputType
<1> HIDE DEF s
<1>7. /\ origin' \in Seq(0 .. MaxHandle) /\ Len(origin') <= MaxBytes
      /\ \A h : Cardinality(Arrived(h)) \in Nat
      /\ \A h : Cardinality(Arrived(h)') = Cardinality(Arrived(h)) + (IF h = i THEN n ELSE 0)
      /\ \A k \in DOMAIN origin' : origin'[k] = i \/ (k \in DOMAIN origin /\ origin'[k] = origin[k])
  BY <1>1, <1>2, ArrivedCounts DEF Inv, BytesOK
<1>8. InputsOK'
  <2>1. s.bytesRead + Len(s.buffer) = Cardinality(Arrived(i)')
    <3>1. inputs[i].bytesRead \in Nat
      BY <1>3 DEF InputType
    <3>2. inputs[i].bytesRead + Len(inputs[i].buffer) = Cardinality(Arrived(i))
      BY DEF Inv, InputsOK
    <3>3. Cardinality(Arrived(i)') = Cardinality(Arrived(i)) + n
      BY <1>7
    <3>4. s.bytesRead = inputs[i].bytesRead /\ Len(s.buffer) = Len(inputs[i].buffer) + n
      BY ONLY <1>4, <1>6
    <3> QED BY ONLY <1>2, <1>3, <3>1, <3>2, <3>3, <3>4
  <2>2. \A j \in DOMAIN inputs \ {i} : Cardinality(Arrived(j)') = Cardinality(Arrived(j))
    BY <1>7
  <2> QED BY <1>5, <1>6, <2>1, <2>2 DEF Inv, InputsOK
<1>9. OutputsOK' /\ HandlesOK'
  BY <1>5 DEF Inv, OutputsOK, HandlesOK
<1>10. BytesOK'
  BY <1>1, <1>5, <1>7 DEF Inv, BytesOK
<1> QED BY <1>5, <1>8, <1>9, <1>10 DEF Inv

\* The next handle joins the handles given out.
LEMMA HandleAdded ==
    ASSUME nextHandle \in 0 .. MaxHandle, nextHandle' = nextHandle + 1
    PROVE  /\ nextHandle' \in 0 .. MaxHandle + 1
           /\ 0 .. nextHandle' - 1 = (0 .. nextHandle - 1) \union {nextHandle}
BY StreamAssumption

LEMMA NewInputKeeps ==
    ASSUME Inv, NEW n \in 0 .. MaxBytes, NewInputStream(n)
    PROVE  Inv'
<1> DEFINE s == NewInput(Fresh(n))
<1>0. PICK h : h = nextHandle
  OBVIOUS
<1>1. h \in 0 .. MaxHandle /\ h \notin DOMAIN inputs \union DOMAIN outputs
  BY <1>0, StreamAssumption DEF NewInputStream, Inv, HandlesOK
<1>2. n \in Nat /\ Arrive(n, h) /\ Len(origin) + n <= MaxBytes
  BY <1>0 DEF NewInputStream, Arrive
<1>3. s \in InputType /\ s.bytesRead = 0 /\ Len(s.buffer) = n
  <2>1. Fresh(n) \in Seq(Byte) /\ Len(Fresh(n)) = n
    BY <1>2, FreshParts DEF Inv, BytesOK
  <2> QED BY <2>1 DEF NewInput, InputType
<1>4. /\ nextHandle' = h + 1 /\ UNCHANGED <<outputs, sources>>
      /\ DOMAIN inputs' = DOMAIN inputs \union {h}
      /\ DOMAIN taken' = DOMAIN taken \union {h}
      /\ inputs'[h] = s
      /\ \A i \in DOMAIN inputs : inputs'[i] = inputs[i]
  BY <1>0, <1>1 DEF NewInputStream, Added
<1> HIDE DEF s
<1>5. /\ origin' \in Seq(0 .. MaxHandle) /\ Len(origin') <= MaxBytes
      /\ \A k : Cardinality(Arrived(k)) \in Nat
      /\ \A k : Cardinality(Arrived(k)') = Cardinality(Arrived(k)) + (IF k = h THEN n ELSE 0)
      /\ \A k \in DOMAIN origin' :
             origin'[k] = h \/ (k \in DOMAIN origin /\ origin'[k] = origin[k])
  BY <1>1, <1>2, ArrivedCounts DEF Inv, BytesOK
<1>6. InputsOK'
  <2>1. Arrived(h) = {}
    BY <1>0 DEF Arrived, Inv, BytesOK
  <2>2. s.bytesRead + Len(s.buffer) = Cardinality(Arrived(h)')
    <3>1. Cardinality(Arrived(h)) = 0
      BY <2>1, FS_EmptySet
    <3>2. Cardinality(Arrived(h)') = 0 + n
      BY <1>5, <3>1
    <3> QED BY ONLY <1>2, <1>3, <3>2
  <2>3. \A j \in DOMAIN inputs : Cardinality(Arrived(j)') = Cardinality(Arrived(j))
    BY <1>1, <1>5
  <2>4. DOMAIN taken' = DOMAIN inputs'
    BY <1>4 DEF Inv, InputsOK
  <2>5. ASSUME NEW i \in DOMAIN inputs
        PROVE  /\ inputs'[i] \in InputType
               /\ inputs'[i].bytesRead + Len(inputs'[i].buffer) = Cardinality(Arrived(i)')
    BY <1>4, <2>3, <2>5 DEF Inv, InputsOK
  <2>6. ASSUME NEW i \in DOMAIN inputs'
        PROVE  /\ inputs'[i] \in InputType
               /\ inputs'[i].bytesRead + Len(inputs'[i].buffer) = Cardinality(Arrived(i)')
    BY <1>3, <1>4, <2>2, <2>5
  <2> QED BY <2>4, <2>6 DEF InputsOK
<1>7. OutputsOK'
  BY <1>4 DEF Inv, OutputsOK
<1>8. HandlesOK'
  BY <1>0, <1>1, <1>4, HandleAdded DEF Inv, HandlesOK
<1>9. BytesOK'
  BY <1>0, <1>1, <1>4, <1>5, HandleAdded DEF Inv, BytesOK
<1> QED BY <1>4, <1>6, <1>7, <1>8, <1>9 DEF Inv

LEMMA NewOutputKeeps == ASSUME Inv, NewOutputStream PROVE Inv'
<1>1. nextHandle \in 0 .. MaxHandle /\ nextHandle \notin DOMAIN inputs \union DOMAIN outputs
  BY StreamAssumption DEF NewOutputStream, Inv, HandlesOK
<1>2. NewOutput \in OutputType /\ Agrees(NewOutput)
  BY EmptySeq DEF NewOutput, OutputType, Agrees
<1>3. /\ nextHandle' = nextHandle + 1 /\ UNCHANGED <<inputs, sources, origin, taken>>
      /\ DOMAIN outputs' = DOMAIN outputs \union {nextHandle}
      /\ outputs'[nextHandle] = NewOutput
      /\ \A o \in DOMAIN outputs : outputs'[o] = outputs[o]
  BY <1>1 DEF NewOutputStream, Added
<1>4. InputsOK'
  BY <1>3 DEF Inv, InputsOK, Arrived
<1>5. OutputsOK'
  BY <1>2, <1>3 DEF Inv, OutputsOK
<1>6. HandlesOK' /\ BytesOK'
  BY <1>1, <1>3, HandleAdded DEF Inv, HandlesOK, BytesOK
<1> QED BY <1>3, <1>4, <1>5, <1>6 DEF Inv

LEMMA SubscribeKeeps ==
    ASSUME Inv, NEW kind \in {"input", "output", "timer"}, NEW h \in 0 .. MaxHandle, Subscribe(kind, h)
    PROVE  Inv'
<1>1. [kind |-> kind, handle |-> h] \in Source
  BY DEF Source
<1>2. sources' \in Seq(Source)
  BY <1>1, AppendProperties DEF Subscribe, Inv
<1>3. InputsOK' /\ OutputsOK' /\ HandlesOK' /\ BytesOK'
  BY DEF Subscribe, Inv, InputsOK, Arrived, OutputsOK, HandlesOK, BytesOK
<1> QED BY <1>2, <1>3 DEF Inv

LEMMA InvNext == Inv /\ [Next]_vars => Inv'
<1> SUFFICES ASSUME Inv, [Next]_vars PROVE Inv'
  OBVIOUS
<1>1. CASE Next
  <2>1. 0 \in 0 .. MaxHandle
    BY StreamAssumption
  <2> QED BY <1>1, <2>1, NewInputKeeps, NewOutputKeeps, PushKeeps, ReadKeeps, CloseInputKeeps, WriteKeeps,
             FlushKeeps, CloseOutputKeeps, SpliceKeeps, SubscribeKeeps DEF Next
<1>2. CASE UNCHANGED vars
  BY <1>2 DEF vars, Inv, HandlesOK, InputsOK, OutputsOK, BytesOK, Arrived
<1> QED BY <1>1, <1>2

LEMMA InvAlways == Spec => []Inv
BY InvInit, InvNext, PTL DEF Spec

LEMMA Types == Inv => TypeOK
<1> SUFFICES ASSUME Inv PROVE TypeOK
  OBVIOUS
<1>1. /\ \A i \in DOMAIN inputs :
             inputs[i] \in [buffer : Seq(Byte), closed : BOOLEAN, bytesRead : Nat]
      /\ DOMAIN taken = DOMAIN inputs
  BY DEF Inv, InputsOK, InputType
<1>2. \A o \in DOMAIN outputs :
          outputs[o] \in [buffer : Seq(Byte), flushed : Seq(Byte), closed : BOOLEAN,
                          bytesWritten : Nat]
  BY DEF Inv, OutputsOK, OutputType
<1>3. origin \in [1 .. Len(origin) -> 0 .. MaxHandle]
  BY LenProperties DEF Inv, BytesOK
<1>4. sources \in Seq([kind : {"input", "output", "timer"}, handle : 0 .. MaxHandle])
  BY DEF Inv, Source
<1> QED BY <1>1, <1>2, <1>3, <1>4 DEF TypeOK, Inv, HandlesOK

\* The streams, handles, sources and bytes keep their types, for any bounds.
THEOREM StreamsTyped == Spec => []TypeOK
BY Types, InvAlways, PTL

\* bytes_read and bytes_written agree with what came and what is there, through every
\* read, splice, write, flush and close.
THEOREM CountersAgreeAlways == Spec => []CountersAgree
<1>1. ASSUME Inv PROVE CountersAgree
  <2>1. ASSUME NEW o \in DOMAIN outputs
        PROVE  /\ outputs[o].bytesWritten = Len(Accepted(o))
               /\ outputs[o].closed => outputs[o].bytesWritten = Len(outputs[o].flushed)
    <3>1. /\ outputs[o].flushed \in Seq(Byte) /\ outputs[o].buffer \in Seq(Byte)
          /\ Agrees(outputs[o])
      BY <1>1 DEF Inv, OutputsOK, OutputType
    <3>2. Len(Accepted(o)) = Len(outputs[o].flushed) + Len(outputs[o].buffer)
      BY <3>1, ConcatProperties DEF Accepted
    <3>3. Len(<<>>) = 0 /\ Len(outputs[o].flushed) \in Nat
      BY <3>1, EmptySeq, LenProperties
    <3>4. outputs[o].bytesWritten = Len(outputs[o].flushed) + Len(outputs[o].buffer)
      BY <3>1 DEF Agrees
    <3>5. outputs[o].closed => Len(outputs[o].buffer) = 0
      BY <3>1, <3>3 DEF Agrees
    <3>6. outputs[o].bytesWritten = Len(Accepted(o))
      BY ONLY <3>2, <3>4
    <3>7. ASSUME outputs[o].closed PROVE outputs[o].bytesWritten = Len(outputs[o].flushed)
      <4>1. Len(outputs[o].buffer) = 0
        BY <3>5, <3>7
      <4> QED BY ONLY <3>3, <3>4, <4>1
    <3> QED BY <3>6, <3>7
  <2>2. ASSUME NEW i \in DOMAIN inputs
        PROVE  inputs[i].bytesRead + Len(inputs[i].buffer)
                   = Cardinality({b \in DOMAIN origin : origin[b] = i})
    BY <1>1 DEF Inv, InputsOK, Arrived
  <2> QED BY <2>1, <2>2 DEF CountersAgree
<1> QED BY <1>1, InvAlways, PTL

-----------------------------------------------------------------------------
(***************************************************************************)
(* What was ready stays ready.                                             *)
(***************************************************************************)

LEMMA SourcesStay ==
    ASSUME Inv, Next, NEW k \in DOMAIN sources
    PROVE  k \in DOMAIN sources' /\ sources'[k] = sources[k]
<1>1. ASSUME NEW kind \in {"input", "output", "timer"}, NEW h \in 0 .. MaxHandle, Subscribe(kind, h)
      PROVE  k \in DOMAIN sources' /\ sources'[k] = sources[k]
  <2> DEFINE e == [kind |-> kind, handle |-> h]
  <2>1. e \in Source /\ sources \in Seq(Source) /\ sources' = Append(sources, e)
    BY <1>1 DEF Source, Inv, Subscribe
  <2> HIDE DEF e
  <2>2. /\ sources' \in Seq(Source) /\ Len(sources') = Len(sources) + 1 /\ Len(sources) \in Nat
        /\ \A j \in 1 .. Len(sources) : sources'[j] = sources[j]
    BY <2>1, AppendProperties, LenProperties
  <2>3. DOMAIN sources = 1 .. Len(sources) /\ DOMAIN sources' = 1 .. Len(sources')
    BY <2>1, <2>2, LenProperties
  <2> QED BY ONLY <2>2, <2>3, k \in DOMAIN sources
<1>2. CASE UNCHANGED sources
  BY <1>2
<1>3. 0 \in 0 .. MaxHandle
  BY StreamAssumption
<1> QED BY <1>1, <1>2, <1>3 DEF Next, NewInputStream, NewOutputStream, PushData, Read, CloseInput, Write,
                                Flush, CloseOutput, Splice

\* An input goes on having data, or being closed, until bytes are read from it.
InputStays(i) ==
    /\ i \in DOMAIN inputs'
    /\ \/ inputs'[i].bytesRead > inputs[i].bytesRead
       \/ /\ inputs[i].buffer # <<>> => inputs'[i].buffer # <<>>
          /\ inputs[i].closed => inputs'[i].closed

LEMMA InputsStay == ASSUME Inv, Next, NEW i \in DOMAIN inputs PROVE InputStays(i)
<1>t. inputs[i] \in InputType /\ inputs[i].bytesRead \in Nat /\ inputs[i].buffer \in Seq(Byte)
  BY DEF Inv, InputsOK, InputType
<1>1. CASE i \in DOMAIN inputs' /\ inputs'[i] = inputs[i]
  BY <1>1 DEF InputStays
<1>2. ASSUME NEW n \in 0 .. MaxBytes, NewInputStream(n)
      PROVE  i \in DOMAIN inputs' /\ inputs'[i] = inputs[i]
  <2>1. nextHandle \notin DOMAIN inputs
    BY DEF Inv, HandlesOK
  <2> QED BY <1>2, <2>1 DEF NewInputStream, Added
<1>3. ASSUME NEW j \in DOMAIN inputs, NEW n \in 1 .. MaxBytes, PushData(j, n) PROVE InputStays(i)
  <2>1. CASE i # j
    BY <1>3, <2>1 DEF PushData, InputStays
  <2>2. CASE i = j
    <3> DEFINE b == inputs[i].buffer \o Fresh(n)
    <3>1. Fresh(n) \in Seq(Byte)
      BY <1>3, FreshParts DEF PushData, Arrive, Inv, BytesOK
    <3>2. b = <<>> => inputs[i].buffer = <<>>
      BY <1>t, <3>1, ConcatEqualIffEmpty
    <3>3. inputs' = [inputs EXCEPT ![i] = [inputs[i] EXCEPT !.buffer = b]]
      BY <1>3, <2>2 DEF PushData
    <3> HIDE DEF b
    <3>4. i \in DOMAIN inputs' /\ inputs'[i].buffer = b /\ inputs'[i].closed = inputs[i].closed
      BY <1>t, <3>3 DEF InputType
    <3> QED BY <3>2, <3>4 DEF InputStays
  <2> QED BY <2>1, <2>2
<1>4. ASSUME NEW j \in DOMAIN inputs, NEW n \in 1 .. MaxBytes, Got(j, n) > 0,
             inputs' = [inputs EXCEPT ![j] = Drained(@, Got(j, n))]
      PROVE  InputStays(i)
  <2>1. CASE i # j
    BY <1>4, <2>1 DEF InputStays
  <2>2. CASE i = j
    <3>1. Got(i, n) \in 1 .. Len(inputs[i].buffer)
      BY <1>4, <1>t, <2>2, GotParts
    <3>2. inputs'[i] = Drained(inputs[i], Got(i, n))
      BY <1>4, <2>2
    <3>3. inputs'[i].bytesRead = inputs[i].bytesRead + Got(i, n)
      BY <1>t, <3>1, <3>2, DrainedParts
    <3>4. Got(i, n) \in Nat /\ Got(i, n) > 0
      BY <1>t, <3>1, LenProperties
    <3>5. inputs'[i].bytesRead > inputs[i].bytesRead
      BY ONLY <1>t, <3>3, <3>4
    <3> QED BY <1>4, <3>5 DEF InputStays
  <2> QED BY <2>1, <2>2
<1>5. ASSUME NEW j \in DOMAIN inputs, CloseInput(j) PROVE InputStays(i)
  <2>1. CASE i # j
    BY <1>5, <2>1 DEF CloseInput, InputStays
  <2>2. CASE i = j
    BY <1>5, <1>t, <2>2 DEF CloseInput, InputStays, InputType
  <2> QED BY <2>1, <2>2
<1>6. CASE UNCHANGED inputs
  BY <1>6, <1>1
<1> QED BY <1>1, <1>2, <1>3, <1>4, <1>5, <1>6
        DEF Next, NewOutputStream, Read, Write, Flush, CloseOutput, Splice, Subscribe

LEMMA OutputsStay == ASSUME Inv, Next PROVE DOMAIN outputs \subseteq DOMAIN outputs'
BY DEF Next, NewInputStream, NewOutputStream, Added, PushData, Read, CloseInput, Write, Flush, CloseOutput,
       Splice, Subscribe

\* A source that was ready is ready until its input is read or its output closed,
\* whatever happens to other streams between the poll and the read.
THEOREM ReadyStaysAlways == Spec => ReadyStays
<1> DEFINE Stays(k) ==
        \/ k \in Ready'
        \/ /\ sources[k].kind = "input"
           /\ inputs'[sources[k].handle].bytesRead > inputs[sources[k].handle].bytesRead
        \/ /\ sources[k].kind = "output"
           /\ outputs'[sources[k].handle].closed
<1>1. ASSUME Inv, Next, NEW k \in Ready PROVE Stays(k)
  <2>1. k \in DOMAIN sources' /\ sources'[k] = sources[k]
    BY <1>1, SourcesStay DEF Ready
  <2>2. CASE sources[k].kind = "input" /\ InputReady(sources[k].handle)
    <3>1. InputStays(sources[k].handle)
      BY <1>1, <2>2, InputsStay DEF InputReady
    <3> QED BY <2>1, <2>2, <3>1 DEF InputStays, InputReady, Ready
  <2>3. CASE sources[k].kind = "output" /\ OutputReady(sources[k].handle)
    BY <1>1, <2>1, <2>3, OutputsStay DEF OutputReady, Ready
  <2>4. CASE sources[k].kind = "timer"
    BY <2>1, <2>4 DEF Ready
  <2> QED BY <1>1, <2>2, <2>3, <2>4 DEF Ready
<1>2. Inv /\ [Next]_vars => [\A k \in Ready : Stays(k)]_vars
  BY <1>1
<1> QED BY <1>2, InvAlways, PTL DEF Spec, ReadyStays

-----------------------------------------------------------------------------
(***************************************************************************)
(* Where the bytes are.  A reader's bytes, then the buffer's, are in the   *)
(* order they came; what an output took of an input came before all that   *)
(* still waits there.                                                      *)
(***************************************************************************)

Rising(s) == \A j, k \in DOMAIN s : j < k => s[j] < s[k]
Ordered(s, f) == \A j, k \in DOMAIN s : j < k /\ f[s[j]] = f[s[k]] => s[j] < s[k]
Below(A, B) == \A a \in A, b \in B : a < b

InputBytes(i) ==
    /\ taken[i] \in Seq(Byte)
    /\ Rising(taken[i]) /\ Rising(inputs[i].buffer)
    /\ Below(ToSet(taken[i]), ToSet(inputs[i].buffer))
    /\ ToSet(taken[i]) \subseteq Arrived(i) /\ ToSet(inputs[i].buffer) \subseteq Arrived(i)

OutputBytes(o) ==
    /\ Ordered(Accepted(o), origin)
    /\ \A b \in ToSet(Accepted(o)) : b \in DOMAIN origin /\ origin[b] \in DOMAIN inputs \union {o}
    /\ \A i \in DOMAIN inputs :
           /\ Below(ToSet(Accepted(o)) \intersect Arrived(i), ToSet(inputs[i].buffer))
           /\ ToSet(Accepted(o)) \intersect ToSet(taken[i]) = {}

Apart(o, p) == ToSet(Accepted(o)) \intersect ToSet(Accepted(p)) = {}

BytesInv ==
    /\ \A i \in DOMAIN inputs : InputBytes(i)
    /\ \A o \in DOMAIN outputs : OutputBytes(o)
    /\ \A o, p \in DOMAIN outputs : o # p => Apart(o, p)

LEMMA ConcatSet ==
    ASSUME NEW s \in Seq(Byte), NEW t \in Seq(Byte)
    PROVE  ToSet(s \o t) = ToSet(s) \union ToSet(t)
<1> DEFINE c == s \o t
<1>1. /\ c \in Seq(Byte) /\ Len(c) = Len(s) + Len(t)
      /\ \A k \in 1 .. Len(s) + Len(t) : c[k] = IF k <= Len(s) THEN s[k] ELSE t[k - Len(s)]
  BY ConcatProperties
<1> HIDE DEF c
<1>2. /\ Len(s) \in Nat /\ Len(t) \in Nat
      /\ DOMAIN s = 1 .. Len(s) /\ DOMAIN t = 1 .. Len(t) /\ DOMAIN c = 1 .. Len(s) + Len(t)
  BY <1>1, LenProperties
<1>3. ASSUME NEW k \in DOMAIN c PROVE c[k] \in ToSet(s) \union ToSet(t)
  <2>1. CASE k <= Len(s)
    <3>1. k \in DOMAIN s /\ c[k] = s[k]
      BY <1>1, <1>2, <2>1
    <3> QED BY ONLY <3>1 DEF ToSet
  <2>2. CASE k > Len(s)
    <3>1. k - Len(s) \in DOMAIN t /\ c[k] = t[k - Len(s)]
      BY <1>1, <1>2, <2>2
    <3> QED BY ONLY <3>1 DEF ToSet
  <2> QED BY <1>2, <2>1, <2>2
<1>7. ToSet(c) \subseteq ToSet(s) \union ToSet(t)
  <2> DEFINE U == ToSet(s) \union ToSet(t)
  <2>1. \A k \in DOMAIN c : c[k] \in U
    BY <1>3
  <2> HIDE DEF U
  <2>2. ToSet(c) \subseteq U
    BY ONLY <2>1 DEF ToSet
  <2> QED BY <2>2 DEF U
<1>4. ToSet(s) \subseteq ToSet(c)
  BY ONLY <1>1, <1>2 DEF ToSet
<1>5. ASSUME NEW k \in DOMAIN t PROVE t[k] \in ToSet(c)
  <2>1. k + Len(s) \in DOMAIN c /\ c[k + Len(s)] = t[k]
    BY <1>1, <1>2
  <2> QED BY ONLY <2>1 DEF ToSet
<1>6. ToSet(t) \subseteq ToSet(c)
  BY <1>5 DEF ToSet
<1> QED BY <1>4, <1>6, <1>7 DEF c

\* The order of a sequence that is put behind another.
LEMMA ConcatOrder ==
    ASSUME NEW s \in Seq(Byte), NEW t \in Seq(Byte), NEW f
    PROVE  /\ Rising(s) /\ Rising(t) /\ Below(ToSet(s), ToSet(t)) => Rising(s \o t)
           /\ /\ Ordered(s, f) /\ Ordered(t, f)
              /\ \A a \in ToSet(s), b \in ToSet(t) : f[a] = f[b] => a < b
              => Ordered(s \o t, f)
<1> DEFINE c == s \o t
<1>1. /\ c \in Seq(Byte) /\ Len(c) = Len(s) + Len(t)
      /\ \A k \in 1 .. Len(s) + Len(t) : c[k] = IF k <= Len(s) THEN s[k] ELSE t[k - Len(s)]
  BY ConcatProperties
<1> HIDE DEF c
<1>2. /\ Len(s) \in Nat /\ Len(t) \in Nat
      /\ DOMAIN s = 1 .. Len(s) /\ DOMAIN t = 1 .. Len(t) /\ DOMAIN c = 1 .. Len(s) + Len(t)
  BY <1>1, LenProperties
<1>3. ASSUME NEW j \in DOMAIN c, NEW k \in DOMAIN c, j < k
      PROVE  \/ j \in DOMAIN s /\ k \in DOMAIN s /\ c[j] = s[j] /\ c[k] = s[k]
             \/ c[j] \in ToSet(s) /\ c[k] \in ToSet(t)
             \/ \E m, n \in DOMAIN t : m < n /\ c[j] = t[m] /\ c[k] = t[n]
  <2>1. CASE k <= Len(s)
    BY <1>1, <1>2, <1>3, <2>1
  <2>2. CASE j <= Len(s) /\ k > Len(s)
    <3>1. j \in DOMAIN s /\ k - Len(s) \in DOMAIN t /\ c[j] = s[j] /\ c[k] = t[k - Len(s)]
      BY <1>1, <1>2, <1>3, <2>2
    <3> QED BY ONLY <3>1 DEF ToSet
  <2>3. CASE j > Len(s)
    <3>1. /\ j - Len(s) \in DOMAIN t /\ k - Len(s) \in DOMAIN t /\ j - Len(s) < k - Len(s)
          /\ c[j] = t[j - Len(s)] /\ c[k] = t[k - Len(s)]
      BY <1>1, <1>2, <1>3, <2>3
    <3> QED BY ONLY <3>1
  <2> QED BY <1>2, <1>3, <2>1, <2>2, <2>3
<1>4. ASSUME Rising(s), Rising(t), Below(ToSet(s), ToSet(t)) PROVE Rising(c)
  BY <1>3, <1>4 DEF Rising, Below
<1>5. ASSUME Ordered(s, f), Ordered(t, f),
             \A a \in ToSet(s), b \in ToSet(t) : f[a] = f[b] => a < b
      PROVE  Ordered(c, f)
  BY <1>3, <1>5 DEF Ordered
<1> QED BY <1>4, <1>5 DEF c

\* What is taken from the front of a buffer, and what it leaves.
LEMMA SplitParts ==
    ASSUME NEW s \in Seq(Byte), Rising(s), NEW n \in 1 .. Len(s)
    PROVE  LET got == SubSeq(s, 1, n)
               left == SubSeq(s, n + 1, Len(s))
           IN /\ got \in Seq(Byte) /\ left \in Seq(Byte)
              /\ Rising(got) /\ Rising(left) /\ Below(ToSet(got), ToSet(left))
              /\ ToSet(got) \subseteq ToSet(s) /\ ToSet(left) \subseteq ToSet(s)
<1> DEFINE got == SubSeq(s, 1, n)
           left == SubSeq(s, n + 1, Len(s))
<1>1. Len(s) \in Nat /\ DOMAIN s = 1 .. Len(s) /\ \A k \in 1 .. Len(s) : s[k] \in Byte
  BY LenProperties
<1>2. got \in Seq(Byte) /\ Len(got) = n /\ \A k \in 1 .. n : got[k] = s[k]
  <2>1. \A k \in 1 .. n : s[k] \in Byte
    BY <1>1
  <2>2. /\ got \in Seq(Byte) /\ Len(got) = IF 1 <= n THEN n - 1 + 1 ELSE 0
        /\ \A k \in 1 .. n - 1 + 1 : got[k] = s[1 + k - 1]
    BY <1>1, <2>1, SubSeqProperties
  <2> HIDE DEF got
  <2> QED BY <1>1, <2>2
<1>3. /\ left \in Seq(Byte) /\ Len(left) = Len(s) - n
      /\ \A k \in 1 .. Len(s) - n : left[k] = s[n + k]
  <2>1. \A k \in n + 1 .. Len(s) : s[k] \in Byte
    BY <1>1
  <2>2. /\ left \in Seq(Byte) /\ Len(left) = IF n + 1 <= Len(s) THEN Len(s) - (n + 1) + 1 ELSE 0
        /\ \A k \in 1 .. Len(s) - (n + 1) + 1 : left[k] = s[n + 1 + k - 1]
    BY <1>1, <2>1, SubSeqProperties
  <2> HIDE DEF left
  <2>3. Len(left) = Len(s) - n
    <3>1. Len(left) = IF n + 1 <= Len(s) THEN Len(s) - (n + 1) + 1 ELSE 0
      BY <2>2
    <3>2. Len(s) \in Nat /\ n \in Nat /\ n <= Len(s)
      BY <1>1
    <3>3. (IF n + 1 <= Len(s) THEN Len(s) - (n + 1) + 1 ELSE 0) = Len(s) - n
      BY ONLY <3>2
    <3> QED BY ONLY <3>1, <3>3
  <2>4. ASSUME NEW k \in 1 .. Len(s) - n PROVE left[k] = s[n + k]
    <3>1. k \in 1 .. Len(s) - (n + 1) + 1 /\ n + 1 + k - 1 = n + k
      BY <1>1
    <3> QED BY <2>2, <3>1
  <2> QED BY <2>2, <2>3, <2>4
<1> HIDE DEF got, left
<1>4. DOMAIN got = 1 .. n /\ DOMAIN left = 1 .. Len(s) - n
  BY <1>1, <1>2, <1>3, LenProperties
<1>5. Rising(got) /\ ToSet(got) \subseteq ToSet(s)
  BY <1>1, <1>2, <1>4 DEF Rising, ToSet
<1>6. Rising(left)
  <2> SUFFICES ASSUME NEW j \in DOMAIN left, NEW k \in DOMAIN left, j < k PROVE left[j] < left[k]
    BY DEF Rising
  <2>1. n + j \in DOMAIN s /\ n + k \in DOMAIN s /\ n + j < n + k
    BY <1>1, <1>4
  <2>2. left[j] = s[n + j] /\ left[k] = s[n + k]
    BY <1>3, <1>4
  <2> QED BY <2>1, <2>2 DEF Rising
<1>7. ASSUME NEW k \in DOMAIN left PROVE n + k \in DOMAIN s /\ left[k] = s[n + k] /\ n < n + k
  BY <1>1, <1>3, <1>4
<1>8. ToSet(left) \subseteq ToSet(s)
  BY <1>7 DEF ToSet
<1>9. Below(ToSet(got), ToSet(left))
  <2> SUFFICES ASSUME NEW j \in DOMAIN got, NEW k \in DOMAIN left PROVE got[j] < left[k]
    BY DEF Below, ToSet
  <2>1. j \in DOMAIN s /\ got[j] = s[j] /\ j < n + k
    BY <1>1, <1>2, <1>4
  <2> QED BY <1>7, <2>1 DEF Rising
<1> QED BY <1>2, <1>3, <1>5, <1>6, <1>8, <1>9 DEF got, left

\* New bytes come after all others, and all from one stream.
LEMMA FreshBytes ==
    ASSUME Inv, NEW h \in 0 .. MaxHandle, NEW n \in Nat, Arrive(n, h)
    PROVE  /\ Fresh(n) \in Seq(Byte) /\ Rising(Fresh(n))
           /\ Below(DOMAIN origin, ToSet(Fresh(n)))
           /\ ToSet(Fresh(n)) \intersect DOMAIN origin = {}
           /\ DOMAIN origin \subseteq DOMAIN origin'
           /\ \A b \in DOMAIN origin : origin'[b] = origin[b]
           /\ \A b \in ToSet(Fresh(n)) : b \in DOMAIN origin' /\ origin'[b] = h
           /\ \A i : Arrived(i)' = Arrived(i) \union (IF i = h THEN ToSet(Fresh(n)) ELSE {})
<1> DEFINE more == [k \in 1 .. n |-> h]
<1>1. origin \in Seq(0 .. MaxHandle) /\ Len(origin) \in Nat /\ DOMAIN origin = 1 .. Len(origin)
  BY LenProperties DEF Inv, BytesOK
<1>2. Fresh(n) \in Seq(Byte) /\ Len(Fresh(n)) = n /\ DOMAIN Fresh(n) = 1 .. n
  BY FreshParts, LenProperties DEF Inv, BytesOK, Arrive
<1>3. ToSet(Fresh(n)) = Len(origin) + 1 .. Len(origin) + n
  <2>1. \A k \in 1 .. n : Fresh(n)[k] = Len(origin) + k
    BY DEF Fresh
  <2>2. ToSet(Fresh(n)) = {Len(origin) + k : k \in 1 .. n}
    BY <1>2, <2>1 DEF ToSet
  <2>3. ASSUME NEW b \in Len(origin) + 1 .. Len(origin) + n PROVE b \in {Len(origin) + k : k \in 1 .. n}
    <3>1. b - Len(origin) \in 1 .. n /\ b = Len(origin) + (b - Len(origin))
      BY <1>1
    <3> QED BY <3>1
  <2>4. \A k \in 1 .. n : Len(origin) + k \in Len(origin) + 1 .. Len(origin) + n
    BY <1>1
  <2> QED BY <2>2, <2>3, <2>4
<1>4. Rising(Fresh(n))
  BY <1>1, <1>2 DEF Fresh, Rising
<1>5. more \in Seq(0 .. MaxHandle) /\ Len(more) = n
  <2>1. more \in [1 .. n -> 0 .. MaxHandle]
    OBVIOUS
  <2> QED BY <2>1, CountedIsSeq
<1>6. /\ origin' \in Seq(0 .. MaxHandle) /\ Len(origin') = Len(origin) + n
      /\ \A k \in 1 .. Len(origin) + n :
             origin'[k] = IF k <= Len(origin) THEN origin[k] ELSE more[k - Len(origin)]
  <2>1. origin' = origin \o more
    BY DEF Arrive
  <2> HIDE DEF more
  <2> QED BY <1>1, <1>5, <2>1, ConcatProperties
<1>7. DOMAIN origin' = 1 .. Len(origin) + n
  BY <1>6, LenProperties
<1>8. /\ DOMAIN origin' = DOMAIN origin \union ToSet(Fresh(n))
      /\ DOMAIN origin \intersect ToSet(Fresh(n)) = {}
      /\ \A b \in DOMAIN origin : origin'[b] = origin[b]
      /\ \A b \in ToSet(Fresh(n)) : origin'[b] = h
  BY <1>1, <1>3, <1>6, <1>7
<1>9. Below(DOMAIN origin, ToSet(Fresh(n)))
  BY <1>1, <1>3 DEF Below
<1>10. ASSUME NEW i PROVE Arrived(i)' = Arrived(i) \union (IF i = h THEN ToSet(Fresh(n)) ELSE {})
  BY <1>8 DEF Arrived
<1> QED BY <1>2, <1>4, <1>8, <1>9, <1>10

-----------------------------------------------------------------------------
(***************************************************************************)
(* No operation disturbs the bytes.                                        *)
(***************************************************************************)

Acc(s) == s.flushed \o s.buffer

LEMMA AccParts ==
    ASSUME NEW s \in OutputType
    PROVE  /\ Acc(s) \in Seq(Byte)
           /\ \A data \in Seq(Byte) :
                  Acc(Written(s, data)) = IF s.closed THEN Acc(s) ELSE Acc(s) \o data
           /\ Acc(Flushed(s)) = Acc(s)
           /\ Acc([Flushed(s) EXCEPT !.closed = TRUE]) = Acc(s)
<1>1. s.flushed \in Seq(Byte) /\ s.buffer \in Seq(Byte)
  BY DEF OutputType
<1>2. Acc(s) \in Seq(Byte)
  BY <1>1, ConcatProperties DEF Acc
<1>3. ASSUME NEW data \in Seq(Byte)
      PROVE  Acc(Written(s, data)) = IF s.closed THEN Acc(s) ELSE Acc(s) \o data
  <2>1. CASE s.closed
    BY <2>1 DEF Written
  <2>2. CASE ~ s.closed
    <3>1. /\ Written(s, data).flushed = s.flushed
          /\ Written(s, data).buffer = s.buffer \o data
      BY <2>2 DEF Written, OutputType
    <3>2. (s.flushed \o s.buffer) \o data = s.flushed \o (s.buffer \o data)
      <4>1. \A a, b, c \in Seq(Byte) : (a \o b) \o c = a \o (b \o c)
        BY ConcatAssociative
      <4> QED BY ONLY <1>1, <4>1, data \in Seq(Byte)
    <3>3. Acc(Written(s, data)) = s.flushed \o (s.buffer \o data)
      BY ONLY <3>1 DEF Acc
    <3> QED BY <2>2, <3>2, <3>3 DEF Acc
  <2> QED BY <2>1, <2>2
<1>4. Acc(Flushed(s)) = Acc(s)
  <2>1. CASE s.closed
    BY <2>1 DEF Flushed
  <2>2. CASE ~ s.closed
    <3> DEFINE a == s.flushed \o s.buffer
    <3>1. a \in Seq(Byte) /\ a \o <<>> = a
      BY <1>1, ConcatProperties, ConcatEmptySeq
    <3>2. Flushed(s) = [s EXCEPT !.flushed = a, !.buffer = <<>>]
      BY <2>2 DEF Flushed
    <3> HIDE DEF a
    <3>3. Flushed(s).flushed = a /\ Flushed(s).buffer = <<>>
      BY <3>2 DEF OutputType
    <3>4. Acc(Flushed(s)) = a \o <<>>
      BY ONLY <3>3 DEF Acc
    <3> QED BY <3>1, <3>4 DEF a, Acc
  <2> QED BY <2>1, <2>2
<1>5. Acc([Flushed(s) EXCEPT !.closed = TRUE]) = Acc(Flushed(s))
  <2> DEFINE f == Flushed(s)
             w == [f EXCEPT !.closed = TRUE]
  <2>1. f = s \/ f = [s EXCEPT !.flushed = s.flushed \o s.buffer, !.buffer = <<>>]
    BY DEF Flushed
  <2>2. {"flushed", "buffer", "closed"} \subseteq DOMAIN f
    BY <2>1 DEF OutputType
  <2> HIDE DEF f
  <2>3. w.flushed = f.flushed /\ w.buffer = f.buffer
    BY <2>2
  <2> HIDE DEF w
  <2>4. Acc(w) = Acc(f)
    BY ONLY <2>3 DEF Acc
  <2> QED BY <2>4 DEF w, f
<1> QED BY <1>2, <1>3, <1>4, <1>5

LEMMA AcceptedIsAcc == \A o : Accepted(o) = Acc(outputs[o])
BY DEF Accepted, Acc

\* A step that leaves buffers, readers, what was accepted and the origins alone.
LEMMA SameBytes ==
    ASSUME BytesInv, UNCHANGED <<origin, taken>>,
           DOMAIN inputs' = DOMAIN inputs, DOMAIN outputs' = DOMAIN outputs,
           \A i \in DOMAIN inputs : inputs'[i].buffer = inputs[i].buffer,
           \A o \in DOMAIN outputs : Acc(outputs'[o]) = Acc(outputs[o])
    PROVE  BytesInv'
<1>1. \A o \in DOMAIN outputs : Accepted(o)' = Accepted(o)
  BY DEF Accepted, Acc
<1>2. \A i : Arrived(i)' = Arrived(i)
  BY DEF Arrived
<1>3. \A i \in DOMAIN inputs : InputBytes(i)'
  BY <1>2 DEF BytesInv, InputBytes
<1>4. \A o \in DOMAIN outputs : OutputBytes(o)'
  BY <1>1, <1>2 DEF BytesInv, OutputBytes
<1>5. \A o, p \in DOMAIN outputs : o # p => Apart(o, p)'
  BY <1>1 DEF BytesInv, Apart
<1> QED BY <1>3, <1>4, <1>5 DEF BytesInv

\* Taking the front of an input's buffer: what is left still comes after all that
\* readers and outputs have.
LEMMA DrainedBytes ==
    ASSUME Inv, BytesInv, NEW i \in DOMAIN inputs, NEW n \in 1 .. MaxBytes, Got(i, n) > 0,
           inputs' = [inputs EXCEPT ![i] = Drained(@, Got(i, n))],
           NEW got, got = SubSeq(inputs[i].buffer, 1, Got(i, n))
    PROVE  /\ got \in Seq(Byte) /\ Rising(got)
           /\ ToSet(got) \subseteq ToSet(inputs[i].buffer)
           /\ DOMAIN inputs' = DOMAIN inputs
           /\ Rising(inputs'[i].buffer)
           /\ Below(ToSet(got), ToSet(inputs'[i].buffer))
           /\ ToSet(inputs'[i].buffer) \subseteq ToSet(inputs[i].buffer)
           /\ \A j \in DOMAIN inputs \ {i} : inputs'[j] = inputs[j]
<1> DEFINE g == Got(i, n)
           s == inputs[i].buffer
           left == SubSeq(s, g + 1, Len(s))
<1>1. inputs[i] \in InputType /\ s \in Seq(Byte) /\ Rising(s)
  BY DEF Inv, InputsOK, InputType, BytesInv, InputBytes
<1>2. g \in 1 .. Len(s)
  BY <1>1, GotParts
<1>3. /\ got \in Seq(Byte) /\ left \in Seq(Byte)
      /\ Rising(got) /\ Rising(left) /\ Below(ToSet(got), ToSet(left))
      /\ ToSet(got) \subseteq ToSet(s) /\ ToSet(left) \subseteq ToSet(s)
  <2> HIDE DEF g, s
  <2>1. got = SubSeq(s, 1, g)
    BY DEF g, s
  <2> QED BY <1>1, <1>2, <2>1, SplitParts
<1>4. inputs'[i] = Drained(inputs[i], g)
  OBVIOUS
<1>5. inputs'[i].buffer = left
  <2>1. Drained(inputs[i], g) = [inputs[i] EXCEPT !.buffer = left, !.bytesRead = inputs[i].bytesRead + g]
    BY DEF Drained
  <2> HIDE DEF left, g
  <2> QED BY <1>1, <1>4, <2>1 DEF InputType
<1>7. DOMAIN inputs' = DOMAIN inputs /\ \A j \in DOMAIN inputs \ {i} : inputs'[j] = inputs[j]
  OBVIOUS
<1> HIDE DEF left, s
<1> QED BY <1>3, <1>5, <1>7 DEF s

LEMMA ReadBytes ==
    ASSUME Inv, BytesInv, NEW i \in DOMAIN inputs, NEW n \in 1 .. MaxBytes, Read(i, n)
    PROVE  BytesInv'
<1> DEFINE b == inputs'[i].buffer
<1>0. PICK got : got = SubSeq(inputs[i].buffer, 1, Got(i, n))
  OBVIOUS
<1>1. /\ got \in Seq(Byte) /\ Rising(got)
      /\ ToSet(got) \subseteq ToSet(inputs[i].buffer)
      /\ DOMAIN inputs' = DOMAIN inputs
      /\ Rising(b) /\ Below(ToSet(got), ToSet(b))
      /\ ToSet(b) \subseteq ToSet(inputs[i].buffer)
      /\ \A j \in DOMAIN inputs \ {i} : inputs'[j] = inputs[j]
  BY <1>0, DrainedBytes DEF Read
<1>2. /\ UNCHANGED <<outputs, origin>> /\ DOMAIN taken' = DOMAIN taken
      /\ \A j \in DOMAIN inputs \ {i} : taken'[j] = taken[j]
      /\ taken'[i] = taken[i] \o got
  BY <1>0 DEF Read, Inv, InputsOK
<1>3. InputBytes(i) /\ taken[i] \in Seq(Byte)
  BY DEF BytesInv, InputBytes
<1>4. taken'[i] \in Seq(Byte) /\ ToSet(taken'[i]) = ToSet(taken[i]) \union ToSet(got)
  BY <1>1, <1>2, <1>3, ConcatSet, ConcatProperties
<1>5. Rising(taken'[i])
  <2>1. Below(ToSet(taken[i]), ToSet(got))
    BY <1>1, <1>3 DEF InputBytes, Below
  <2> QED BY <1>1, <1>2, <1>3, <2>1, ConcatOrder DEF InputBytes
<1>6. \A j : Arrived(j)' = Arrived(j)
  BY <1>2 DEF Arrived
<1>7. \A o \in DOMAIN outputs : Accepted(o)' = Accepted(o)
  BY <1>2 DEF Accepted
<1>8. InputBytes(i)'
  <2>1. Below(ToSet(taken'[i]), ToSet(b))
    BY <1>1, <1>3, <1>4 DEF InputBytes, Below
  <2>2. ToSet(taken'[i]) \subseteq Arrived(i)' /\ ToSet(b) \subseteq Arrived(i)'
    BY <1>1, <1>3, <1>4, <1>6 DEF InputBytes
  <2> QED BY <1>1, <1>4, <1>5, <2>1, <2>2 DEF InputBytes
<1>9. \A j \in DOMAIN inputs \ {i} : InputBytes(j)'
  BY <1>1, <1>2, <1>6 DEF BytesInv, InputBytes
<1>10. ASSUME NEW o \in DOMAIN outputs PROVE OutputBytes(o)'
  <2>1. OutputBytes(o)
    BY DEF BytesInv
  <2>2. Below(ToSet(Accepted(o)) \intersect Arrived(i), ToSet(b))
    BY <1>1, <2>1 DEF OutputBytes, Below
  <2>3. ToSet(Accepted(o)) \intersect ToSet(taken'[i]) = {}
    <3>1. ASSUME NEW x \in ToSet(got), x \in ToSet(Accepted(o)) PROVE FALSE
      <4>1. x \in Arrived(i) /\ x \in ToSet(inputs[i].buffer) /\ x \in Nat
        BY <1>1, <1>3, <3>1 DEF InputBytes, Arrived, Inv, BytesOK
      <4>2. x < x
        BY <2>1, <3>1, <4>1 DEF OutputBytes, Below
      <4> QED BY <4>1, <4>2
    <3> QED BY <1>4, <2>1, <3>1 DEF OutputBytes
  <2>4. \A j \in DOMAIN inputs' :
            /\ Below(ToSet(Accepted(o)) \intersect Arrived(j), ToSet(inputs'[j].buffer))
            /\ ToSet(Accepted(o)) \intersect ToSet(taken'[j]) = {}
    BY <1>1, <1>2, <2>1, <2>2, <2>3 DEF OutputBytes
  <2> QED BY <1>1, <1>2, <1>6, <1>7, <2>1, <2>4 DEF OutputBytes
<1>11. \A o, p \in DOMAIN outputs : o # p => Apart(o, p)'
  BY <1>7 DEF BytesInv, Apart
<1> QED BY <1>1, <1>2, <1>8, <1>9, <1>10, <1>11 DEF BytesInv

LEMMA SpliceBytes ==
    ASSUME Inv, BytesInv, NEW i \in DOMAIN inputs, NEW o \in DOMAIN outputs, NEW n \in 1 .. MaxBytes,
           Splice(i, o, n)
    PROVE  BytesInv'
<1> DEFINE b == inputs'[i].buffer
<1>0. PICK got : got = SubSeq(inputs[i].buffer, 1, Got(i, n))
  OBVIOUS
<1>1. /\ got \in Seq(Byte) /\ Rising(got)
      /\ ToSet(got) \subseteq ToSet(inputs[i].buffer)
      /\ DOMAIN inputs' = DOMAIN inputs
      /\ Rising(b) /\ Below(ToSet(got), ToSet(b))
      /\ ToSet(b) \subseteq ToSet(inputs[i].buffer)
      /\ \A j \in DOMAIN inputs \ {i} : inputs'[j] = inputs[j]
  BY <1>0, DrainedBytes DEF Splice
<1>2. UNCHANGED <<origin, taken>> /\ outputs' = [outputs EXCEPT ![o] = Written(outputs[o], got)]
  BY <1>0 DEF Splice
<1>3. /\ InputBytes(i) /\ OutputBytes(o)
      /\ outputs[o] \in OutputType /\ Accepted(o) \in Seq(Byte)
  BY AccParts, AcceptedIsAcc DEF BytesInv, Inv, OutputsOK
<1>4. \A j : Arrived(j)' = Arrived(j)
  BY <1>2 DEF Arrived
<1>5. /\ DOMAIN outputs' = DOMAIN outputs
      /\ \A p \in DOMAIN outputs \ {o} : Accepted(p)' = Accepted(p)
      /\ Accepted(o)' = Accepted(o) \/ Accepted(o)' = Accepted(o) \o got
  <2>1. outputs'[o] = Written(outputs[o], got)
    BY <1>2
  <2>2. Acc(outputs'[o]) \in {Acc(outputs[o]), Acc(outputs[o]) \o got}
    <3>1. Acc(Written(outputs[o], got))
              = IF outputs[o].closed THEN Acc(outputs[o]) ELSE Acc(outputs[o]) \o got
      BY <1>1, <1>3, AccParts
    <3>2. Acc(outputs'[o]) = Acc(Written(outputs[o], got))
      BY <2>1
    <3> QED BY ONLY <3>1, <3>2
  <2>3. Accepted(o)' = Acc(outputs'[o]) /\ Accepted(o) = Acc(outputs[o])
    BY DEF Accepted, Acc
  <2> QED BY <1>2, <2>2, <2>3 DEF Accepted
<1>6. ToSet(Accepted(o))' \in {ToSet(Accepted(o)), ToSet(Accepted(o)) \union ToSet(got)}
  BY <1>1, <1>3, <1>5, ConcatSet
<1>7. \A j \in DOMAIN inputs : InputBytes(j)'
  <2>1. InputBytes(i)'
    BY <1>1, <1>2, <1>3, <1>4 DEF InputBytes, Below
  <2>2. \A j \in DOMAIN inputs \ {i} : InputBytes(j)'
    BY <1>1, <1>2, <1>4 DEF BytesInv, InputBytes
  <2> QED BY <2>1, <2>2
<1>8. \A x \in ToSet(got) : /\ x \in ToSet(inputs[i].buffer) /\ x \in Arrived(i)
                            /\ x \in DOMAIN origin /\ origin[x] = i /\ x \in Nat
  BY <1>1, <1>3 DEF InputBytes, Arrived, Inv, BytesOK
<1>9. Ordered(Accepted(o), origin)'
  <2>1. \A x \in ToSet(Accepted(o)), y \in ToSet(got) : origin[x] = origin[y] => x < y
    BY <1>3, <1>8 DEF OutputBytes, Below, Arrived
  <2>2. Ordered(got, origin)
    BY <1>1 DEF Rising, Ordered
  <2>3. Ordered(Accepted(o) \o got, origin)
    BY <1>1, <1>3, <2>1, <2>2, ConcatOrder DEF OutputBytes
  <2> QED BY <1>2, <1>3, <1>5, <2>3 DEF OutputBytes
<1>10. OutputBytes(o)'
  <2>1. \A x \in ToSet(Accepted(o))' : x \in DOMAIN origin /\ origin[x] \in DOMAIN inputs \union {o}
    BY <1>3, <1>6, <1>8 DEF OutputBytes
  <2>2. /\ Below(ToSet(Accepted(o))' \intersect Arrived(i), ToSet(b))
        /\ ToSet(Accepted(o))' \intersect ToSet(taken[i]) = {}
    <3>1. Below(ToSet(Accepted(o)) \intersect Arrived(i), ToSet(b))
      BY <1>1, <1>3 DEF OutputBytes, Below
    <3>2. Below(ToSet(Accepted(o))' \intersect Arrived(i), ToSet(b))
      BY <1>1, <1>6, <3>1 DEF Below
    <3>3. ASSUME NEW x \in ToSet(got), x \in ToSet(taken[i]) PROVE FALSE
      <4>1. x < x /\ x \in Nat
        BY <1>3, <1>8, <3>3 DEF InputBytes, Below
      <4> QED BY <4>1
    <3> QED BY <1>3, <1>6, <3>2, <3>3 DEF OutputBytes
  <2>3. ASSUME NEW j \in DOMAIN inputs \ {i}
        PROVE  /\ Below(ToSet(Accepted(o))' \intersect Arrived(j), ToSet(inputs'[j].buffer))
               /\ ToSet(Accepted(o))' \intersect ToSet(taken[j]) = {}
    <3>1. ToSet(got) \intersect Arrived(j) = {} /\ ToSet(got) \intersect ToSet(taken[j]) = {}
      BY <1>8 DEF Arrived, BytesInv, InputBytes
    <3> QED BY <1>1, <1>3, <1>6, <3>1 DEF OutputBytes, Below
  <2> QED BY <1>1, <1>2, <1>4, <1>9, <2>1, <2>2, <2>3 DEF OutputBytes
<1>11. ASSUME NEW p \in DOMAIN outputs \ {o} PROVE OutputBytes(p)' /\ Apart(o, p)' /\ Apart(p, o)'
  <2>1. OutputBytes(p) /\ Apart(o, p) /\ Accepted(p)' = Accepted(p)
    BY <1>5 DEF BytesInv
  <2>2. Below(ToSet(Accepted(p)) \intersect Arrived(i), ToSet(b))
    BY <1>1, <2>1 DEF OutputBytes, Below
  <2>3. OutputBytes(p)'
    BY <1>1, <1>2, <1>4, <2>1, <2>2 DEF OutputBytes
  <2>4. ASSUME NEW x \in ToSet(got), x \in ToSet(Accepted(p)) PROVE FALSE
    <3>1. x < x /\ x \in Nat
      BY <1>8, <2>1, <2>4 DEF OutputBytes, Below
    <3> QED BY <3>1
  <2>5. ToSet(Accepted(o))' \intersect ToSet(Accepted(p))' = {}
    BY <1>6, <2>1, <2>4 DEF Apart
  <2> QED BY <2>3, <2>5 DEF Apart
<1>12. \A p, q \in DOMAIN outputs \ {o} : p # q => Apart(p, q)'
  BY <1>5 DEF BytesInv, Apart
<1> QED BY <1>1, <1>5, <1>7, <1>10, <1>11, <1>12 DEF BytesInv

\* Bytes that are in a place have come to a stream that was made.
LEMMA PlacedBytes ==
    ASSUME Inv, BytesInv
    PROVE  /\ \A i \in DOMAIN inputs : /\ ToSet(taken[i]) \subseteq DOMAIN origin
                                       /\ ToSet(inputs[i].buffer) \subseteq DOMAIN origin
           /\ \A o \in DOMAIN outputs : ToSet(Accepted(o)) \subseteq DOMAIN origin
BY DEF BytesInv, InputBytes, OutputBytes, Arrived

\* What was there when new bytes came for stream h, and what the new bytes are not.
LEMMA OldKept ==
    ASSUME Inv, BytesInv, NEW h \in 0 .. MaxHandle, NEW n \in Nat, Arrive(n, h), NEW o \in DOMAIN outputs
    PROVE  /\ Ordered(Accepted(o), origin')
           /\ \A b \in ToSet(Accepted(o)) :
                  b \in DOMAIN origin' /\ origin'[b] \in DOMAIN inputs \union {o}
           /\ \A i : ToSet(Accepted(o)) \intersect Arrived(i)' = ToSet(Accepted(o)) \intersect Arrived(i)
           /\ ToSet(Accepted(o)) \intersect ToSet(Fresh(n)) = {}
<1>1. OutputBytes(o) /\ ToSet(Accepted(o)) \subseteq DOMAIN origin
  BY PlacedBytes DEF BytesInv
<1>2. /\ DOMAIN origin \subseteq DOMAIN origin'
      /\ \A b \in DOMAIN origin : origin'[b] = origin[b]
      /\ ToSet(Fresh(n)) \intersect DOMAIN origin = {}
      /\ \A i : Arrived(i)' = Arrived(i) \union (IF i = h THEN ToSet(Fresh(n)) ELSE {})
  BY FreshBytes
<1>3. \A k \in DOMAIN Accepted(o) : Accepted(o)[k] \in DOMAIN origin
  BY <1>1 DEF ToSet
<1>4. Ordered(Accepted(o), origin')
  BY <1>1, <1>2, <1>3 DEF OutputBytes, Ordered
<1>5. \A b \in ToSet(Accepted(o)) : b \in DOMAIN origin' /\ origin'[b] \in DOMAIN inputs \union {o}
  BY <1>1, <1>2 DEF OutputBytes
<1>6. ToSet(Accepted(o)) \intersect ToSet(Fresh(n)) = {}
  BY <1>1, <1>2
<1>7. ASSUME NEW i
      PROVE  ToSet(Accepted(o)) \intersect Arrived(i)' = ToSet(Accepted(o)) \intersect Arrived(i)
  BY <1>2, <1>6
<1> QED BY <1>4, <1>5, <1>6, <1>7

LEMMA PushBytes ==
    ASSUME Inv, BytesInv, NEW i \in DOMAIN inputs, NEW n \in 1 .. MaxBytes, PushData(i, n)
    PROVE  BytesInv'
<1>1. i \in 0 .. MaxHandle /\ n \in Nat /\ Arrive(n, i) /\ UNCHANGED <<outputs, taken>>
  BY HandleOfStream DEF PushData
<1>2. PICK new : new = Fresh(n)
  OBVIOUS
<1>3. /\ new \in Seq(Byte) /\ Rising(new) /\ Below(DOMAIN origin, ToSet(new))
      /\ \A j : Arrived(j)' = Arrived(j) \union (IF j = i THEN ToSet(new) ELSE {})
  BY <1>1, <1>2, FreshBytes
<1>4. inputs[i] \in InputType /\ inputs[i].buffer \in Seq(Byte) /\ InputBytes(i)
  BY DEF Inv, InputsOK, InputType, BytesInv
<1>5. /\ DOMAIN inputs' = DOMAIN inputs /\ \A j \in DOMAIN inputs \ {i} : inputs'[j] = inputs[j]
      /\ inputs'[i].buffer = inputs[i].buffer \o new
  BY <1>2, <1>4 DEF PushData, InputType
<1>6. ToSet(inputs'[i].buffer) = ToSet(inputs[i].buffer) \union ToSet(new)
  BY <1>3, <1>4, <1>5, ConcatSet
<1>7. /\ ToSet(taken[i]) \subseteq DOMAIN origin /\ ToSet(inputs[i].buffer) \subseteq DOMAIN origin
  BY PlacedBytes
<1>8. Rising(inputs'[i].buffer)
  <2>1. Below(ToSet(inputs[i].buffer), ToSet(new))
    BY <1>3, <1>7 DEF Below
  <2> QED BY <1>3, <1>4, <1>5, <2>1, ConcatOrder DEF InputBytes
<1>9. InputBytes(i)'
  <2>1. Below(ToSet(taken[i]), ToSet(inputs'[i].buffer))
    BY <1>3, <1>4, <1>6, <1>7 DEF InputBytes, Below
  <2>2. ToSet(taken[i]) \subseteq Arrived(i)' /\ ToSet(inputs'[i].buffer) \subseteq Arrived(i)'
    BY <1>3, <1>4, <1>6 DEF InputBytes
  <2> QED BY <1>1, <1>4, <1>8, <2>1, <2>2 DEF InputBytes
<1>10. \A j \in DOMAIN inputs \ {i} : InputBytes(j)'
  BY <1>1, <1>3, <1>5 DEF BytesInv, InputBytes
<1>11. \A o \in DOMAIN outputs : Accepted(o)' = Accepted(o)
  BY <1>1 DEF Accepted
<1>12. ASSUME NEW o \in DOMAIN outputs PROVE OutputBytes(o)'
  <2>1. OutputBytes(o) /\ ToSet(Accepted(o)) \subseteq DOMAIN origin
    BY PlacedBytes DEF BytesInv
  <2>2. /\ Ordered(Accepted(o), origin')
        /\ \A b \in ToSet(Accepted(o)) : b \in DOMAIN origin' /\ origin'[b] \in DOMAIN inputs \union {o}
        /\ \A j : ToSet(Accepted(o)) \intersect Arrived(j)' = ToSet(Accepted(o)) \intersect Arrived(j)
    BY <1>1, OldKept
  <2>3. Below(ToSet(Accepted(o)) \intersect Arrived(i), ToSet(inputs'[i].buffer))
    BY <1>3, <1>6, <2>1 DEF OutputBytes, Below
  <2>4. \A j \in DOMAIN inputs' :
            /\ Below(ToSet(Accepted(o)) \intersect Arrived(j)', ToSet(inputs'[j].buffer))
            /\ ToSet(Accepted(o)) \intersect ToSet(taken'[j]) = {}
    BY <1>1, <1>5, <2>1, <2>2, <2>3 DEF OutputBytes
  <2> QED BY <1>5, <1>11, <2>2, <2>4 DEF OutputBytes
<1>13. \A o, p \in DOMAIN outputs : o # p => Apart(o, p)'
  BY <1>11 DEF BytesInv, Apart
<1> QED BY <1>1, <1>5, <1>9, <1>10, <1>12, <1>13 DEF BytesInv

LEMMA NewInputBytes ==
    ASSUME Inv, BytesInv, NEW n \in 0 .. MaxBytes, NewInputStream(n)
    PROVE  BytesInv'
<1>0. PICK h : h = nextHandle
  OBVIOUS
<1>1. /\ h \in 0 .. MaxHandle /\ h \notin DOMAIN inputs \union DOMAIN outputs
      /\ n \in Nat /\ Arrive(n, h) /\ UNCHANGED outputs
  BY <1>0, StreamAssumption DEF NewInputStream, Inv, HandlesOK
<1>2. PICK new : new = Fresh(n)
  OBVIOUS
<1>3. /\ new \in Seq(Byte) /\ Rising(new) /\ Below(DOMAIN origin, ToSet(new))
      /\ \A j : Arrived(j)' = Arrived(j) \union (IF j = h THEN ToSet(new) ELSE {})
  BY <1>1, <1>2, FreshBytes
<1>4. /\ DOMAIN inputs' = DOMAIN inputs \union {h} /\ DOMAIN taken' = DOMAIN inputs \union {h}
      /\ inputs'[h].buffer = new /\ taken'[h] = <<>>
      /\ \A j \in DOMAIN inputs : inputs'[j] = inputs[j] /\ taken'[j] = taken[j]
  BY <1>0, <1>1, <1>2 DEF NewInputStream, Added, NewInput, Inv, InputsOK
<1>5. ToSet(<<>>) = {} /\ Rising(<<>>) /\ <<>> \in Seq(Byte)
  BY EmptySeq DEF ToSet, Rising
<1>6. InputBytes(h)'
  BY <1>3, <1>4, <1>5 DEF InputBytes, Below
<1>7. \A j \in DOMAIN inputs : InputBytes(j)'
  BY <1>1, <1>3, <1>4 DEF BytesInv, InputBytes
<1>8. \A o \in DOMAIN outputs : Accepted(o)' = Accepted(o)
  BY <1>1 DEF Accepted
<1>9. ASSUME NEW o \in DOMAIN outputs PROVE OutputBytes(o)'
  <2>1. OutputBytes(o)
    BY DEF BytesInv
  <2>2. /\ Ordered(Accepted(o), origin')
        /\ \A b \in ToSet(Accepted(o)) : b \in DOMAIN origin' /\ origin'[b] \in DOMAIN inputs \union {o}
        /\ \A j : ToSet(Accepted(o)) \intersect Arrived(j)' = ToSet(Accepted(o)) \intersect Arrived(j)
    BY <1>1, OldKept
  <2>3. Arrived(h) = {}
    BY <1>0 DEF Arrived, Inv, BytesOK, HandlesOK
  <2>4. \A j \in DOMAIN inputs' :
            /\ Below(ToSet(Accepted(o)) \intersect Arrived(j)', ToSet(inputs'[j].buffer))
            /\ ToSet(Accepted(o)) \intersect ToSet(taken'[j]) = {}
    BY <1>4, <1>5, <2>1, <2>2, <2>3 DEF OutputBytes, Below
  <2> QED BY <1>4, <1>8, <2>2, <2>4 DEF OutputBytes
<1>10. \A o, p \in DOMAIN outputs : o # p => Apart(o, p)'
  BY <1>8 DEF BytesInv, Apart
<1> QED BY <1>1, <1>4, <1>6, <1>7, <1>9, <1>10 DEF BytesInv

LEMMA NewOutputBytes == ASSUME Inv, BytesInv, NewOutputStream PROVE BytesInv'
<1>0. PICK h : h = nextHandle
  OBVIOUS
<1>1. h \notin DOMAIN outputs
  BY <1>0 DEF Inv, HandlesOK
<1>2. /\ UNCHANGED <<inputs, taken, origin>> /\ DOMAIN outputs' = DOMAIN outputs \union {h}
      /\ outputs'[h] = NewOutput
      /\ \A o \in DOMAIN outputs : outputs'[o] = outputs[o]
  BY <1>0, <1>1 DEF NewOutputStream, Added
<1>3. \A j : Arrived(j)' = Arrived(j)
  BY <1>2 DEF Arrived
<1>4. Accepted(h)' = <<>> /\ \A o \in DOMAIN outputs : Accepted(o)' = Accepted(o)
  <2>1. <<>> \in Seq(Byte) /\ \A s \in Seq(Byte) : s \o <<>> = s
    BY EmptySeq, ConcatEmptySeq
  <2>2. <<>> \o <<>> = <<>>
    BY ONLY <2>1
  <2>3. outputs'[h].flushed = <<>> /\ outputs'[h].buffer = <<>>
    BY <1>2 DEF NewOutput
  <2>4. Accepted(h)' = <<>>
    BY ONLY <2>2, <2>3 DEF Accepted
  <2> QED BY <1>2, <2>4 DEF Accepted
<1>5. ToSet(<<>>) = {} /\ Ordered(<<>>, origin')
  BY DEF ToSet, Ordered
<1>6. \A i \in DOMAIN inputs : InputBytes(i)'
  BY <1>2, <1>3 DEF BytesInv, InputBytes
<1>7. OutputBytes(h)'
  BY <1>4, <1>5 DEF OutputBytes, Below
<1>8. \A o \in DOMAIN outputs : OutputBytes(o)'
  BY <1>2, <1>3, <1>4 DEF BytesInv, OutputBytes
<1>9. \A o, p \in DOMAIN outputs' : o # p => Apart(o, p)'
  BY <1>2, <1>4, <1>5 DEF BytesInv, Apart
<1> QED BY <1>2, <1>6, <1>7, <1>8, <1>9 DEF BytesInv

LEMMA WriteBytes ==
    ASSUME Inv, BytesInv, NEW o \in DOMAIN outputs, NEW n \in 1 .. MaxBytes, Write(o, n)
    PROVE  BytesInv'
<1>1. /\ o \in 0 .. MaxHandle /\ o \notin DOMAIN inputs
      /\ n \in Nat /\ Arrive(n, o) /\ UNCHANGED <<inputs, taken>>
  BY HandleOfStream DEF Write, Inv, HandlesOK
<1>2. PICK new : new = Fresh(n)
  OBVIOUS
<1>3. /\ new \in Seq(Byte) /\ Rising(new) /\ Below(DOMAIN origin, ToSet(new))
      /\ ToSet(new) \intersect DOMAIN origin = {}
      /\ \A b \in ToSet(new) : b \in DOMAIN origin' /\ origin'[b] = o
      /\ \A j : Arrived(j)' = Arrived(j) \union (IF j = o THEN ToSet(new) ELSE {})
  BY <1>1, <1>2, FreshBytes
<1>4. \A j \in DOMAIN inputs : Arrived(j)' = Arrived(j)
  BY <1>1, <1>3
<1>5. outputs[o] \in OutputType /\ Accepted(o) \in Seq(Byte) /\ OutputBytes(o)
  BY AccParts, AcceptedIsAcc DEF BytesInv, Inv, OutputsOK
<1>6. /\ DOMAIN outputs' = DOMAIN outputs
      /\ \A p \in DOMAIN outputs \ {o} : Accepted(p)' = Accepted(p)
      /\ Accepted(o)' = Accepted(o) \/ Accepted(o)' = Accepted(o) \o new
  <2>1. outputs' = [outputs EXCEPT ![o] = Written(outputs[o], new)]
    BY <1>2 DEF Write
  <2>2. Acc(outputs'[o]) \in {Acc(outputs[o]), Acc(outputs[o]) \o new}
    <3>1. Acc(Written(outputs[o], new))
              = IF outputs[o].closed THEN Acc(outputs[o]) ELSE Acc(outputs[o]) \o new
      BY <1>3, <1>5, AccParts
    <3>2. Acc(outputs'[o]) = Acc(Written(outputs[o], new))
      BY <2>1
    <3> QED BY ONLY <3>1, <3>2
  <2>3. Accepted(o)' = Acc(outputs'[o]) /\ Accepted(o) = Acc(outputs[o])
    BY DEF Accepted, Acc
  <2> QED BY <2>1, <2>2, <2>3 DEF Accepted
<1>7. ToSet(Accepted(o))' \in {ToSet(Accepted(o)), ToSet(Accepted(o)) \union ToSet(new)}
  BY <1>3, <1>5, <1>6, ConcatSet
<1>8. \A i \in DOMAIN inputs : InputBytes(i)'
  BY <1>1, <1>4 DEF BytesInv, InputBytes
<1>9. /\ Ordered(Accepted(o), origin')
      /\ \A b \in ToSet(Accepted(o)) : b \in DOMAIN origin' /\ origin'[b] \in DOMAIN inputs \union {o}
      /\ ToSet(Accepted(o)) \subseteq DOMAIN origin
  BY <1>1, OldKept, PlacedBytes
<1>10. Ordered(Accepted(o), origin)'
  <2>1. Ordered(new, origin')
    BY <1>3 DEF Rising, Ordered
  <2>2. \A x \in ToSet(Accepted(o)), y \in ToSet(new) : x < y
    BY <1>3, <1>9 DEF Below
  <2>3. Ordered(Accepted(o) \o new, origin')
    BY <1>3, <1>5, <1>9, <2>1, <2>2, ConcatOrder
  <2> QED BY <1>6, <1>9, <2>3
<1>11. OutputBytes(o)'
  <2>1. \A b \in ToSet(Accepted(o))' : b \in DOMAIN origin' /\ origin'[b] \in DOMAIN inputs \union {o}
    BY <1>3, <1>7, <1>9
  <2>2. ASSUME NEW i \in DOMAIN inputs
        PROVE  /\ Below(ToSet(Accepted(o))' \intersect Arrived(i), ToSet(inputs[i].buffer))
               /\ ToSet(Accepted(o))' \intersect ToSet(taken[i]) = {}
    <3>1. ToSet(new) \intersect Arrived(i) = {} /\ ToSet(new) \intersect ToSet(taken[i]) = {}
      BY <1>3, PlacedBytes DEF Arrived
    <3> QED BY <1>5, <1>7, <3>1 DEF OutputBytes, Below
  <2> QED BY <1>1, <1>4, <1>10, <2>1, <2>2 DEF OutputBytes
<1>12. ASSUME NEW p \in DOMAIN outputs \ {o} PROVE OutputBytes(p)' /\ Apart(o, p)' /\ Apart(p, o)'
  <2>1. OutputBytes(p) /\ Apart(o, p) /\ Accepted(p)' = Accepted(p)
    BY <1>6 DEF BytesInv
  <2>2. /\ Ordered(Accepted(p), origin')
        /\ \A b \in ToSet(Accepted(p)) : b \in DOMAIN origin' /\ origin'[b] \in DOMAIN inputs \union {p}
        /\ ToSet(Accepted(p)) \intersect ToSet(new) = {}
    BY <1>1, <1>2, OldKept
  <2>3. OutputBytes(p)'
    BY <1>1, <1>4, <2>1, <2>2 DEF OutputBytes
  <2>4. ToSet(Accepted(o))' \intersect ToSet(Accepted(p))' = {}
    BY <1>7, <2>1, <2>2 DEF Apart
  <2> QED BY <2>3, <2>4 DEF Apart
<1>13. \A p, q \in DOMAIN outputs \ {o} : p # q => Apart(p, q)'
  BY <1>6 DEF BytesInv, Apart
<1> QED BY <1>1, <1>6, <1>8, <1>11, <1>12, <1>13 DEF BytesInv

LEMMA QuietBytes ==
    ASSUME Inv, BytesInv
    PROVE  /\ \A i \in DOMAIN inputs : CloseInput(i) => BytesInv'
           /\ \A o \in DOMAIN outputs : Flush(o) \/ CloseOutput(o) => BytesInv'
           /\ \A kind, h : Subscribe(kind, h) => BytesInv'
<1>t. /\ \A i \in DOMAIN inputs : inputs[i] \in InputType
      /\ \A o \in DOMAIN outputs : outputs[o] \in OutputType
  BY DEF Inv, InputsOK, OutputsOK
<1>1. ASSUME NEW i \in DOMAIN inputs, CloseInput(i) PROVE BytesInv'
  <2>1. inputs' = [inputs EXCEPT ![i] = [inputs[i] EXCEPT !.closed = TRUE]]
    BY <1>1 DEF CloseInput
  <2>2. DOMAIN inputs' = DOMAIN inputs /\ \A j \in DOMAIN inputs : inputs'[j].buffer = inputs[j].buffer
    BY <1>t, <2>1 DEF InputType
  <2>3. UNCHANGED <<outputs, origin, taken>>
    BY <1>1 DEF CloseInput
  <2> QED BY <2>2, <2>3, SameBytes
<1>2. ASSUME NEW o \in DOMAIN outputs, Flush(o) \/ CloseOutput(o) PROVE BytesInv'
  <2>1. PICK w : w \in {Flushed(outputs[o]), [Flushed(outputs[o]) EXCEPT !.closed = TRUE]}
                 /\ outputs' = [outputs EXCEPT ![o] = w]
    BY <1>2 DEF Flush, CloseOutput
  <2>2. Acc(w) = Acc(outputs[o])
    BY <1>t, <2>1, AccParts
  <2>3. DOMAIN outputs' = DOMAIN outputs /\ \A p \in DOMAIN outputs : Acc(outputs'[p]) = Acc(outputs[p])
    BY <2>1, <2>2
  <2>4. UNCHANGED <<inputs, origin, taken>>
    BY <1>2 DEF Flush, CloseOutput
  <2> QED BY <2>3, <2>4, SameBytes
<1>3. ASSUME NEW kind, NEW h, Subscribe(kind, h) PROVE BytesInv'
  BY <1>3, SameBytes DEF Subscribe
<1> QED BY <1>1, <1>2, <1>3

LEMMA BytesInit == Init => BytesInv
BY DEF Init, BytesInv

LEMMA BytesNext == Inv /\ BytesInv /\ [Next]_vars => BytesInv'
<1> SUFFICES ASSUME Inv, BytesInv, [Next]_vars PROVE BytesInv'
  OBVIOUS
<1>1. CASE Next
  BY <1>1, ReadBytes, SpliceBytes, PushBytes, NewInputBytes, NewOutputBytes, WriteBytes, QuietBytes DEF Next
<1>2. CASE UNCHANGED vars
  BY <1>2, SameBytes DEF vars
<1> QED BY <1>1, <1>2

LEMMA BytesAlways == Spec => []BytesInv
BY BytesInit, BytesNext, InvAlways, PTL DEF Spec

LEMMA EachOnce ==
    ASSUME NEW s \in Seq(Byte), Rising(s) \/ (\E f : Ordered(s, f))
    PROVE  IsInjective(s)
<1>0. Byte \subseteq Nat
  BY StreamAssumption DEF Byte
<1>1. DOMAIN s = 1 .. Len(s) /\ Len(s) \in Nat /\ \A k \in DOMAIN s : s[k] \in Nat
  BY <1>0, LenProperties
<1> SUFFICES ASSUME NEW j \in DOMAIN s, NEW k \in DOMAIN s, s[j] = s[k] PROVE j = k
  BY DEF IsInjective
<1>2. j \in Nat /\ k \in Nat /\ s[j] \in Nat
  BY <1>1
<1>3. ~ (j < k) /\ ~ (k < j)
  BY <1>2 DEF Rising, Ordered
<1> QED BY <1>2, <1>3

LEMMA OnceFromBytes == Inv /\ BytesInv => OncePlaced
<1> SUFFICES ASSUME Inv, BytesInv PROVE OncePlaced
  OBVIOUS
<1>i. ASSUME NEW i \in DOMAIN inputs
      PROVE  /\ InputBytes(i) /\ taken[i] \in Seq(Byte) /\ inputs[i].buffer \in Seq(Byte)
             /\ ToSet(taken[i]) \intersect ToSet(inputs[i].buffer) = {}
             /\ \A x \in ToSet(taken[i]) \union ToSet(inputs[i].buffer) :
                    x \in Nat /\ x \in DOMAIN origin /\ origin[x] = i
  <2>1. InputBytes(i) /\ inputs[i].buffer \in Seq(Byte)
    BY DEF BytesInv, Inv, InputsOK, InputType
  <2>2. \A x \in ToSet(taken[i]) \union ToSet(inputs[i].buffer) :
            x \in Nat /\ x \in DOMAIN origin /\ origin[x] = i
    BY <2>1 DEF InputBytes, Arrived, Inv, BytesOK
  <2>3. ASSUME NEW x \in ToSet(taken[i]), x \in ToSet(inputs[i].buffer) PROVE FALSE
    <3>1. x < x /\ x \in Nat
      BY <2>1, <2>2, <2>3 DEF InputBytes, Below
    <3> QED BY <3>1
  <2> QED BY <2>1, <2>2, <2>3 DEF InputBytes
<1>o. ASSUME NEW o \in DOMAIN outputs
      PROVE  /\ OutputBytes(o) /\ Accepted(o) \in Seq(Byte)
             /\ \A i \in DOMAIN inputs :
                    /\ ToSet(Accepted(o)) \intersect ToSet(taken[i]) = {}
                    /\ ToSet(Accepted(o)) \intersect ToSet(inputs[i].buffer) = {}
  <2>1. OutputBytes(o) /\ Accepted(o) \in Seq(Byte)
    BY AccParts, AcceptedIsAcc DEF BytesInv, Inv, OutputsOK
  <2>2. ASSUME NEW i \in DOMAIN inputs, NEW x \in ToSet(Accepted(o)), x \in ToSet(inputs[i].buffer)
        PROVE  FALSE
    <3>1. x \in Arrived(i) /\ x \in Nat
      BY <1>i, <2>2 DEF Arrived
    <3>2. x < x
      BY <2>1, <2>2, <3>1 DEF OutputBytes, Below
    <3> QED BY <3>1, <3>2
  <2> QED BY <2>1, <2>2 DEF OutputBytes
<1>1. ASSUME NEW p \in Places
      PROVE  \/ p[1] = "input" /\ p[2] \in DOMAIN inputs /\ At(p) = inputs[p[2]].buffer
             \/ p[1] = "taken" /\ p[2] \in DOMAIN inputs /\ At(p) = taken[p[2]]
             \/ p[1] = "output" /\ p[2] \in DOMAIN outputs /\ At(p) = Accepted(p[2])
  BY <1>1 DEF Places, At
<1>2. ASSUME NEW p \in Places PROVE IsInjective(At(p))
  <2>1. CASE p[1] = "input" /\ p[2] \in DOMAIN inputs /\ At(p) = inputs[p[2]].buffer
    BY <1>i, <2>1, EachOnce DEF InputBytes
  <2>2. CASE p[1] = "taken" /\ p[2] \in DOMAIN inputs /\ At(p) = taken[p[2]]
    BY <1>i, <2>2, EachOnce DEF InputBytes
  <2>3. CASE p[1] = "output" /\ p[2] \in DOMAIN outputs /\ At(p) = Accepted(p[2])
    BY <1>o, <2>3, EachOnce DEF OutputBytes
  <2> QED BY <1>1, <2>1, <2>2, <2>3
<1>3. ASSUME NEW p \in Places, NEW q \in Places, p # q
      PROVE  ToSet(At(p)) \intersect ToSet(At(q)) = {}
  <2>0. p[1] # q[1] \/ p[2] # q[2]
    BY <1>3 DEF Places
  <2>1. CASE p[1] = "output" /\ q[1] = "output"
    BY <1>1, <2>0, <2>1 DEF BytesInv, Apart
  <2>2. CASE p[1] = "output" /\ q[1] # "output"
    BY <1>1, <1>o, <2>2
  <2>3. CASE p[1] # "output" /\ q[1] = "output"
    BY <1>1, <1>o, <2>3
  <2>4. CASE p[1] # "output" /\ q[1] # "output"
    <3>1. CASE p[2] = q[2]
      <4>1. /\ p[2] \in DOMAIN inputs
            /\ \/ At(p) = inputs[p[2]].buffer /\ At(q) = taken[p[2]]
               \/ At(p) = taken[p[2]] /\ At(q) = inputs[p[2]].buffer
        BY <1>1, <2>0, <2>4, <3>1
      <4>2. ToSet(taken[p[2]]) \intersect ToSet(inputs[p[2]].buffer) = {}
        BY <1>i, <4>1
      <4> QED BY ONLY <4>1, <4>2
    <3>2. CASE p[2] # q[2]
      <4>1. /\ p[2] \in DOMAIN inputs /\ At(p) \in {taken[p[2]], inputs[p[2]].buffer}
            /\ q[2] \in DOMAIN inputs /\ At(q) \in {taken[q[2]], inputs[q[2]].buffer}
        BY <1>1, <2>4
      <4>2. /\ \A x \in ToSet(At(p)) : origin[x] = p[2]
            /\ \A x \in ToSet(At(q)) : origin[x] = q[2]
        BY <1>i, <4>1
      <4> QED BY <3>2, <4>2
    <3> QED BY <3>1, <3>2
  <2> QED BY <2>1, <2>2, <2>3, <2>4
<1> QED BY <1>2, <1>3 DEF OncePlaced

LEMMA OrderFromBytes == Inv /\ BytesInv => OrderKept
<1> SUFFICES ASSUME Inv, BytesInv PROVE OrderKept
  OBVIOUS
<1>1. ASSUME NEW i \in DOMAIN inputs PROVE Ordered(taken[i] \o inputs[i].buffer, origin)
  <2>1. InputBytes(i) /\ taken[i] \in Seq(Byte) /\ inputs[i].buffer \in Seq(Byte)
    BY DEF BytesInv, InputBytes, Inv, InputsOK, InputType
  <2>2. Rising(taken[i] \o inputs[i].buffer)
    BY <2>1, ConcatOrder DEF InputBytes
  <2> QED BY <2>2 DEF Rising, Ordered
<1>2. \A o \in DOMAIN outputs : Ordered(Accepted(o), origin)
  BY DEF BytesInv, OutputBytes
<1> QED BY <1>1, <1>2 DEF OrderKept, Ordered

\* No byte is duplicated, and bytes of one origin keep their order, through every
\* interleaving of reads, splices, writes, flushes and closes.
THEOREM BytesKeptAlways == Spec => []BytesKept
<1>1. Inv /\ BytesInv => BytesKept
  BY Types, OnceFromBytes, OrderFromBytes DEF BytesKept
<1> QED BY <1>1, InvAlways, BytesAlways, PTL

-----------------------------------------------------------------------------
(***************************************************************************)
(* Where bytes can be lost.                                                *)
(***************************************************************************)

PlacedAt(x) ==
    \/ \E i \in DOMAIN inputs : x \in ToSet(inputs[i].buffer) \union ToSet(taken[i])
    \/ \E o \in DOMAIN outputs : x \in ToSet(Accepted(o))

LEMMA PlacedIs == \A x : x \in Placed <=> PlacedAt(x)
<1>1. \A p \in Places : \/ /\ p[1] = "input" /\ p[2] \in DOMAIN inputs
                           /\ At(p) = inputs[p[2]].buffer
                        \/ p[1] = "taken" /\ p[2] \in DOMAIN inputs /\ At(p) = taken[p[2]]
                        \/ p[1] = "output" /\ p[2] \in DOMAIN outputs /\ At(p) = Accepted(p[2])
  BY DEF Places, At
<1>2. \A i \in DOMAIN inputs : /\ <<"input", i>> \in Places /\ At(<<"input", i>>) = inputs[i].buffer
                               /\ <<"taken", i>> \in Places /\ At(<<"taken", i>>) = taken[i]
  BY DEF Places, At
<1>3. \A o \in DOMAIN outputs : <<"output", o>> \in Places /\ At(<<"output", o>>) = Accepted(o)
  BY DEF Places, At
<1>4. \A x : x \in Placed <=> \E p \in Places : x \in ToSet(At(p))
  BY DEF Placed
<1>5. ASSUME NEW p \in Places, NEW x \in ToSet(At(p)) PROVE PlacedAt(x)
  BY <1>1, <1>5 DEF PlacedAt
<1>6. ASSUME NEW x, PlacedAt(x) PROVE \E p \in Places : x \in ToSet(At(p))
  BY <1>2, <1>3, <1>6 DEF PlacedAt
<1> QED BY <1>4, <1>5, <1>6

LEMMA PlacedIsNext == \A x : x \in Placed' <=> PlacedAt(x)'
<1>1. (\A x : x \in Placed <=> PlacedAt(x))'
  BY PlacedIs, PTL
<1> QED BY <1>1

\* What was in place stays in place where every stream keeps what it has.
LEMMA PlacedKept ==
    ASSUME NEW X,
           \A i \in DOMAIN inputs :
               /\ i \in DOMAIN inputs'
               /\ ToSet(inputs[i].buffer) \union ToSet(taken[i])
                      \subseteq ToSet(inputs'[i].buffer) \union ToSet(taken'[i]) \union X,
           \A o \in DOMAIN outputs : o \in DOMAIN outputs' /\ ToSet(Accepted(o)) \subseteq ToSet(Accepted(o))'
    PROVE  Placed \ Placed' \subseteq X
<1>1. \A x : x \in Placed' <=>
               \/ \E i \in DOMAIN inputs' : x \in ToSet(inputs'[i].buffer) \union ToSet(taken'[i])
               \/ \E o \in DOMAIN outputs' : x \in ToSet(Accepted(o))'
  BY PlacedIsNext DEF PlacedAt
<1> SUFFICES ASSUME NEW x \in Placed, x \notin Placed' PROVE x \in X
  OBVIOUS
<1>2. CASE \E i \in DOMAIN inputs : x \in ToSet(inputs[i].buffer) \union ToSet(taken[i])
  BY <1>1, <1>2
<1>3. CASE \E o \in DOMAIN outputs : x \in ToSet(Accepted(o))
  BY <1>1, <1>3
<1> QED BY <1>2, <1>3, PlacedIs DEF PlacedAt

\* A buffer is what is taken from its front and what that leaves.
LEMMA SplitCovers ==
    ASSUME NEW s \in Seq(Byte), NEW n \in 1 .. Len(s)
    PROVE  ToSet(s) \subseteq ToSet(SubSeq(s, 1, n)) \union ToSet(SubSeq(s, n + 1, Len(s)))
<1> DEFINE got == SubSeq(s, 1, n)
           left == SubSeq(s, n + 1, Len(s))
<1>1. Len(s) \in Nat /\ DOMAIN s = 1 .. Len(s) /\ \A k \in 1 .. Len(s) : s[k] \in Byte
  BY LenProperties
<1>2. \A k \in 1 .. n : k \in DOMAIN got /\ got[k] = s[k]
  <2>1. \A k \in 1 .. n : s[k] \in Byte
    BY <1>1
  <2>2. /\ got \in Seq(Byte) /\ Len(got) = IF 1 <= n THEN n - 1 + 1 ELSE 0
        /\ \A k \in 1 .. n - 1 + 1 : got[k] = s[1 + k - 1]
    BY <1>1, <2>1, SubSeqProperties
  <2> HIDE DEF got
  <2>3. DOMAIN got = 1 .. n
    BY <1>1, <2>2, LenProperties
  <2> QED BY <1>1, <2>2, <2>3
<1>3. \A k \in 1 .. Len(s) - n : k \in DOMAIN left /\ left[k] = s[n + k]
  <2>1. \A k \in n + 1 .. Len(s) : s[k] \in Byte
    BY <1>1
  <2>2. /\ left \in Seq(Byte) /\ Len(left) = IF n + 1 <= Len(s) THEN Len(s) - (n + 1) + 1 ELSE 0
        /\ \A k \in 1 .. Len(s) - (n + 1) + 1 : left[k] = s[n + 1 + k - 1]
    BY <1>1, <2>1, SubSeqProperties
  <2> HIDE DEF left
  <2>3. DOMAIN left = 1 .. Len(left)
    BY <2>2, LenProperties
  <2> SUFFICES ASSUME NEW k \in 1 .. Len(s) - n PROVE k \in DOMAIN left /\ left[k] = s[n + k]
    OBVIOUS
  <2>4. n + 1 <= Len(s) /\ k \in 1 .. Len(s) - (n + 1) + 1 /\ n + 1 + k - 1 = n + k
    BY <1>1
  <2>5. left[k] = s[n + k]
    BY <2>2, <2>4
  <2>6. Len(left) = Len(s) - (n + 1) + 1
    BY <2>2, <2>4
  <2> QED BY <2>3, <2>4, <2>5, <2>6
<1> HIDE DEF got, left
<1>4. ASSUME NEW k \in 1 .. Len(s) PROVE s[k] \in ToSet(got) \union ToSet(left)
  <2>1. CASE k <= n
    <3>1. k \in 1 .. n
      BY <1>1, <2>1
    <3>2. k \in DOMAIN got /\ got[k] = s[k]
      BY <1>2, <3>1
    <3> QED BY ONLY <3>2 DEF ToSet
  <2>2. CASE k > n
    <3>1. k - n \in 1 .. Len(s) - n /\ n + (k - n) = k
      BY <1>1, <2>2
    <3>2. k - n \in DOMAIN left /\ left[k - n] = s[k]
      BY <1>3, <3>1
    <3> QED BY ONLY <3>2 DEF ToSet
  <2> QED BY <1>1, <2>1, <2>2
<1>5. ToSet(s) \subseteq ToSet(got) \union ToSet(left)
  BY <1>1, <1>4 DEF ToSet
<1> QED BY <1>5 DEF got, left

\* What a drained input had is what was taken from it and what it still has.
LEMMA DrainedCovers ==
    ASSUME Inv, BytesInv, NEW i \in DOMAIN inputs, NEW n \in 1 .. MaxBytes, Got(i, n) > 0,
           inputs' = [inputs EXCEPT ![i] = Drained(@, Got(i, n))],
           NEW got, got = SubSeq(inputs[i].buffer, 1, Got(i, n))
    PROVE  ToSet(inputs[i].buffer) \subseteq ToSet(got) \union ToSet(inputs'[i].buffer)
<1> DEFINE g == Got(i, n)
           s == inputs[i].buffer
           left == SubSeq(s, g + 1, Len(s))
<1>1. inputs[i] \in InputType /\ s \in Seq(Byte)
  BY DEF Inv, InputsOK, InputType
<1>2. g \in 1 .. Len(s)
  BY <1>1, GotParts
<1>3. ToSet(s) \subseteq ToSet(got) \union ToSet(left)
  <2> HIDE DEF g, s
  <2>1. got = SubSeq(s, 1, g)
    BY DEF g, s
  <2> QED BY <1>1, <1>2, <2>1, SplitCovers
<1>4. inputs'[i] = Drained(inputs[i], g)
  OBVIOUS
<1>5. inputs'[i].buffer = left
  <2>1. Drained(inputs[i], g) = [inputs[i] EXCEPT !.buffer = left, !.bytesRead = inputs[i].bytesRead + g]
    BY DEF Drained
  <2> HIDE DEF left, g
  <2> QED BY <1>1, <1>4, <2>1 DEF InputType
<1> HIDE DEF left, s
<1> QED BY <1>3, <1>5 DEF s

\* Reading moves bytes to the reader.
LEMMA ReadLosesNone ==
    ASSUME Inv, BytesInv, NEW i \in DOMAIN inputs, NEW n \in 1 .. MaxBytes, Read(i, n)
    PROVE  Placed \subseteq Placed'
<1>0. PICK got : got = SubSeq(inputs[i].buffer, 1, Got(i, n))
  OBVIOUS
<1>1. /\ got \in Seq(Byte) /\ DOMAIN inputs' = DOMAIN inputs
      /\ \A j \in DOMAIN inputs \ {i} : inputs'[j] = inputs[j]
      /\ ToSet(inputs[i].buffer) \subseteq ToSet(got) \union ToSet(inputs'[i].buffer)
  BY <1>0, DrainedBytes, DrainedCovers DEF Read
<1>2. /\ UNCHANGED outputs
      /\ \A j \in DOMAIN inputs \ {i} : taken'[j] = taken[j]
      /\ taken'[i] = taken[i] \o got
  BY <1>0 DEF Read, Inv, InputsOK
<1>3. ToSet(taken'[i]) = ToSet(taken[i]) \union ToSet(got)
  <2>1. taken[i] \in Seq(Byte)
    BY DEF BytesInv, InputBytes
  <2> QED BY <1>1, <1>2, <2>1, ConcatSet
<1>4. \A o \in DOMAIN outputs : o \in DOMAIN outputs' /\ Accepted(o)' = Accepted(o)
  BY <1>2 DEF Accepted
<1>5. \A j \in DOMAIN inputs :
          ToSet(inputs[j].buffer) \union ToSet(taken[j])
              \subseteq ToSet(inputs'[j].buffer) \union ToSet(taken'[j]) \union {}
  BY <1>1, <1>2, <1>3
<1>6. Placed \ Placed' \subseteq {}
  BY <1>1, <1>4, <1>5, PlacedKept
<1> QED BY <1>6

\* A splice moves bytes to the output, unless that is closed.
LEMMA SpliceLoses ==
    ASSUME Inv, BytesInv, NEW i \in DOMAIN inputs, NEW o \in DOMAIN outputs, NEW n \in 1 .. MaxBytes,
           Splice(i, o, n)
    PROVE  \/ Placed \subseteq Placed'
           \/ outputs[o].closed /\ Placed \ Placed' \subseteq ToSet(inputs[i].buffer)
<1>0. PICK got : got = SubSeq(inputs[i].buffer, 1, Got(i, n))
  OBVIOUS
<1>1. /\ got \in Seq(Byte) /\ DOMAIN inputs' = DOMAIN inputs
      /\ ToSet(got) \subseteq ToSet(inputs[i].buffer)
      /\ \A j \in DOMAIN inputs \ {i} : inputs'[j] = inputs[j]
      /\ ToSet(inputs[i].buffer) \subseteq ToSet(got) \union ToSet(inputs'[i].buffer)
  <2>1. Got(i, n) > 0 /\ inputs' = [inputs EXCEPT ![i] = Drained(@, Got(i, n))]
    BY DEF Splice
  <2>2. /\ got \in Seq(Byte) /\ DOMAIN inputs' = DOMAIN inputs
        /\ ToSet(got) \subseteq ToSet(inputs[i].buffer)
    BY <1>0, <2>1, DrainedBytes
  <2>3. ToSet(inputs[i].buffer) \subseteq ToSet(got) \union ToSet(inputs'[i].buffer)
    BY <1>0, <2>1, DrainedCovers
  <2>4. \A j \in DOMAIN inputs \ {i} : inputs'[j] = inputs[j]
    BY <2>1
  <2> QED BY <2>2, <2>3, <2>4
<1>2. UNCHANGED taken /\ outputs' = [outputs EXCEPT ![o] = Written(outputs[o], got)]
  BY <1>0 DEF Splice
<1>3. outputs[o] \in OutputType /\ Acc(outputs[o]) \in Seq(Byte)
  BY AccParts DEF Inv, OutputsOK
<1>4. Acc(outputs'[o]) = IF outputs[o].closed THEN Acc(outputs[o]) ELSE Acc(outputs[o]) \o got
  <2>1. Acc(Written(outputs[o], got))
            = IF outputs[o].closed THEN Acc(outputs[o]) ELSE Acc(outputs[o]) \o got
    BY <1>1, <1>3, AccParts
  <2>2. Acc(outputs'[o]) = Acc(Written(outputs[o], got))
    BY <1>2
  <2> QED BY ONLY <2>1, <2>2
<1>5. \A p : Accepted(p)' = Acc(outputs'[p]) /\ Accepted(p) = Acc(outputs[p])
  BY DEF Accepted, Acc
<1>6. DOMAIN outputs' = DOMAIN outputs /\ \A p \in DOMAIN outputs \ {o} : Accepted(p)' = Accepted(p)
  BY <1>2, <1>5
<1>7. /\ ToSet(Accepted(o)) \subseteq ToSet(Accepted(o))'
      /\ ~ outputs[o].closed => ToSet(got) \subseteq ToSet(Accepted(o))'
  <2>1. ToSet(Acc(outputs[o]) \o got) = ToSet(Acc(outputs[o])) \union ToSet(got)
    BY <1>1, <1>3, ConcatSet
  <2>2. ToSet(Accepted(o))' = ToSet(Acc(outputs'[o])) /\ ToSet(Accepted(o)) = ToSet(Acc(outputs[o]))
    BY <1>5
  <2> QED BY ONLY <1>4, <2>1, <2>2
<1>8. \A j \in DOMAIN inputs :
          ToSet(inputs[j].buffer) \union ToSet(taken[j])
              \subseteq ToSet(inputs'[j].buffer) \union ToSet(taken'[j]) \union ToSet(got)
  BY <1>1, <1>2
<1>9. Placed \ Placed' \subseteq ToSet(got)
  BY <1>1, <1>6, <1>7, <1>8, PlacedKept
<1>10. ASSUME ~ outputs[o].closed PROVE ToSet(got) \subseteq Placed'
  <2>1. ToSet(got) \subseteq ToSet(Accepted(o))' /\ o \in DOMAIN outputs'
    BY <1>6, <1>7, <1>10
  <2>2. \A x : (\E p \in DOMAIN outputs' : x \in ToSet(Accepted(p))') => x \in Placed'
    BY PlacedIsNext DEF PlacedAt
  <2> QED BY <2>1, <2>2
<1> QED BY <1>1, <1>9, <1>10

\* No other operation loses a byte.
LEMMA OthersLoseNone ==
    ASSUME Inv, BytesInv
    PROVE  /\ \A n \in 0 .. MaxBytes : NewInputStream(n) => Placed \subseteq Placed'
           /\ NewOutputStream => Placed \subseteq Placed'
           /\ \A i \in DOMAIN inputs :
                  /\ \A n \in 1 .. MaxBytes : PushData(i, n) => Placed \subseteq Placed'
                  /\ CloseInput(i) => Placed \subseteq Placed'
           /\ \A o \in DOMAIN outputs :
                  /\ \A n \in 1 .. MaxBytes : Write(o, n) => Placed \subseteq Placed'
                  /\ Flush(o) \/ CloseOutput(o) => Placed \subseteq Placed'
           /\ \A kind, h : Subscribe(kind, h) => Placed \subseteq Placed'
<1> DEFINE In == \A i \in DOMAIN inputs :
               /\ i \in DOMAIN inputs'
               /\ ToSet(inputs[i].buffer) \union ToSet(taken[i])
                      \subseteq ToSet(inputs'[i].buffer) \union ToSet(taken'[i]) \union {}
           Out == \A o \in DOMAIN outputs :
                      o \in DOMAIN outputs' /\ ToSet(Accepted(o)) \subseteq ToSet(Accepted(o))'
<1>t. /\ \A i \in DOMAIN inputs : inputs[i] \in InputType
      /\ \A o \in DOMAIN outputs : outputs[o] \in OutputType
      /\ DOMAIN taken = DOMAIN inputs
  BY DEF Inv, InputsOK, OutputsOK
<1>0. In /\ Out => Placed \subseteq Placed'
  <2>1. In /\ Out => Placed \ Placed' \subseteq {}
    BY PlacedKept
  <2> QED BY <2>1
<1>a. \A o : Accepted(o)' = Acc(outputs'[o]) /\ Accepted(o) = Acc(outputs[o])
  BY DEF Accepted, Acc
<1>b. ASSUME UNCHANGED outputs PROVE Out
  BY <1>a, <1>b
<1>c. ASSUME UNCHANGED <<inputs, taken>> PROVE In
  BY <1>c
<1> HIDE DEF Out
<1>1. ASSUME NEW n \in 0 .. MaxBytes, NewInputStream(n) PROVE In /\ Out
  <2>1. nextHandle \notin DOMAIN inputs
    BY DEF Inv, HandlesOK
  <2>2. \A j \in DOMAIN inputs : j \in DOMAIN inputs' /\ inputs'[j] = inputs[j] /\ taken'[j] = taken[j]
    BY <1>1, <1>t, <2>1 DEF NewInputStream, Added
  <2> QED BY <1>1, <1>b, <2>2 DEF NewInputStream
<1>2. ASSUME NewOutputStream PROVE In /\ Out
  <2>1. nextHandle \notin DOMAIN outputs
    BY DEF Inv, HandlesOK
  <2>2. \A o \in DOMAIN outputs : o \in DOMAIN outputs' /\ outputs'[o] = outputs[o]
    BY <1>2, <2>1 DEF NewOutputStream, Added
  <2>3. Out
    BY <1>a, <2>2 DEF Out
  <2> QED BY <1>2, <1>c, <2>3 DEF NewOutputStream
<1>3. ASSUME NEW i \in DOMAIN inputs, NEW n \in 1 .. MaxBytes, PushData(i, n) PROVE In /\ Out
  <2>1. i \in 0 .. MaxHandle /\ n \in Nat /\ Arrive(n, i) /\ UNCHANGED <<outputs, taken>>
    BY <1>3, HandleOfStream DEF PushData
  <2>2. PICK new : new = Fresh(n)
    OBVIOUS
  <2>3. new \in Seq(Byte) /\ inputs[i].buffer \in Seq(Byte)
    BY <1>t, <2>1, <2>2, FreshBytes DEF InputType
  <2>4. /\ DOMAIN inputs' = DOMAIN inputs /\ \A j \in DOMAIN inputs \ {i} : inputs'[j] = inputs[j]
        /\ inputs'[i].buffer = inputs[i].buffer \o new
    BY <1>3, <1>t, <2>2 DEF PushData, InputType
  <2>5. ToSet(inputs'[i].buffer) = ToSet(inputs[i].buffer) \union ToSet(new)
    BY <2>3, <2>4, ConcatSet
  <2> QED BY <1>b, <2>1, <2>4, <2>5
<1>4. ASSUME NEW i \in DOMAIN inputs, CloseInput(i) PROVE In /\ Out
  <2>1. inputs' = [inputs EXCEPT ![i] = [inputs[i] EXCEPT !.closed = TRUE]]
    BY <1>4 DEF CloseInput
  <2>2. DOMAIN inputs' = DOMAIN inputs /\ \A j \in DOMAIN inputs : inputs'[j].buffer = inputs[j].buffer
    BY <1>t, <2>1 DEF InputType
  <2>3. UNCHANGED <<outputs, taken>>
    BY <1>4 DEF CloseInput
  <2> QED BY <1>b, <2>2, <2>3
<1>5. ASSUME NEW o \in DOMAIN outputs, NEW n \in 1 .. MaxBytes, Write(o, n) PROVE In /\ Out
  <2>1. o \in 0 .. MaxHandle /\ n \in Nat /\ Arrive(n, o) /\ UNCHANGED <<inputs, taken>>
    BY <1>5, HandleOfStream DEF Write
  <2>2. PICK new : new = Fresh(n)
    OBVIOUS
  <2>3. new \in Seq(Byte) /\ Acc(outputs[o]) \in Seq(Byte)
    BY <1>t, <2>1, <2>2, FreshBytes, AccParts
  <2>4. outputs' = [outputs EXCEPT ![o] = Written(outputs[o], new)]
    BY <1>5, <2>2 DEF Write
  <2>5. Acc(outputs'[o]) \in {Acc(outputs[o]), Acc(outputs[o]) \o new}
    <3>1. Acc(Written(outputs[o], new))
              = IF outputs[o].closed THEN Acc(outputs[o]) ELSE Acc(outputs[o]) \o new
      BY <1>t, <2>3, AccParts
    <3>2. Acc(outputs'[o]) = Acc(Written(outputs[o], new))
      BY <2>4
    <3> QED BY ONLY <3>1, <3>2
  <2>6. ToSet(Acc(outputs[o]) \o new) = ToSet(Acc(outputs[o])) \union ToSet(new)
    BY <2>3, ConcatSet
  <2>7. ToSet(Acc(outputs[o])) \subseteq ToSet(Acc(outputs'[o]))
    BY ONLY <2>5, <2>6
  <2>8. DOMAIN outputs' = DOMAIN outputs /\ \A p \in DOMAIN outputs \ {o} : outputs'[p] = outputs[p]
    BY <2>4
  <2>9. Out
    BY <1>a, <2>7, <2>8 DEF Out
  <2> QED BY <1>c, <2>1, <2>9
<1>6. ASSUME NEW o \in DOMAIN outputs, Flush(o) \/ CloseOutput(o) PROVE In /\ Out
  <2>1. PICK w : w \in {Flushed(outputs[o]), [Flushed(outputs[o]) EXCEPT !.closed = TRUE]}
                 /\ outputs' = [outputs EXCEPT ![o] = w]
    BY <1>6 DEF Flush, CloseOutput
  <2>2. Acc(w) = Acc(outputs[o])
    BY <1>t, <2>1, AccParts
  <2>3. DOMAIN outputs' = DOMAIN outputs /\ \A p \in DOMAIN outputs : Acc(outputs'[p]) = Acc(outputs[p])
    BY <2>1, <2>2
  <2>4. UNCHANGED <<inputs, taken>>
    BY <1>6 DEF Flush, CloseOutput
  <2>5. Out
    BY <1>a, <2>3 DEF Out
  <2> QED BY <1>c, <2>4, <2>5
<1>7. ASSUME NEW kind, NEW h, Subscribe(kind, h) PROVE In /\ Out
  BY <1>7, <1>b, <1>c DEF Subscribe
<1> HIDE DEF In
<1> QED BY <1>0, <1>1, <1>2, <1>3, <1>4, <1>5, <1>6, <1>7

\* Bytes are lost only where an output is closed, and then only the bytes of one input:
\* a splice drains them before its write fails.
THEOREM LostOnlyInClosedAlways == Spec => LostOnlyInClosed
<1> DEFINE Loses == /\ \E o \in DOMAIN outputs : outputs[o].closed
                    /\ \E i \in DOMAIN inputs : Placed \ Placed' \subseteq ToSet(inputs[i].buffer)
<1>1. ASSUME Inv, BytesInv, Next PROVE Placed \subseteq Placed' \/ Loses
  <2>1. \A i \in DOMAIN inputs, n \in 1 .. MaxBytes : Read(i, n) => Placed \subseteq Placed'
    BY <1>1, ReadLosesNone
  <2>2. ASSUME NEW i \in DOMAIN inputs, NEW o \in DOMAIN outputs, NEW n \in 1 .. MaxBytes, Splice(i, o, n)
        PROVE  Placed \subseteq Placed' \/ Loses
    BY <1>1, <2>2, SpliceLoses
  <2> HIDE DEF Loses
  <2> QED BY <1>1, <2>1, <2>2, OthersLoseNone DEF Next
<1>2. Inv /\ BytesInv /\ [Next]_vars => [Placed \subseteq Placed' \/ Loses]_vars
  BY <1>1
<1> QED BY <1>2, InvAlways, BytesAlways, PTL DEF Spec, LostOnlyInClosed
=============================================================================
