------------------------------ MODULE Streams -------------------------------
(***************************************************************************)
(* The StreamTable, splice and PollEngine of src/streams.rs: input streams *)
(* into which data arrives, output streams that buffer what is written     *)
(* until it is flushed, and pollables that name a stream by its handle.    *)
(*                                                                         *)
(* Every byte that arrives is told apart from every other by a number, so  *)
(* that the properties can follow it.  A stream is never taken out of the  *)
(* table; a call that fails without a change is no step.                   *)
(***************************************************************************)
EXTENDS Integers, FiniteSets, SequencesExt

CONSTANTS
    MaxHandle,   \* bound: the last handle given out (below 2^32)
    MaxBytes,    \* bound: bytes that ever arrive or are written
    MaxPoll      \* bound: pollables subscribed

ASSUME StreamAssumption == MaxHandle \in Nat /\ MaxBytes \in Nat /\ MaxPoll \in Nat

VARIABLES
    inputs,      \* the input streams
    outputs,     \* the output streams
    nextHandle,  \* the handle of the next stream of either kind
    sources,     \* what the poll engine was asked to watch
    origin,      \* ghost: the stream each byte was pushed into or written to
    taken        \* ghost: the bytes read returned to its callers, for each stream

vars == <<inputs, outputs, nextHandle, sources, origin, taken>>

NewInput(data) == [buffer |-> data, closed |-> FALSE, bytesRead |-> 0]
NewOutput == [buffer |-> <<>>, flushed |-> <<>>, closed |-> FALSE, bytesWritten |-> 0]

Added(streams, s) ==
    [h \in DOMAIN streams \union {nextHandle} |-> IF h = nextHandle THEN s ELSE streams[h]]

\* The next n bytes, and the origin of every byte once they came to stream h.
Fresh(n) == [k \in 1 .. n |-> Len(origin) + k]
Arrive(n, h) ==
    /\ Len(origin) + n <= MaxBytes
    /\ origin' = origin \o [k \in 1 .. n |-> h]

Init ==
    /\ inputs = [h \in {} |-> NewInput(<<>>)]
    /\ outputs = [h \in {} |-> NewOutput]
    /\ nextHandle = 0
    /\ sources = <<>>
    /\ origin = <<>>
    /\ taken = [h \in {} |-> <<>>]

-----------------------------------------------------------------------------
(***************************************************************************)
(* The table.                                                              *)
(***************************************************************************)

\* new_input_stream (n = 0) and new_input_stream_from.
NewInputStream(n) ==
    /\ nextHandle <= MaxHandle
    /\ inputs' = Added(inputs, NewInput(Fresh(n)))
    /\ taken' = Added(taken, <<>>)
    /\ Arrive(n, nextHandle)
    /\ nextHandle' = nextHandle + 1
    /\ UNCHANGED <<outputs, sources>>

NewOutputStream ==
    /\ nextHandle <= MaxHandle
    /\ outputs' = Added(outputs, NewOutput)
    /\ nextHandle' = nextHandle + 1
    /\ UNCHANGED <<inputs, sources, origin, taken>>

-----------------------------------------------------------------------------
(***************************************************************************)
(* Input streams.                                                          *)
(***************************************************************************)

\* Slip: new data goes in front of what waits.
PushFront(i, n) ==
    /\ inputs' = [inputs EXCEPT ![i].buffer = Fresh(n) \o @]
    /\ Arrive(n, i)
    /\ UNCHANGED <<outputs, nextHandle, sources, taken>>

\* Data arrives, also in a stream that is closed.
PushData(i, n) ==
    /\ inputs' = [inputs EXCEPT ![i].buffer = @ \o Fresh(n)]
    /\ Arrive(n, i)
    /\ UNCHANGED <<outputs, nextHandle, sources, taken>>

\* What a read of at most n bytes returns, and what it leaves.
Got(i, n) == IF n <= Len(inputs[i].buffer) THEN n ELSE Len(inputs[i].buffer)
Drained(s, n) == [s EXCEPT !.buffer = SubSeq(@, n + 1, Len(@)), !.bytesRead = @ + n]

Read(i, n) ==
    /\ Got(i, n) > 0
    /\ inputs' = [inputs EXCEPT ![i] = Drained(@, Got(i, n))]
    /\ taken' = [taken EXCEPT ![i] = @ \o SubSeq(inputs[i].buffer, 1, Got(i, n))]
    /\ UNCHANGED <<outputs, nextHandle, sources, origin>>

CloseInput(i) ==
    /\ inputs' = [inputs EXCEPT ![i].closed = TRUE]
    /\ UNCHANGED <<outputs, nextHandle, sources, origin, taken>>

-----------------------------------------------------------------------------
(***************************************************************************)
(* Output streams.                                                         *)
(***************************************************************************)

\* The stream after a write, which fails on a closed stream.
Written(s, data) ==
    IF s.closed THEN s
    ELSE [s EXCEPT !.buffer = @ \o data, !.bytesWritten = @ + Len(data)]

Flushed(s) ==
    IF s.closed THEN s ELSE [s EXCEPT !.flushed = @ \o s.buffer, !.buffer = <<>>]

Write(o, n) ==
    /\ outputs' = [outputs EXCEPT ![o] = Written(@, Fresh(n))]
    /\ Arrive(n, o)
    /\ UNCHANGED <<inputs, nextHandle, sources, taken>>

Flush(o) ==
    /\ outputs' = [outputs EXCEPT ![o] = Flushed(@)]
    /\ UNCHANGED <<inputs, nextHandle, sources, origin, taken>>

\* Slip: closing sets the flag before the flush, which then fails.
CloseFirst(o) ==
    /\ outputs' = [outputs EXCEPT ![o] = Flushed([@ EXCEPT !.closed = TRUE])]
    /\ UNCHANGED <<inputs, nextHandle, sources, origin, taken>>

CloseOutput(o) ==
    /\ outputs' = [outputs EXCEPT ![o] = [Flushed(@) EXCEPT !.closed = TRUE]]
    /\ UNCHANGED <<inputs, nextHandle, sources, origin, taken>>

\* Slip: all the input holds is drained, whatever the limit.
SpliceDrainsAll(i, o, n) ==
    /\ Got(i, n) > 0
    /\ inputs' = [inputs EXCEPT ![i] = Drained(@, Len(@.buffer))]
    /\ outputs' = [outputs EXCEPT ![o] = Written(@, SubSeq(inputs[i].buffer, 1, Got(i, n)))]
    /\ UNCHANGED <<nextHandle, sources, origin, taken>>

\* splice reads, then writes: where the output is closed what was read is lost.
Splice(i, o, n) ==
    /\ Got(i, n) > 0
    /\ inputs' = [inputs EXCEPT ![i] = Drained(@, Got(i, n))]
    /\ outputs' = [outputs EXCEPT ![o] = Written(@, SubSeq(inputs[i].buffer, 1, Got(i, n)))]
    /\ UNCHANGED <<nextHandle, sources, origin, taken>>

-----------------------------------------------------------------------------
(***************************************************************************)
(* Pollables.  poll_one looks the handle up among the streams of the kind  *)
(* that was subscribed; a timer is ready whatever its deadline, which is   *)
(* left out.                                                               *)
(***************************************************************************)

Subscribe(kind, h) ==
    /\ Len(sources) < MaxPoll
    /\ sources' = Append(sources, [kind |-> kind, handle |-> h])
    /\ UNCHANGED <<inputs, outputs, nextHandle, origin, taken>>

\* Slip: the end of the data is no longer an event.
ReadyOpen(h) == h \in DOMAIN inputs /\ inputs[h].buffer # <<>> /\ ~ inputs[h].closed

InputReady(h) == h \in DOMAIN inputs /\ (inputs[h].buffer # <<>> \/ inputs[h].closed)
OutputReady(h) == h \in DOMAIN outputs /\ ~ outputs[h].closed

\* poll_many: the indices of the sources that are ready.
Ready == {k \in DOMAIN sources : \/ sources[k].kind = "input" /\ InputReady(sources[k].handle)
                                 \/ sources[k].kind = "output" /\ OutputReady(sources[k].handle)
                                 \/ sources[k].kind = "timer"}

-----------------------------------------------------------------------------
Next ==
    \/ \E n \in 0 .. MaxBytes : NewInputStream(n)
    \/ NewOutputStream
    \/ \E i \in DOMAIN inputs :
        \/ \E n \in 1 .. MaxBytes : PushData(i, n) \/ Read(i, n)
        \/ CloseInput(i)
    \/ \E o \in DOMAIN outputs :
        \/ \E n \in 1 .. MaxBytes : Write(o, n)
        \/ Flush(o)
        \/ CloseOutput(o)
    \/ \E i \in DOMAIN inputs, o \in DOMAIN outputs, n \in 1 .. MaxBytes : Splice(i, o, n)
    \/ \E kind \in {"input", "output"}, h \in 0 .. MaxHandle : Subscribe(kind, h)
    \/ Subscribe("timer", 0)

Spec == Init /\ [][Next]_vars

-----------------------------------------------------------------------------
(***************************************************************************)
(* Properties.                                                             *)
(***************************************************************************)

Byte == 1 .. MaxBytes

TypeOK ==
    /\ DOMAIN inputs \intersect DOMAIN outputs = {}
    /\ DOMAIN inputs \union DOMAIN outputs = 0 .. nextHandle - 1
    /\ \A i \in DOMAIN inputs :
           inputs[i] \in [buffer : Seq(Byte), closed : BOOLEAN, bytesRead : Nat]
    /\ \A o \in DOMAIN outputs :
           outputs[o] \in [buffer : Seq(Byte), flushed : Seq(Byte), closed : BOOLEAN,
                           bytesWritten : Nat]
    /\ sources \in Seq([kind : {"input", "output", "timer"}, handle : 0 .. MaxHandle])
    /\ origin \in [1 .. Len(origin) -> 0 .. MaxHandle]
    /\ DOMAIN taken = DOMAIN inputs

\* Everything an output stream accepted, in the order it was accepted.
Accepted(o) == outputs[o].flushed \o outputs[o].buffer

\* The streams' counters agree with what the streams hold: what was read from
\* an input and what it still holds are all that arrived in it, what was
\* written to an output is all that it flushed or still buffers, and once it is
\* closed all of it is flushed ("Closes the stream, flushing remaining data").
\* It relates bytes_read and bytes_written to every operation that moves bytes,
\* splice and the flush in close included.
CountersAgree ==
    /\ \A i \in DOMAIN inputs :
           inputs[i].bytesRead + Len(inputs[i].buffer)
               = Cardinality({b \in DOMAIN origin : origin[b] = i})
    /\ \A o \in DOMAIN outputs :
           /\ outputs[o].bytesWritten = Len(Accepted(o))
           /\ outputs[o].closed => outputs[o].bytesWritten = Len(outputs[o].flushed)

\* Where bytes are, and the bytes there.
Places == {"input", "taken"} \X DOMAIN inputs \union {"output"} \X DOMAIN outputs
At(p) == CASE p[1] = "input"  -> inputs[p[2]].buffer
           [] p[1] = "taken"  -> taken[p[2]]
           [] p[1] = "output" -> Accepted(p[2])
Placed == UNION {ToSet(At(p)) : p \in Places}

\* No byte is duplicated: over all buffers, all flushed data and all that
\* readers took, a byte occurs once.  Splice, flush and close move bytes from
\* one place to another and must not leave a copy behind.
OncePlaced ==
    /\ \A p \in Places : IsInjective(At(p))
    /\ \A p, q \in Places : p # q => ToSet(At(p)) \intersect ToSet(At(q)) = {}

\* A byte is lost only in a splice into a closed output, which drains the input
\* before its write fails: a step that loses bytes takes them all from one
\* input, and an output is closed.
LostOnlyInClosed ==
    [][Placed \subseteq Placed' \/
          /\ \E o \in DOMAIN outputs : outputs[o].closed
          /\ \E i \in DOMAIN inputs : Placed \ Placed' \subseteq ToSet(inputs[i].buffer)]_vars

\* Bytes keep their order: wherever two bytes of one origin end up together,
\* in a reader's hands or in an output, the one that came first is first,
\* however reads, splices, writes and flushes interleave.
OrderKept ==
    LET ordered(s) == \A j, k \in DOMAIN s :
                          j < k /\ origin[s[j]] = origin[s[k]] => s[j] < s[k]
    IN /\ \A i \in DOMAIN inputs : ordered(taken[i] \o inputs[i].buffer)
       /\ \A o \in DOMAIN outputs : ordered(Accepted(o))

\* What is in the buffers, in the flushed data and in the readers' hands is what
\* arrived: every byte once, and in its order.
BytesKept == TypeOK /\ OncePlaced /\ OrderKept

\* A poll result stays true until somebody acts on the stream: a source that
\* was ready is still ready after any step that neither takes bytes from that
\* stream nor closes that output.  A guest that polls first and reads later
\* relies on it.
ReadyStays ==
    [][\A k \in Ready :
          \/ k \in Ready'
          \/ /\ sources[k].kind = "input"
             /\ inputs'[sources[k].handle].bytesRead > inputs[sources[k].handle].bytesRead
          \/ /\ sources[k].kind = "output"
             /\ outputs'[sources[k].handle].closed]_vars
=============================================================================
