------------------------- MODULE ComponentBinaryMC -------------------------
(* Component types for model checking ComponentBinary: every kind of value  *)
(* type, in the positions that could be confused with one another.          *)
EXTENDS ComponentBinary

ValOf(kind, op, names, inner) ==
    [kind |-> kind, op |-> op, index |-> 0, names |-> names, inner |-> inner]
Names(s) == [k \in DOMAIN s |-> 1]

Bool == ValOf("primitive", 127, <<>>, <<>>)
S64  == ValOf("primitive", 119, <<>>, <<>>)
List(t)      == ValOf("wrapper", 112, <<>>, <<t>>)
OptionOf(t)  == ValOf("wrapper", 111, <<>>, <<t>>)
Result(t, e) == ValOf("result", 110, <<>>, <<t, e>>)
Tuple(s)     == ValOf("tuple", 109, <<>>, s)
Record(s)    == ValOf("record", 108, Names(s), s)
Variant(s)   == ValOf("variant", 107, Names(s), s)
Flags(n)     == ValOf("flags", 106, [k \in 1 .. n |-> 1], <<>>)
OwnHandle    == ValOf("handle", 105, <<>>, <<>>)
Borrowed     == ValOf("handle", 104, <<>>, <<>>)
TypeRef      == ValOf("ref", 0, <<>>, <<>>)

Simple == {Bool, S64, Result(Absent, Absent), Tuple(<<>>), Variant(<<Absent>>), Flags(0), Flags(2),
           OwnHandle, Borrowed, TypeRef}
Nested == {List(Bool), OptionOf(Bool), List(TypeRef), OptionOf(TypeRef), Result(Bool, Absent),
           Result(Absent, Bool), Tuple(<<Bool, Bool>>), Tuple(<<Bool, TypeRef>>),
           Record(<<Bool>>), Variant(<<Bool>>)}
ValTypes == <<Simple, Nested, {List(OptionOf(Bool))}>>

Results == {Absent} \union ((UNION {ValTypes[d] : d \in 1 .. 3})
                              \ {Borrowed, List(TypeRef), OptionOf(TypeRef), Tuple(<<Bool, TypeRef>>)})

Func(name, params, result) == [name |-> name, params |-> params, result |-> result]
Param(t) == [name |-> 1, type |-> t]

Functions1 == {Func(1, <<>>, r) : r \in Results}
                  \union {Func(1, <<Param(Bool)>>, r) : r \in {Absent, Bool}}
                  \union {Func(130, <<>>, Absent)}

Types == {[kind |-> "func", funcs |-> <<f>>] : f \in Functions1}
             \union {[kind |-> "instance", funcs |-> s] :
                        s \in {<<>>, <<Func(1, <<>>, Absent)>>, <<Func(1, <<>>, Bool)>>}}
             \union {[kind |-> "component", funcs |-> <<>>]}

\* WIT references, and the functions of worlds that have them as parameter or result.
RefTo(kind, args) == [kind |-> kind, op |-> 0, name |-> 0, args |-> args]
BoolRef == [RefTo("primitive", <<>>) EXCEPT !.op = 127]
Named(n) == [RefTo("named", <<>>) EXCEPT !.name = n]
Leaves == {BoolRef, Named(1), Named(2)}
References == <<Leaves \union {RefTo("tuple", <<>>)},
                {RefTo(kind, <<r>>) : kind \in {"list", "option", "own", "borrow"}, r \in Leaves}
                    \union {RefTo("result", <<Absent, BoolRef>>), RefTo("result", <<BoolRef, Absent>>),
                            RefTo("tuple", <<BoolRef, Named(1)>>)}>>

Signatures == {Func(1, <<>>, Absent),
               Func(1, <<Param(RefTo("own", <<Named(1)>>))>>, RefTo("own", <<Named(2)>>))}
                  \union {Func(1, <<>>, r) : r \in References[1] \union References[2]}

Item == {[import |-> i, name |-> n, func |-> f] :
            i \in BOOLEAN, n \in {1, 130}, f \in {Absent, Func(1, <<>>, Absent), Func(130, <<>>, Absent)}}
NamedItem == {i \in Item : i.func # Absent => i.func.name = i.name}
TypedItem == [import : {FALSE}, name : {1}, func : Signatures]

Worlds == {<<i, j>> : i, j \in NamedItem} \union {<<i, j>> : i, j \in TypedItem}
=============================================================================
