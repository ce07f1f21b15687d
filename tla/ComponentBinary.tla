-------------------------- MODULE ComponentBinary ---------------------------
(***************************************************************************)
(* The component binaries of src/component.rs: ComponentBuilder, the bytes *)
(* its build makes of types, imports, exports and a core module, and the   *)
(* walk over the sections of such bytes that validate_component, and       *)
(* SizeReport::analyze of src/composition.rs, do.                          *)
(*                                                                         *)
(* Names and modules are what their length is: all their bytes are the     *)
(* same letter.  The reader may be handed bytes that were cut short.       *)
(***************************************************************************)
EXTENDS Integers, FiniteSets, Sequences

CONSTANTS
    Vals,        \* the component value types, a sequence of sets: a type has only
                 \* types of earlier sets inside
    Refs,        \* WIT type references, in the same way by their arguments
    Type,        \* the component types, function names and signatures included
    World,       \* lists of items: the worlds, and the name maps of adapters
    NameLength,  \* the lengths names have
    ModuleSize,  \* the lengths core modules have
    CutAt,       \* where bytes may be cut short
    Absent,      \* Option::None
    MaxItems     \* bound: types, imports and exports of one component

IsU32(n) == n \in Nat /\ n \div 65536 < 65536

Val == UNION {Vals[d] : d \in DOMAIN Vals}
Ref == UNION {Refs[d] : d \in DOMAIN Refs}

\* Each kind of value type with its opcodes; a bare index has none.
Opcode == [primitive |-> 115 .. 127, wrapper |-> {111, 112}, result |-> {110},
           tuple |-> {109}, record |-> {108}, variant |-> {107}, flags |-> {106},
           handle |-> {104, 105}, ref |-> {0}]

\* ComponentValType: t is a value type around types of B.
IsValType(t, B) ==
    /\ t \in [kind : DOMAIN Opcode, op : 0 .. 127, index : Nat,
              names : Seq(NameLength), inner : Seq(B \union {Absent})]
    /\ IsU32(t.index) /\ IsU32(Len(t.names)) /\ IsU32(Len(t.inner))
    /\ t.op \in Opcode[t.kind]
    /\ t.kind \notin {"handle", "ref"} => t.index = 0
    /\ t.kind \notin {"record", "variant", "flags"} => t.names = <<>>
    /\ t.kind \in {"primitive", "flags", "handle", "ref"} => t.inner = <<>>
    /\ t.kind \notin {"result", "variant"} => t.inner \in Seq(B)
    /\ t.kind = "wrapper" => Len(t.inner) = 1
    /\ t.kind = "result" => Len(t.inner) = 2
    /\ t.kind \in {"record", "variant"} => Len(t.names) = Len(t.inner)

\* WitTypeRef: r is a reference with arguments in B.
IsRef(r, B) ==
    /\ r \in [kind : {"primitive", "named", "list", "option", "result", "tuple", "own", "borrow"},
              op : {0} \union Opcode["primitive"], name : Nat, args : Seq(B \union {Absent})]
    /\ IsU32(Len(r.args))
    /\ IF r.kind = "primitive" THEN r.op # 0 ELSE r.op = 0
    /\ r.kind \in {"primitive", "named"} => r.args = <<>>
    /\ r.kind # "result" => r.args \in Seq(B)
    /\ r.kind \in {"list", "option", "own", "borrow"} => Len(r.args) = 1
    /\ r.kind = "result" => Len(r.args) = 2

\* Functions whose parameters and result are types of S.
Functions(S) == [name : NameLength, params : Seq([name : NameLength, type : S]),
                 result : S \union {Absent}]

\* ComponentTypeKind
IsType(t) ==
    /\ t \in [kind : {"func", "instance", "component"}, funcs : Seq(Functions(Val))]
    /\ IsU32(Len(t.funcs)) /\ \A k \in DOMAIN t.funcs : IsU32(Len(t.funcs[k].params))
    /\ t.kind = "func" => Len(t.funcs) = 1
    /\ t.kind = "component" => t.funcs = <<>>

\* An import or an export: of a function, or of an interface (no func).
IsItem(i) ==
    /\ i \in [import : BOOLEAN, name : NameLength, func : Functions(Ref) \union {Absent}]
    /\ i.func # Absent => i.func.name = i.name /\ IsU32(Len(i.func.params))

Before(layers, d) == UNION {layers[c] : c \in 1 .. d - 1}

ASSUME ValAssumption ==
    /\ Vals \in Seq(SUBSET Val) /\ Absent \notin Val
    /\ \A d \in DOMAIN Vals : \A t \in Vals[d] : IsValType(t, Before(Vals, d))
ASSUME RefAssumption ==
    /\ Refs \in Seq(SUBSET Ref) /\ Absent \notin Ref
    /\ \A d \in DOMAIN Refs : \A r \in Refs[d] : IsRef(r, Before(Refs, d))
ASSUME NumberAssumption ==
    /\ ModuleSize \subseteq Nat /\ CutAt \subseteq Nat /\ IsU32(MaxItems)
    /\ \A n \in NameLength : IsU32(n)
ASSUME TypeAssumption == \A t \in Type : IsType(t)
ASSUME WorldAssumption ==
    \A items \in World : /\ items \in Seq({items[k] : k \in DOMAIN items})
                         /\ IsU32(Len(items))
                         /\ \A k \in DOMAIN items : IsItem(items[k])

VARIABLES
    builder,     \* the ComponentBuilder
    world,       \* history: the items the builder was made from, or none
    bytes,       \* what the last build returned, and the builder keeps
    input,       \* the bytes a reader was handed
    pos,         \* the reader's position in them, from 0, or none
    found,       \* the sections the reader found
    sections     \* ghost: the sections of the last build

binaryVars == <<builder, world, bytes, input, pos, found, sections>>
reader == <<input, pos, found>>

Letters(n) == [k \in 1 .. n |-> 97]

-----------------------------------------------------------------------------
(***************************************************************************)
(* Encoding.                                                               *)
(***************************************************************************)

\* encode_u32: seven bits a turn, five turns at most.
Leb(n) ==
    LET val[k \in 0 .. 5] == IF k = 0 THEN n ELSE val[k - 1] \div 128
        size == CHOOSE k \in 1 .. 5 : /\ val[k] = 0 \/ k = 5
                                      /\ \A j \in 1 .. k - 1 : val[j] # 0
    IN [k \in 1 .. size |-> (val[k - 1] % 128) + (IF k < size THEN 128 ELSE 0)]

Counted(s) == Leb(Len(s)) \o s
Text(n) == Counted(Letters(n))

Concat(s) ==
    LET last[k \in 0 .. Len(s)] == IF k = 0 THEN <<>> ELSE s[Len(s) + 1 - k] \o last[k - 1]
    IN last[Len(s)]
Listed(s) == Leb(Len(s)) \o Concat(s)

\* encode_val_type, where e gives the bytes of the types inside.  A type is an opcode
\* with those; an index is an opcode with one, or, for a type reference, bare.
Optional(e, t) == IF t = Absent THEN <<0>> ELSE <<1>> \o e[t]
ValBytes(e, t) ==
    LET inner == t.inner
    IN CASE t.kind = "primitive" -> <<t.op>>
         [] t.kind = "wrapper"   -> <<t.op>> \o e[inner[1]]
         [] t.kind = "result"    -> <<t.op>> \o Optional(e, inner[1]) \o Optional(e, inner[2])
         [] t.kind = "tuple"     -> <<t.op>> \o Listed([k \in DOMAIN inner |-> e[inner[k]]])
         [] t.kind = "record"    -> <<t.op>> \o Listed([k \in DOMAIN inner |->
                                                   Text(t.names[k]) \o e[inner[k]]])
         [] t.kind = "variant"   -> <<t.op>> \o Listed([k \in DOMAIN inner |->
                                                   Text(t.names[k]) \o Optional(e, inner[k])])
         [] t.kind = "flags"     -> <<t.op>> \o Listed([k \in DOMAIN t.names |-> Text(t.names[k])])
         [] t.kind = "handle"    -> <<t.op>> \o Leb(t.index)
         [] t.kind = "ref"       -> Leb(t.index)
EncodeValType[t \in Val] == ValBytes(EncodeValType, t)

ParamBytes(f) ==
    Listed([k \in DOMAIN f.params |-> Text(f.params[k].name) \o EncodeValType[f.params[k].type]])

\* Slip: a function without a result says nothing of it.
SignatureBare(f) ==
    ParamBytes(f) \o (IF f.result = Absent THEN <<>> ELSE EncodeValType[f.result])

\* A function's parameters and result.
Signature(f) == ParamBytes(f) \o Optional(EncodeValType, f.result)

\* encode_component_type
EncodeType(t) ==
    CASE t.kind = "func"      -> <<64>> \o Text(t.funcs[1].name) \o Signature(t.funcs[1])
      [] t.kind = "instance"  -> <<66>> \o Listed([k \in DOMAIN t.funcs |->
                                     Text(t.funcs[k].name) \o <<64>> \o Signature(t.funcs[k])])
      [] t.kind = "component" -> <<65>>

ExportCode == [module |-> 0, func |-> 1, instance |-> 2, component |-> 3]

\* "\0asm", and the version with its layer.
Header == <<0, 97, 115, 109, 13, 0, 1, 0>>

\* The sections build writes, in its order; an empty one is left out.
Sections(b) ==
    LET section(there, id, data) == IF there THEN <<[id |-> id, data |-> data]>> ELSE <<>>
        import(i) == Text(i.name) \o Leb(i.type)
        export(e) == Text(e.name) \o <<ExportCode[e.kind]>> \o Leb(e.index)
    IN section(b.core # Absent, 0, Letters(b.core))
         \o section(b.types # <<>>, 1,
                    Listed([k \in DOMAIN b.types |-> EncodeType(b.types[k])]))
         \o section(b.imports # <<>>, 2,
                    Listed([k \in DOMAIN b.imports |-> import(b.imports[k])]))
         \o section(b.exports # <<>>, 3,
                    Listed([k \in DOMAIN b.exports |-> export(b.exports[k])]))

SectionBytes(s) == <<s.id>> \o Counted(s.data)
Built(made) == Header \o Concat([k \in DOMAIN made |-> SectionBytes(made[k])])

-----------------------------------------------------------------------------
(***************************************************************************)
(* The builder.  enable_realloc and add_post_return leave no byte behind   *)
(* and are left out.                                                       *)
(***************************************************************************)

NewBuilder == [types |-> <<>>, imports |-> <<>>, exports |-> <<>>, core |-> Absent]

BinaryInit ==
    /\ builder = NewBuilder /\ world = <<>>
    /\ bytes = <<>>
    /\ input = <<>> /\ pos = Absent /\ found = <<>>
    /\ sections = <<>>

Items == Len(builder.types) + Len(builder.imports) + Len(builder.exports)

SetCoreModule(n) ==
    /\ pos = Absent
    /\ builder' = [builder EXCEPT !.core = n]
    /\ UNCHANGED <<world, bytes, reader, sections>>

AddType(t) ==
    /\ pos = Absent /\ Items < MaxItems
    /\ builder' = [builder EXCEPT !.types = Append(@, t)]
    /\ UNCHANGED <<world, bytes, reader, sections>>

AddImport(name, type) ==
    /\ pos = Absent /\ Items < MaxItems
    /\ builder' = [builder EXCEPT !.imports = Append(@, [name |-> name, type |-> type])]
    /\ UNCHANGED <<world, bytes, reader, sections>>

AddExport(name, kind, index) ==
    /\ pos = Absent /\ Items < MaxItems
    /\ builder' = [builder EXCEPT !.exports =
                      Append(@, [name |-> name, kind |-> kind, index |-> index])]
    /\ UNCHANGED <<world, bytes, reader, sections>>

\* wit_type_to_component, where e gives the types of the arguments.  Which type a
\* handle or a name means is not resolved: all of them are type 0.
Plain(kind, op, inner) == [kind |-> kind, op |-> op, index |-> 0, names |-> <<>>, inner |-> inner]
Converted(e, r) ==
    LET inner == [k \in DOMAIN r.args |-> IF r.args[k] = Absent THEN Absent ELSE e[r.args[k]]]
    IN CASE r.kind = "primitive" -> Plain("primitive", r.op, <<>>)
         [] r.kind = "list"      -> Plain("wrapper", 112, inner)
         [] r.kind = "option"    -> Plain("wrapper", 111, inner)
         [] r.kind = "result"    -> Plain("result", 110, inner)
         [] r.kind = "tuple"     -> Plain("tuple", 109, inner)
         [] r.kind = "own"       -> Plain("handle", 105, <<>>)
         [] r.kind = "borrow"    -> Plain("handle", 104, <<>>)
         [] r.kind = "named"     -> Plain("ref", 0, <<>>)
ValType[r \in Ref] == Converted(ValType, r)

ASSUME ConversionAssumption == \A r \in Ref : ValType[r] \in Val

TypedParams(f) ==
    [k \in DOMAIN f.params |-> [name |-> f.params[k].name, type |-> ValType[f.params[k].type]]]

\* Slip: the result is forgotten.
ItemTypeVoid(i) ==
    IF i.func = Absent THEN [kind |-> "instance", funcs |-> <<>>]
    ELSE [kind |-> "func", funcs |-> <<
             [name |-> i.func.name, params |-> TypedParams(i.func), result |-> Absent]>>]

\* wit_func_to_component; an interface is an instance without functions.
ItemType(i) ==
    IF i.func = Absent THEN [kind |-> "instance", funcs |-> <<>>]
    ELSE [kind |-> "func", funcs |-> <<
             [name |-> i.func.name, params |-> TypedParams(i.func),
              result |-> IF i.func.result = Absent THEN Absent ELSE ValType[i.func.result]]>>]

\* For each item a type is added, then the import or export that has its index.
AddItem(b, i) ==
    LET typed == [b EXCEPT !.types = Append(@, ItemType(i))]
        index == Len(b.types)
    IN IF i.import
       THEN [typed EXCEPT !.imports = Append(@, [name |-> i.name, type |-> index])]
       ELSE [typed EXCEPT !.exports = Append(@, [name |-> i.name, index |-> index,
                 kind |-> IF i.func = Absent THEN "instance" ELSE "func"])]

\* A new builder with the items added in turn.
WithItems(items, core) ==
    LET after[k \in 0 .. Len(items)] == IF k = 0 THEN [NewBuilder EXCEPT !.core = core]
                                        ELSE AddItem(after[k - 1], items[k])
    IN after[Len(items)]
FromItems(items, core) == builder' = WithItems(items, core) /\ world' = items

\* build_component_from_world
FromWorld(items) == FromItems(items, Absent) /\ UNCHANGED <<bytes, reader, sections>>

\* build keeps the bytes it returns.  Bound: the size of a section is a u32.
BuildOf(b) ==
    LET made == Sections(b)
    IN /\ \A k \in DOMAIN made : IsU32(Len(made[k].data))
       /\ bytes' = Built(made)
       /\ sections' = [k \in DOMAIN made |-> [id |-> made[k].id, size |-> Len(made[k].data)]]

Build == pos = Absent /\ BuildOf(builder) /\ UNCHANGED <<builder, world, reader>>

\* ComponentAdapter::adapt wraps a core module and builds: it imports interfaces, then
\* exports functions of which it states neither parameters nor result.
Adapt(items, core) ==
    /\ \A k \in DOMAIN items :
           IF items[k].import THEN items[k].func = Absent /\ \A j \in 1 .. k : items[j].import
           ELSE items[k].func = [name |-> items[k].name, params |-> <<>>, result |-> Absent]
    /\ FromItems(items, core)
    /\ BuildOf(builder')
    /\ UNCHANGED reader

-----------------------------------------------------------------------------
(***************************************************************************)
(* The reader.                                                             *)
(***************************************************************************)

\* The bytes are checked to begin as a component does; the walk starts.
Read(n) ==
    /\ pos = Absent
    /\ n = Len(bytes) \/ (n \in CutAt /\ n < Len(bytes))
    /\ n >= 8
    /\ input' = SubSeq(bytes, 1, n)
    /\ SubSeq(input', 1, 4) = SubSeq(Header, 1, 4) /\ input'[5] = 13
    /\ pos' = 8
    /\ found' = <<>>
    /\ UNCHANGED <<builder, world, bytes, sections>>

\* Slip: only the bytes that announce another are counted.
LebLengthShort(s) ==
    Cardinality({k \in 1 .. IF Len(s) < 5 THEN Len(s) ELSE 5 :
                    \A j \in 1 .. k : s[j] >= 128})

\* read_leb128: how many bytes it consumes, at most five and never past the
\* end, and the number it makes of them.
LebLength(s) ==
    Cardinality({k \in 1 .. IF Len(s) < 5 THEN Len(s) ELSE 5 :
                    \A j \in 1 .. k - 1 : s[j] >= 128})
LebValue(s) ==
    LET size == LebLength(s)
        last[k \in 0 .. size] == IF k = 0 THEN 0
                                 ELSE (s[size + 1 - k] % 128) + 128 * last[k - 1]
    IN last[size]

\* One turn of the loop over sections; the size is not compared with what is left.
Section ==
    /\ pos # Absent
    /\ pos < Len(input)
    /\ LET size == SubSeq(input, pos + 2, Len(input))
       IN /\ found' = Append(found, [id |-> input[pos + 1], size |-> LebValue(size)])
          /\ pos' = pos + 1 + LebLength(size) + LebValue(size)
    /\ UNCHANGED <<builder, world, bytes, input, sections>>

Sum(s) ==
    LET sum[k \in 0 .. Len(s)] == IF k = 0 THEN 0 ELSE sum[k - 1] + s[k]
    IN sum[Len(s)]

\* What SizeReport::analyze makes of the sections found: the last section of a
\* kind gives that kind's size; stripped leaves out the custom sections.
SizeReport ==
    LET places(id) == {k \in DOMAIN found : found[k].id = id}
        last(id) == IF places(id) = {} THEN 0
                    ELSE found[CHOOSE k \in places(id) : \A j \in places(id) : j <= k].size
        custom == Sum([k \in DOMAIN found |-> IF found[k].id = 11 THEN found[k].size ELSE 0])
    IN [total |-> Len(input),
        stripped |-> IF custom > Len(input) THEN 0 ELSE Len(input) - custom,
        core |-> last(0), types |-> last(1), imports |-> last(2), exports |-> last(3)]

\* The report is returned.
Report ==
    /\ pos # Absent
    /\ pos >= Len(input)
    /\ pos' = Absent /\ found' = <<>> /\ input' = <<>>
    /\ UNCHANGED <<builder, world, bytes, sections>>

-----------------------------------------------------------------------------
BinaryNext ==
    \/ \E n \in ModuleSize : SetCoreModule(n)
    \/ \E t \in Type : AddType(t)
    \/ \E name \in NameLength, index \in 0 .. MaxItems - 1 :
        \/ AddImport(name, index)
        \/ \E kind \in DOMAIN ExportCode : AddExport(name, kind, index)
    \/ /\ builder = NewBuilder /\ bytes = <<>>
       /\ \E items \in World : \/ FromWorld(items)
                               \/ \E core \in ModuleSize : Adapt(items, core)
    \/ Build
    \/ \E n \in CutAt \union {Len(bytes)} : Read(n)
    \/ Section
    \/ Report

BinarySpec == BinaryInit /\ [][BinaryNext]_binaryVars

-----------------------------------------------------------------------------
(***************************************************************************)
(* Properties.                                                             *)
(***************************************************************************)

\* The walk finds the sections the builder wrote, each with its size, and ends
\* where the bytes end; the sizes reported, with the header and what announces
\* each section, then add up to the whole.  Of bytes that were cut short it
\* finds the first sections, and misreads the last one's size at most.
SectionsFound ==
    pos # Absent =>
        /\ Len(found) <= Len(sections)
        /\ \A k \in DOMAIN found :
               /\ found[k].id = sections[k].id
               /\ found[k] = sections[k] \/ (k = Len(found) /\ Len(input) < Len(bytes))
        /\ Len(input) = Len(bytes) /\ pos >= Len(bytes) =>
               /\ pos = Len(bytes) /\ found = sections
               /\ SizeReport.stripped =
                      Len(Header) + SizeReport.core + SizeReport.types + SizeReport.imports
                        + SizeReport.exports
                        + Sum([k \in DOMAIN sections |-> 1 + Len(Leb(sections[k].size))])

\* s is the beginning of t.
Begins(s, t) == Len(s) <= Len(t) /\ SubSeq(t, 1, Len(s)) = s

\* A reader can tell the entries of a type section apart: the encodings of two
\* different types differ, and neither is the beginning of the other.
TypesDistinct ==
    \A j, k \in DOMAIN builder.types :
        builder.types[j] # builder.types[k] =>
            ~ Begins(EncodeType(builder.types[j]), EncodeType(builder.types[k]))

\* The type index the component gives to the item k of its world: that of the import
\* or export at the item's place among the imports or exports.
IndexOf(k) ==
    LET place == Cardinality({j \in 1 .. k : world[j].import = world[k].import})
    IN IF world[k].import THEN builder.imports[place].type ELSE builder.exports[place].index

\* What is left of a reference when it is left open which type a handle or name means;
\* e gives what is left of its arguments.
Opened(e, r) ==
    IF r.kind \in {"own", "borrow", "named"} THEN [kind |-> r.kind, op |-> 0, args |-> <<>>]
    ELSE [kind |-> r.kind, op |-> r.op,
          args |-> [k \in DOMAIN r.args |-> IF r.args[k] = Absent THEN <<>> ELSE <<e[r.args[k]]>>]]
Unresolved[r \in Ref] == Opened(Unresolved, r)

UnresolvedItem(i) ==
    IF i.func = Absent THEN <<>>
    ELSE <<i.name,
           [k \in DOMAIN i.func.params |-> <<i.func.params[k].name, Unresolved[i.func.params[k].type]>>],
           IF i.func.result = Absent THEN <<>> ELSE <<Unresolved[i.func.result]>>>>

\* Every import and export of a world refers to a type from which its WIT signature
\* can be read back, but for which resource or named type it means: two items
\* get one encoding exactly when their signatures are the same up to that.
WorldReadable ==
    \A k \in DOMAIN world : \A j \in 1 .. k - 1 :
        EncodeType(builder.types[IndexOf(j) + 1]) = EncodeType(builder.types[IndexOf(k) + 1])
            <=> UnresolvedItem(world[j]) = UnresolvedItem(world[k])
=============================================================================
