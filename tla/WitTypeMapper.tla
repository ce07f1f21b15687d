--------------------------- MODULE WitTypeMapper ---------------------------
(***************************************************************************)
(* WitTypeMapper of src/wit_types.rs: the definitions and the use items of *)
(* WIT documents are registered one by one, and a type reference is mapped *)
(* by what is registered.  Types are terms: a kind, a name and arguments.  *)
(***************************************************************************)
EXTENDS Naturals, Sequences

CONSTANTS
    Name,        \* names in WIT documents
    PascalCase,  \* wit_to_pascal_case: the Fajar name of each; two may share one
    Ref,         \* type references, with their arguments
    Item,        \* the items of documents
    None,        \* no name
    MaxItems     \* bound: items registered

Generic == [list |-> "Array", option |-> "Option", result |-> "Result", tuple |-> "Tuple"]
Nominal == [record |-> "Struct", enum |-> "Enum", variant |-> "Enum",
            flags |-> "Flags", resource |-> "ResourceHandle"]
Handle == {"own", "borrow"}

\* WitTypeRef.  The part a result<> leaves out is the reference "absent".
RefShape(r) ==
    /\ r.kind \in DOMAIN Generic \union Handle \union {"primitive", "absent", "named"}
    /\ r.kind = "named" => r.name \in Name
    /\ r.args \in Seq(Ref)
    /\ r.kind \in Handle => Len(r.args) = 1

\* WitUseName, and WitTypeDef with its kind.  A function registers nothing.
ItemShape(item) ==
    \/ item.kind = "use" /\ item.name \in Name /\ item.as \in Name
    \/ item.kind \in DOMAIN Nominal /\ item.name \in Name
    \/ item.kind = "alias" /\ item.name \in Name /\ item.target \in Ref

\* References hold all their arguments have.
Closed(refs) == \A r \in refs : \A i \in DOMAIN r.args : r.args[i] \in refs

\* References are finite terms: in every set of them, one has no argument there.
Founded == \A refs \in SUBSET Ref :
               refs # {} => \E r \in refs : \A i \in DOMAIN r.args : r.args[i] \notin refs

ASSUME MapperAssumption ==
    /\ DOMAIN PascalCase = Name
    /\ \A r \in Ref : RefShape(r)
    /\ Founded
    /\ \A item \in Item : ItemShape(item)
    /\ MaxItems \in Nat

VARIABLES
    typeDefs,  \* the Fajar type of each name that is defined
    imports,   \* the original of each name a use brought in
    done       \* history: the items registered so far

mapperVars == <<typeDefs, imports, done>>

Type(kind, name, args) == [kind |-> kind, name |-> name, args |-> args]

MapperInit ==
    /\ typeDefs = [n \in {} |-> None]
    /\ imports = [n \in {} |-> None]
    /\ done = <<>>

\* Slip: what was imported hides what is defined.
NamedImportFirst(n) ==
    IF n \in DOMAIN imports /\ imports[n] \in DOMAIN typeDefs THEN typeDefs[imports[n]]
    ELSE IF n \in DOMAIN typeDefs THEN typeDefs[n]
    ELSE Type("Struct", PascalCase[n], <<>>)

\* A name is looked up as defined, then one step through the imports; an unknown
\* one is taken for a struct.
Named(n) ==
    IF n \in DOMAIN typeDefs THEN typeDefs[n]
    ELSE IF n \in DOMAIN imports /\ imports[n] \in DOMAIN typeDefs THEN typeDefs[imports[n]]
    ELSE Type("Struct", PascalCase[n], <<>>)

\* map_type_ref; own<T> and borrow<T> are T.  map_record_fields and
\* map_variant_cases map the references of fields and payloads with it.
Mapped(ref) ==
    LET map[r \in Ref] ==
            IF r.kind = "named" THEN Named(r.name)
            ELSE IF r.kind \in Handle THEN map[r.args[1]]
            ELSE IF r.kind \in DOMAIN Generic
                 THEN Type(Generic[r.kind], None, [i \in DOMAIN r.args |-> map[r.args[i]]])
            ELSE Type(r.kind, r.name, <<>>)
    IN map[ref]

Set(f, n, v) == [k \in DOMAIN f \union {n} |-> IF k = n THEN v ELSE f[k]]

RegisterUse(item) ==
    /\ item.kind = "use"
    /\ imports' = Set(imports, item.as, item.name)
    /\ UNCHANGED typeDefs

\* Slip: a name keeps its first definition.
RegisterTypeDefOnce(item) ==
    /\ item.kind # "use"
    /\ typeDefs' = IF item.name \in DOMAIN typeDefs THEN typeDefs
                   ELSE Set(typeDefs, item.name,
                            IF item.kind = "alias" THEN Mapped(item.target)
                            ELSE Type(Nominal[item.kind], PascalCase[item.name], item.members))
    /\ UNCHANGED imports

\* A definition of a name replaces the one before, of another interface too.  An
\* alias is what its target maps to now.
RegisterTypeDef(item) ==
    /\ item.kind # "use"
    /\ typeDefs' = Set(typeDefs, item.name,
                       IF item.kind = "alias" THEN Mapped(item.target)
                       ELSE Type(Nominal[item.kind], PascalCase[item.name], item.members))
    /\ UNCHANGED imports

\* register_document and register_interface go through their items one by one;
\* every sequence of items is that of some documents.
Register(item) ==
    /\ Len(done) < MaxItems
    /\ RegisterUse(item) \/ RegisterTypeDef(item)
    /\ done' = Append(done, item)

MapperNext == \E item \in Item : Register(item)

-----------------------------------------------------------------------------
(***************************************************************************)
(* Properties.                                                             *)
(***************************************************************************)

\* The references a reference is made of, itself included, and the names in them.
Parts(ref) == {r \in Ref : \A refs \in SUBSET Ref : ref \in refs /\ Closed(refs) => r \in refs}
Mentions(ref) == {r.name : r \in {q \in Parts(ref) : q.kind = "named"}}

Defines(item, n) == item.kind # "use" /\ item.name = n
Brings(item, n) == item.kind = "use" /\ item.as = n

\* The item may change what n maps to: it defines n, or what n stands for, or
\* brings n in.
Touches(item, n) ==
    \/ Defines(item, n) \/ Brings(item, n)
    \/ \E j \in DOMAIN done : Brings(done[j], n) /\ Defines(item, done[j].name)

\* An alias maps to what its target maps to wherever else it is written, in a
\* record's field say, when nothing its target mentions is defined with it or after
\* it.  For an alias to a later definition this fails: it was made a struct.
AliasesAgree ==
    \A k \in DOMAIN done :
        LET alias == done[k] IN
        /\ alias.kind = "alias"
        /\ \A j \in DOMAIN done : j > k => ~ Defines(done[j], alias.name)
        /\ \A j \in DOMAIN done, n \in Mentions(alias.target) : j >= k => ~ Touches(done[j], n)
        => typeDefs[alias.name] = Mapped(alias.target)

\* What a name maps to changes only when the name is defined, or, while it has no
\* definition of its own, when a use brings it in or its original is defined.
ReferencesMove ==
    [][\A n \in Name : Named(n)' # Named(n) =>
           \E item \in Item :
               /\ done' = Append(done, item)
               /\ \/ Defines(item, n)
                  \/ n \notin DOMAIN typeDefs /\ Touches(item, n)]_mapperVars
=============================================================================
