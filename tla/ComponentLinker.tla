-------------------------- MODULE ComponentLinker --------------------------
(***************************************************************************)
(* ComponentInstance and ComponentLinker of src/composition.rs.  The map   *)
(* of an instance from imports to providers is its set of import names:    *)
(* nothing reads the providers.  The bytes of a component, the types of an *)
(* export and the exit code are data no operation decides on.  A call that *)
(* returns an error changes nothing and is no step.                        *)
(***************************************************************************)
EXTENDS Naturals, Sequences

CONSTANTS
    Component,  \* names of instances
    Name,       \* names of imports and exports
    Template,   \* the imports and exports instances are registered with
    MaxLinks    \* bound: links recorded

ASSUME LinkerAssumption ==
    /\ Template \subseteq [imports : SUBSET Name, exports : SUBSET Name]
    /\ MaxLinks \in Nat

VARIABLES
    instances,  \* the registered instances, by name
    links       \* the links, in the order they were made

linkerVars == <<instances, links>>

Instance == [imports : SUBSET Name, exports : SUBSET Name, executed : BOOLEAN]
Link == [provider : Component, export : Name, consumer : Component, import : Name]

LinkerInit ==
    /\ instances = [c \in {} |-> <<>>]
    /\ links = <<>>

Registered == DOMAIN instances

\* new, add_export and register: an instance of the same name is replaced, and
\* the links to and from it stay.
Register(c, t) ==
    /\ instances' = [d \in Registered \union {c} |->
                        IF d = c
                        THEN [imports |-> t.imports, exports |-> t.exports, executed |-> FALSE]
                        ELSE instances[d]]
    /\ UNCHANGED links

Exports(c, e) == c \in Registered /\ e \in instances[c].exports
Imports(c, i) == c \in Registered /\ i \in instances[c].imports

\* Slip: one of the two names is enough.
LinkEither(p, e, c, i) ==
    /\ Exports(p, e) \/ Imports(c, i)
    /\ Len(links) < MaxLinks
    /\ links' = Append(links, [provider |-> p, export |-> e, consumer |-> c, import |-> i])
    /\ UNCHANGED instances

\* A component may be linked to itself, and an import more than once.
LinkTo(p, e, c, i) ==
    /\ Exports(p, e)
    /\ Imports(c, i)
    /\ Len(links) < MaxLinks
    /\ links' = Append(links, [provider |-> p, export |-> e, consumer |-> c, import |-> i])
    /\ UNCHANGED instances

\* add_export through get_instance_mut.
AddExport(c, e) ==
    /\ instances' = [instances EXCEPT ![c].exports = @ \union {e}]
    /\ UNCHANGED links

\* run through get_instance_mut: once, whatever check_all_imports says.
Run(c) ==
    /\ ~ instances[c].executed
    /\ instances' = [instances EXCEPT ![c].executed = TRUE]
    /\ UNCHANGED links

LinkerNext ==
    \/ \E c \in Component, t \in Template : Register(c, t)
    \/ \E p, c \in Component, e, i \in Name : LinkTo(p, e, c, i)
    \/ \E c \in Registered : Run(c) \/ \E e \in Name : AddExport(c, e)

LinkedTo(c, i) == {k \in 1 .. Len(links) : links[k].consumer = c /\ links[k].import = i}

\* check_all_imports
Unsatisfied ==
    {ci \in Registered \X Name : Imports(ci[1], ci[2]) /\ LinkedTo(ci[1], ci[2]) = {}}

-----------------------------------------------------------------------------
(***************************************************************************)
(* Properties.                                                             *)
(***************************************************************************)

LinkerTypeOK ==
    /\ Registered \subseteq Component
    /\ instances \in [Registered -> Instance]
    /\ links \in Seq(Link)

\* The link k joins an export that is there to an import that is there.
Sound(k) ==
    /\ Exports(links[k].provider, links[k].export)
    /\ Imports(links[k].consumer, links[k].import)

\* What the linker has checked goes wrong by a registration only.  A link is sound when
\* it is made, and while no instance of the name of one of its ends is registered it
\* stays so, whatever is added, run and linked.  check_all_imports reports an import
\* anew only when its component is registered, and ceases to when that is done or when
\* a link that is sound was made for it.  It does not report a link that broke.
OnlyRegisterUnsettles ==
    [][LET Registers(c) == \E t \in Template : Register(c, t) IN
       linkerVars' # linkerVars =>
           /\ \A k \in 1 .. Len(links') :
                  \/ Sound(k)'
                  \/ /\ k <= Len(links)
                     /\ ~ Sound(k) \/ Registers(links[k].provider) \/ Registers(links[k].consumer)
           /\ \A ci \in Unsatisfied' \ Unsatisfied : Registers(ci[1])
           /\ \A ci \in Unsatisfied \ Unsatisfied' :
                  \/ Registers(ci[1])
                  \/ \E k \in LinkedTo(ci[1], ci[2])' : k > Len(links) /\ Sound(k)']_linkerVars
=============================================================================
