------------------------------ MODULE WitTypes ------------------------------
(***************************************************************************)
(* src/wit_types.rs: types are registered, and programs make flag sets of  *)
(* the flags types that are registered at the time.                        *)
(***************************************************************************)
EXTENDS WitTypeMapper, FlagSet

vars == <<mapperVars, sets>>

Init == MapperInit /\ FlagsInit

\* FlagSet::new with the members of a registered flags type.
NewOfType(x, n) ==
    /\ typeDefs[n].kind = "Flags"
    /\ NewFlags(x, typeDefs[n].args)

Next ==
    \/ MapperNext /\ UNCHANGED sets
    \/ FlagsNext /\ UNCHANGED mapperVars
    \/ \E x \in Variable, n \in DOMAIN typeDefs : NewOfType(x, n) /\ UNCHANGED mapperVars

Spec == Init /\ [][Next]_vars
=============================================================================
