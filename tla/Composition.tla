---------------------------- MODULE Composition ----------------------------
(***************************************************************************)
(* What a host composes components with in src/composition.rs: it registers*)
(* instances and links them, registers interfaces, and tells the import    *)
(* checker what is required and what is provided.  None of the three asks  *)
(* another: provide takes any name, whether the registry resolves it, an   *)
(* instance exports it or neither.                                         *)
(***************************************************************************)
EXTENDS ComponentLinker, WitRegistry

vars == <<linkerVars, registryVars, checkerVars>>

Init == LinkerInit /\ RegistryInit

Next ==
    \/ LinkerNext /\ UNCHANGED <<registryVars, checkerVars>>
    \/ /\ \/ \E p \in Path : RegisterPath(p)
          \/ \E p \in Checked, optional \in BOOLEAN : Require(p, optional)
          \/ \E p \in Checked : Provide(p)
       /\ UNCHANGED linkerVars

Spec == Init /\ [][Next]_vars

-----------------------------------------------------------------------------
TypeOK == LinkerTypeOK /\ RegistryTypeOK
=============================================================================
