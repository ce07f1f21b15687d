--------------------------- MODULE CompositionMC ---------------------------
(***************************************************************************)
(* The instance of Composition for TLC: three versions of one interface,   *)
(* another interface, and two components, each registered as a provider of *)
(* one or as a consumer of it that exports the other.                      *)
(***************************************************************************)
EXTENDS Composition, TLC

CONSTANTS io, clock, v1, v2, v3

MCPath == {<<io, v1>>, <<io, v2>>, <<io, v3>>, <<clock, v1>>}
MCName == {<<io, v1>>, <<clock, v1>>}
MCTemplate == {[imports |-> {}, exports |-> {<<io, v1>>}],
               [imports |-> {<<io, v1>>}, exports |-> {<<clock, v1>>}]}
MCStandard == {<<io, v2>>}
MCChecked == {<<io, v1>>}
Symmetric == Permutations(Component)
=============================================================================
