---------------------------- MODULE WitRegistry ----------------------------
(***************************************************************************)
(* WitRegistry and ImportChecker of src/composition.rs.  An interface path *)
(* is a base and a version.  What an entry says of its functions, and the  *)
(* descriptions and providers the checker stores, are only handed back.    *)
(***************************************************************************)
EXTENDS Naturals

CONSTANTS
    Path,      \* interface paths: pairs of a base and a version
    Standard,  \* the paths with_standard_wasi registers
    Checked,   \* the paths the checker is asked about
    None       \* no path

ASSUME PathAssumption == Standard \subseteq Path /\ Checked \subseteq Path /\ None \notin Path

VARIABLES
    interfaces,  \* the paths that are registered
    preferred,   \* per base: the path an iteration over the hash map meets first
    required,    \* what the checker requires: optional or not
    provided     \* what the checker was told is provided

registryVars == <<interfaces, preferred>>
checkerVars == <<required, provided>>

Base(p) == p[1]
Bases == {Base(p) : p \in Path}
Versions(ps, b) == {p \in ps : Base(p) = b}

\* The orders of iteration of a hash map with the keys ps, as far as they show.
Preferences(ps) ==
    {f \in [Bases -> ps \union {None}] :
        \A b \in Bases : IF Versions(ps, b) = {} THEN f[b] = None ELSE f[b] \in Versions(ps, b)}

RegistryInit ==
    /\ interfaces \in {{}, Standard}
    /\ preferred \in Preferences(interfaces)
    /\ required = [p \in {} |-> FALSE]
    /\ provided = {}

\* Slip: an entry that is replaced is taken out and put in anew.
RegisterPathAnew(p) ==
    /\ interfaces' = interfaces \union {p}
    /\ preferred' \in Preferences(interfaces')
    /\ UNCHANGED checkerVars

\* A key that is there keeps its place; a new one may reorder them all.
RegisterPath(p) ==
    /\ interfaces' = interfaces \union {p}
    /\ IF p \in interfaces THEN UNCHANGED preferred ELSE preferred' \in Preferences(interfaces')
    /\ UNCHANGED checkerVars

\* resolve_flexible; where resolve finds an entry the two agree.
Resolve(p) == IF p \in interfaces THEN p ELSE preferred[Base(p)]

\* A requirement of the same name is replaced, and may become optional.
Require(p, optional) ==
    /\ required' = [q \in DOMAIN required \union {p} |-> IF q = p THEN optional ELSE required[q]]
    /\ UNCHANGED <<registryVars, provided>>

Provide(p) ==
    /\ provided' = provided \union {p}
    /\ UNCHANGED <<registryVars, required>>

\* check: what keeps a component from being satisfied.
Missing == {p \in DOMAIN required : p \notin provided /\ ~ required[p]}

-----------------------------------------------------------------------------
(***************************************************************************)
(* Properties.                                                             *)
(***************************************************************************)

RegistryTypeOK ==
    /\ interfaces \subseteq Path
    /\ preferred \in Preferences(interfaces)
    /\ required \in [DOMAIN required -> BOOLEAN] /\ DOMAIN required \subseteq Path
    /\ provided \subseteq Path

\* What a path resolves to is not taken away, and moves to another version only
\* for a path that is not registered itself, when a new path is registered.
ResolutionMoves ==
    [][\A p \in Path : Resolve(p) # None /\ Resolve(p)' # Resolve(p) =>
           /\ Resolve(p)' # None /\ Base(Resolve(p)') = Base(p)
           /\ p \notin interfaces
           /\ interfaces' # interfaces]_<<registryVars, checkerVars>>
=============================================================================
