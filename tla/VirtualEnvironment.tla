------------------------- MODULE VirtualEnvironment -------------------------
(***************************************************************************)
(* The files of the VirtualEnvironment of src/deployment.rs: a list in     *)
(* which a path may occur several times.  What else the environment holds  *)
(* (bindings, variables, clock, seed, captured output) is stored and       *)
(* decides nothing.                                                        *)
(***************************************************************************)
EXTENDS Naturals, Sequences

CONSTANTS
    Path,      \* paths of files
    Data,      \* contents
    None,      \* Option::None
    MaxFiles   \* bound: files in the list

VARIABLE files   \* the list of files

vars == <<files>>

File(p, d, readOnly) == [path |-> p, contents |-> d, readOnly |-> readOnly]

Init == files = <<>>

\* The entries of a path; all but the first are hidden.
Entries(p) == {k \in DOMAIN files : files[k].path = p}
First(p) == CHOOSE k \in Entries(p) : \A j \in Entries(p) : k <= j

\* Slip: a file takes the place of what the path holds.
AddFileInPlace(p, d, readOnly) ==
    IF Entries(p) # {} THEN files' = [files EXCEPT ![First(p)] = File(p, d, readOnly)]
    ELSE Len(files) < MaxFiles /\ files' = Append(files, File(p, d, readOnly))

\* add_file and add_readonly_file look at nothing that is there.
AddFile(p, d, readOnly) ==
    /\ Len(files) < MaxFiles
    /\ files' = Append(files, File(p, d, readOnly))

\* A path that has no file gets one; a write to a read-only one is refused.
WriteFile(p, d) ==
    \/ Entries(p) = {} /\ AddFile(p, d, FALSE)
    \/ /\ Entries(p) # {}
       /\ files' = IF files[First(p)].readOnly THEN files
                   ELSE [files EXCEPT ![First(p)].contents = d]

ReadFile(p) == IF Entries(p) = {} THEN None ELSE files[First(p)].contents

Next == \E p \in Path, d \in Data :
            \/ WriteFile(p, d)
            \/ \E readOnly \in BOOLEAN : AddFile(p, d, readOnly)

-----------------------------------------------------------------------------
(***************************************************************************)
(* Properties.                                                             *)
(***************************************************************************)

TypeOK == files \in Seq([path : Path, contents : Data, readOnly : BOOLEAN])

\* Once a path reads something, only a write to a writable file changes what it
\* reads: a file that is added under the same path, writable or not, stays
\* hidden, and what a read-only file holds is read for ever.
ReadsKept ==
    [][\A p \in Path :
           ReadFile(p) # None /\ ReadFile(p)' # ReadFile(p) =>
               /\ ~ files[First(p)].readOnly
               /\ ReadFile(p)' # None
               /\ Len(files') = Len(files)]_vars
=============================================================================
