------------------------- MODULE WasiFilesystemMC --------------------------
(***************************************************************************)
(* The instance of VirtualFs for TLC: the names of a directory are         *)
(* interchangeable, and so are the bytes a program writes.                 *)
(***************************************************************************)
EXTENDS VirtualFs

Symmetric == Permutations(Name) \union Permutations(Byte)
=============================================================================
