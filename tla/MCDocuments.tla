---------------------------- MODULE MCDocuments ----------------------------
(***************************************************************************)
(* Documents with two goroutines calling any operations on one document of *)
(* a server of version 9, each request sent at most twice.                 *)
(***************************************************************************)
EXTENDS Documents, TLC

\* Nothing tells the calls apart.
Symmetry == Permutations(Calls)
=============================================================================
