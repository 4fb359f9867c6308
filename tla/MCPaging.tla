-------------------------------- MODULE MCPaging --------------------------------
(***************************************************************************)
(* Instances of Paging for TLC.                                            *)
(***************************************************************************)
EXTENDS Paging, TLC

\* Rows that match the search are interchangeable.
Symmetric == Permutations(Matching)
=============================================================================
