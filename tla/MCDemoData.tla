------------------------------- MODULE MCDemoData -------------------------------
(***************************************************************************)
(* Instances of DemoData for TLC.                                          *)
(***************************************************************************)
EXTENDS DemoData, TLC

\* The creations of a tenant are interchangeable.
Symmetric == Permutations(Creates)
=============================================================================
