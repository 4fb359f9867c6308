----------------------------- MODULE MCRequestGate -----------------------------
(***************************************************************************)
(* Instances of RequestGate for TLC: two tenants, one of them spelled in   *)
(* two ways.                                                               *)
(***************************************************************************)
EXTENDS RequestGate, TLC

TwoSpellings == ("Demo" :> "demo") @@ ("demo" :> "demo") @@ ("acme" :> "acme")

Symmetric == Permutations(Requests)
=============================================================================
