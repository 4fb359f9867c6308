---------------------------- MODULE MCTaskLifecycle ----------------------------
(***************************************************************************)
(* Instances of TaskLifecycle for TLC: a reporter and two users.           *)
(***************************************************************************)
EXTENDS TaskLifecycle, TLC

CONSTANTS rep, u1, u2

Roles == (rep :> "reporter") @@ (u1 :> "user") @@ (u2 :> "user")

\* The two plain users are interchangeable.
Symmetric == Permutations({u1, u2}) \cup Permutations(Requests)
=============================================================================
