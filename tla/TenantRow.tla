------------------------------- MODULE TenantRow -------------------------------
(***************************************************************************)
(* What every part of the system may assume of a tenant's row in the       *)
(* registry: it is inserted once, active; it may be deactivated at any     *)
(* time; and it is never deleted and never made active again.              *)
(***************************************************************************)
VARIABLE row   \* "absent", "active" or "inactive"

Init == row = "absent"

Register   == row = "absent" /\ row' = "active"
Deactivate == row # "absent" /\ row' = "inactive"

Next == Register \/ Deactivate

Spec == Init /\ [][Next]_row
=============================================================================
