---------------------------- MODULE MCUserAdmin ----------------------------
(***************************************************************************)
(* Small instances of UserAdmin: two admins and their concurrent requests. *)
(***************************************************************************)
EXTENDS UserAdmin, TLC

Symmetry == Permutations(Requests)
=============================================================================
