----------------------------- MODULE MCSessions -----------------------------
(***************************************************************************)
(* A small instance of Sessions: two users and two sessions, one upload,   *)
(* one list.  Liveness is checked, so there is no symmetry set.            *)
(***************************************************************************)
EXTENDS Sessions
=============================================================================
