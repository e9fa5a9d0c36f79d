----------------------------- MODULE MCJobQueue -----------------------------
(***************************************************************************)
(* A small instance of JobQueue: one job, which two workers may hold at    *)
(* once, a first, a middle and a last attempt, two restarts and two faults *)
(* at any moment.  Liveness is checked, so there is no symmetry set.       *)
(***************************************************************************)
EXTENDS JobQueue

OneJob == {"job"}
=============================================================================
