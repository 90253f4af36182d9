--------------------------- MODULE MCRequestIntake ---------------------------
(***************************************************************************)
(* Finite instances of RequestIntake.                                      *)
(***************************************************************************)
EXTENDS RequestIntake

CONSTANT k1

\* The records of all users share a partition.
OnePartition == [u \in Users |-> k1]
=============================================================================
