---------------------------- MODULE MCLifecycle ----------------------------
(***************************************************************************)
(* A finite instance of Lifecycle.                                         *)
(***************************************************************************)
EXTENDS Lifecycle

CONSTANTS r1, r2
=============================================================================
