---------------------------- MODULE MCLifecycle ----------------------------
(***************************************************************************)
(* Every environment, two requests.                                         *)
(***************************************************************************)
EXTENDS Lifecycle

CONSTANTS p1, p2

AllEnvs == Env
=============================================================================
