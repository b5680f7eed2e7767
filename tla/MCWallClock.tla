---------------------------- MODULE MCWallClock ----------------------------
(***************************************************************************)
(* One address, one code, a clock that can be set over its whole range.    *)
(***************************************************************************)
EXTENDS WallClock, TLC

CONSTANTS p1, p2, alice, blank, absent, c1, Alice, C1

MCNormalize == Alice :> alice

MCTrim == C1 :> c1
=============================================================================
