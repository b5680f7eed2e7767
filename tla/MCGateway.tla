----------------------------- MODULE MCGateway -----------------------------
(***************************************************************************)
(* A small instance of Gateway: one address in two spellings, and a blank.  *)
(***************************************************************************)
EXTENDS Gateway, TLC

CONSTANTS p1, p2, q1, alice, blank, absent, c1,
          Alice, ALICE, Spaces, C1

MCNormalize == Alice :> alice @@ ALICE :> alice @@ Spaces :> blank

MCTrim == C1 :> c1
=============================================================================
