---------------------------- MODULE MCOwnership ----------------------------
(***************************************************************************)
(* Small instances of Ownership: one address in two spellings, one name     *)
(* without "@", a blank; two codes, one of them also submitted padded.      *)
(***************************************************************************)
EXTENDS Ownership, TLC

CONSTANTS p1, p2, alice, label, blank, absent, c1, c2,
          Alice, ALICE, Label, Spaces, C1, PaddedC1, C2, NoCode

MCNormalize == Alice :> alice @@ ALICE :> alice @@ Label :> label @@ Spaces :> blank

MCTrim == C1 :> c1 @@ PaddedC1 :> c1 @@ C2 :> c2 @@ NoCode :> blank
=============================================================================
