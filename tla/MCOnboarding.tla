---------------------------- MODULE MCOnboarding ----------------------------
(***************************************************************************)
(* Small instances of Onboarding.  Tokens "x" (also padded) and "x:y", UIDs *)
(* "z" (also upper-case), "w" and "y:z", a blank; with and without an email *)
(* and an Idempotency-Key.                                                  *)
(***************************************************************************)
EXTENDS Onboarding, TLC

CONSTANTS p1, p2, none

MCTrimSpace ==
    "x" :> <<"x">> @@ " x " :> <<"x">> @@ "x:y" :> <<"x", "y">>
    @@ "e@" :> <<"e@">> @@ "N" :> <<"N">> @@ "" :> <<>> @@ " " :> <<>>

MCNormalizeUID ==
    "z" :> <<"z">> @@ "Z" :> <<"z">> @@ "w" :> <<"w">> @@ "y:z" :> <<"y", "z">>

Claim(token, uid, email, name, header) ==
    [token |-> token, uid |-> uid, email |-> email, name |-> name, header |-> header]

\* Keys derived from the claim: the same key in two spellings, with and without
\* an email; another token; a blank one.
DerivedInputs ==
    {Claim("x", "z", "", "", <<>>), Claim(" x ", "Z", "e@", " ", <<>>),
     Claim("x:y", "z", " ", "N", <<>>), Claim(" ", "z", "", "", <<>>)}

\* The same, and a caller-chosen key shared by two different claims.
HeaderInputs ==
    DerivedInputs \cup {Claim("x", "z", "", "N", <<"idem">>),
                        Claim("x:y", "w", "e@", "", <<"idem">>)}

\* Two derived keys that coincide: "x:y" + ":" + "z" and "x" + ":" + "y:z".
CoincidingInputs ==
    {Claim("x:y", "z", "", "", <<>>), Claim("x", "y:z", "", "", <<>>)}
=============================================================================
