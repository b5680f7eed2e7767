----------------------------- MODULE WallClock -----------------------------
(***************************************************************************)
(* The ownership plane when the system clock is set while the gateway runs. *)
(* Challenge and VerifyChallenge call UTC() on what the clock returns, which *)
(* drops Go's monotonic reading: expiry is decided on the wall clock, now,   *)
(* and the time that really passes is the ghost elapsed.                     *)
(***************************************************************************)
EXTENDS Ownership

CONSTANTS
    MaxElapsed,  \* bound: ticks that really pass
    MaxBack      \* bound: ticks the clock is set back, all together

ASSUME ClockAssumption == MaxElapsed \in Nat /\ MaxBack \in Nat

VARIABLES
    elapsed,   \* ghost: the ticks that have really passed
    back,      \* ghost: the ticks the clock was set back, all together
    mintedAt,  \* ghost: mintedAt[id]: the moment challenge id was minted
    readAt,    \* ghost: readAt[p]: the moment p's verification read the clock
    provedAt   \* ghost: provedAt[i]: that moment for proofs[i]

ghosts == <<mintedAt, readAt, provedAt>>

wvars == <<vars, elapsed, back, ghosts>>

\* A moment: the time passed, and how much the clock had been set back by then.
Moment == [time |-> elapsed, back |-> back]

Origin == [time |-> 0, back |-> 0]

WInit ==
    /\ Init
    /\ elapsed = 0 /\ back = 0
    /\ mintedAt = <<>> /\ provedAt = <<>>
    /\ readAt = [p \in Procs |-> Origin]

-----------------------------------------------------------------------------
\* The two places that read the clock, and the one that uses a reading.

ReadsForMint(p) ==
    /\ Mint(p)
    /\ mintedAt' = Append(mintedAt, Moment)
    /\ UNCHANGED <<elapsed, back, readAt, provedAt>>

ReadsForVerify(p) ==
    /\ \E s \in Spellings, cs \in CodeSpellings : StartVerify(p, s, cs)
    /\ readAt' = [readAt EXCEPT ![p] = Moment]
    /\ UNCHANGED <<elapsed, back, mintedAt, provedAt>>

Decides(p) ==
    /\ Confirm(p)
    /\ provedAt' = IF answer'[p] = "verified" THEN Append(provedAt, readAt[p]) ELSE provedAt
    /\ readAt' = [readAt EXCEPT ![p] = Origin]
    /\ UNCHANGED <<elapsed, back, mintedAt>>

\* The steps that have nothing to do with the clock.
Clockless(p) ==
    /\ (\E s \in Spellings : StartChallenge(p, s)) \/ CheckIdentifierLimit(p) \/ Save(p)
    /\ UNCHANGED <<elapsed, back, ghosts>>

-----------------------------------------------------------------------------
\* The environment.

TimePasses ==
    /\ Tick /\ elapsed < MaxElapsed
    /\ elapsed' = elapsed + 1
    /\ UNCHANGED <<back, ghosts>>

\* An operator or NTP sets the clock, ahead or back.
SetClock(t) ==
    /\ t # now
    /\ now' = t
    /\ back' = IF t < now THEN back + (now - t) ELSE back
    /\ back' <= MaxBack
    /\ UNCHANGED <<store, job, answer, minted, saved, proofs, elapsed, ghosts>>

WRestart ==
    /\ Restart
    /\ readAt' = [p \in Procs |-> Origin]
    /\ UNCHANGED <<elapsed, back, mintedAt, provedAt>>

WNext ==
    \/ \E p \in Procs : ReadsForMint(p) \/ ReadsForVerify(p) \/ Decides(p) \/ Clockless(p)
    \/ TimePasses \/ WRestart
    \/ \E t \in 0..MaxTime : SetClock(t)

WSpec == WInit /\ [][WNext]_wvars

-----------------------------------------------------------------------------
\* Properties.

\* The ticks the clock was set back from moment m to a later moment r.
SetBackBetween(m, r) == r.back - m.back

\* However the clock is set and however requests interleave, VerifyChallenge
\* accepts a code at most as much later than its TTL as the clock was set back
\* since Challenge minted it: what was set back before, or after the reading the
\* proof rests on, buys no time.
LateByNoMoreThanSetBack ==
    \A i \in DOMAIN proofs :
        LET m == mintedAt[proofs[i].challenge.id]
            r == provedAt[i]
        IN  r.time > m.time => r.time <= m.time + TTL + SetBackBetween(m, r)
=============================================================================
