---------------------------- MODULE OneTimeCode ----------------------------
(***************************************************************************)
(* What an ownership challenge promises, with no clock, no lock and no      *)
(* request in sight: an address has at most one live challenge, a newer one *)
(* replaces it, and a challenge is redeemed at most once and only while it  *)
(* is live.  Ownership.tla implements this module.                          *)
(***************************************************************************)

CONSTANTS Emails,      \* addresses a challenge can be issued for
          Tickets,     \* identities of challenges
          NoTicket     \* "no live challenge"; not a ticket

VARIABLES live,      \* live[e]: the ticket that redeeming e would consume
          issued,    \* tickets that have ever been live
          spent      \* tickets that have been redeemed

vars == <<live, issued, spent>>

Init ==
    /\ live = [e \in Emails |-> NoTicket]
    /\ issued = {}
    /\ spent = {}

\* A fresh ticket becomes the live one of e; the previous one dies unspent.
Issue(e, t) ==
    /\ t \notin issued
    /\ live' = [live EXCEPT ![e] = t]
    /\ issued' = issued \cup {t}
    /\ UNCHANGED spent

\* The live ticket of e is redeemed and dies.
Redeem(e) ==
    /\ live[e] # NoTicket
    /\ live[e] \notin spent
    /\ spent' = spent \cup {live[e]}
    /\ live' = [live EXCEPT ![e] = NoTicket]
    /\ UNCHANGED issued

\* The process holding the tickets restarts: everything live is forgotten.
Forget ==
    /\ live' = [e \in Emails |-> NoTicket]
    /\ UNCHANGED <<issued, spent>>

Next ==
    \/ \E e \in Emails, t \in Tickets : Issue(e, t)
    \/ \E e \in Emails : Redeem(e)
    \/ Forget

Spec == Init /\ [][Next]_vars
=============================================================================
