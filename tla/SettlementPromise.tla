------------------------- MODULE SettlementPromise --------------------------
(***************************************************************************)
(* What settlement promises, without handlers, webhooks or ledger tables:   *)
(* a payment is opened, is decided once, and its money reaches the sellers  *)
(* at the moment it succeeds and never otherwise.                           *)
(***************************************************************************)
CONSTANTS Payments

VARIABLES
    phase,      \* status of every payment
    credited    \* the payments whose money the sellers have

Open(p) ==
    /\ phase[p] = "NONE"
    /\ phase' = [phase EXCEPT ![p] = "PENDING"]
    /\ UNCHANGED credited

Decide(p, s) ==
    /\ phase[p] = "PENDING"
    /\ phase' = [phase EXCEPT ![p] = s]
    /\ credited' = IF s = "SUCCEEDED" THEN credited \cup {p} ELSE credited

Init ==
    /\ phase \in [Payments -> {"NONE", "PENDING"}]
    /\ credited = {}

Next ==
    \E p \in Payments :
        \/ Open(p)
        \/ \E s \in {"SUCCEEDED", "FAILED", "REFUNDED"} : Decide(p, s)

Spec == Init /\ [][Next]_<<phase, credited>>

=============================================================================
