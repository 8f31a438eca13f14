---------------------------- MODULE PayoutEntity -----------------------------
(* The Payout entity of the domain, its state classes, and how               *)
(* PayoutPrismaRepository stores it, beside the payout service and the       *)
(* admins, who write the same rows through Prisma (see Payouts).             *)
EXTENDS Aggregate

Settled == {"PAID"}

\* canTransitionTo of the value object.
Moves == [PENDING |-> {"PAID", "FAILED"}, PAID |-> {}, FAILED |-> {"PENDING"}]

Status == DOMAIN Moves

Entities == [status : Status, method : BOOLEAN, reference : BOOLEAN, paidAt : BOOLEAN]

New == {[status |-> "PENDING", method |-> m, reference |-> FALSE, paidAt |-> FALSE] : m \in BOOLEAN}

\* The state classes.
CanMarkPaid(e) == e.status = "PENDING"

\* Mutated: what is paid can still fail.
CanMarkFailedLate(e) == e.status # "FAILED"

CanMarkFailed(e) == e.status = "PENDING"

MarkPaid(e) ==
    When(CanMarkPaid(e), [e EXCEPT !.status = "PAID", !.reference = TRUE, !.paidAt = TRUE])

MarkFailed(e) == When(CanMarkFailed(e), [e EXCEPT !.status = "FAILED"])

Change(e) == MarkPaid(e) \cup MarkFailed(e)

\* The state classes move a payout by it, and anybody may: it asks for nothing
\* and leaves the time of payment as it is.
SetState(e) == {[e EXCEPT !.status = s] : s \in Status}

-----------------------------------------------------------------------------
Columns(e) == [status |-> e.status, method |-> e.method, reference |-> e.reference, paidAt |-> e.paidAt]

\* PayoutMethod.fromString puts the method into lower case and compares it with
\* names in upper case: it throws for every method there is.
MethodFromString(method) == When(~method, method)

ToDomain(r) ==
    {[status |-> r.status, method |-> m, reference |-> r.reference, paidAt |-> r.paidAt] :
        m \in MethodFromString(r.method)}

\* createPayout stores a method and the account number for a reference.
Inserted == {[status |-> "PENDING", method |-> TRUE, reference |-> TRUE, paidAt |-> FALSE]}

\* The status, the reference that is given or the old one, and the time of a payment.
Updated(r, s, reference) ==
    [r EXCEPT !.status = s, !.reference = @ \/ reference, !.paidAt = @ \/ s = "PAID"]

\* An admin marks a payout as paid.  updatePayoutStatus, which no route calls,
\* gives a pending one any status; a failure only one without postings (see
\* Payouts), as those that save inserts.
Direct(r) ==
    IF r.status = "PENDING" THEN {Updated(r, s, given) : s \in Status, given \in BOOLEAN} ELSE {}

Queries == [find : {"byStatus"}, status : Status] \cup [find : {"byUser", "pendingOlderThan"}]

Matches(q, r) ==
    CASE q.find = "byStatus"         -> r.status = q.status
      [] q.find = "pendingOlderThan" -> r.status = "PENDING"
      [] q.find = "byUser"           -> TRUE

\* A payout has a time of payment exactly when it is paid.
Agrees(e) == e.paidAt <=> e.status = "PAID"
=============================================================================
