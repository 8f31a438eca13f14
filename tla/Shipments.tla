------------------------------ MODULE Shipments ------------------------------
(* The Shipment entity, its ShipmentState, and how ShipmentPrismaRepository  *)
(* stores it.  Of a time only whether it is set, or past, is kept; addresses *)
(* and ids never change and are left out.                                    *)
EXTENDS Aggregate

Shippers == {"s1"}
Etas == {"none", "past"}

\* canTransitionTo
Moves ==
    [PENDING    |-> {"ASSIGNED", "FAILED"},
     ASSIGNED   |-> {"PICKED_UP", "FAILED"},
     PICKED_UP  |-> {"IN_TRANSIT", "FAILED"},
     IN_TRANSIT |-> {"DELIVERED", "FAILED"},
     DELIVERED  |-> {"RETURNED"},
     FAILED     |-> {},
     RETURNED   |-> {}]

Status == DOMAIN Moves

\* isTerminal, although a delivered shipment can still be returned
Terminal == {"DELIVERED", "FAILED", "RETURNED"}

Settled == {"FAILED", "RETURNED"}

Entities ==
    [status : Status, shipper : Shippers \cup {"none"}, tracking : BOOLEAN, eta : Etas,
     deliveredAt : BOOLEAN, failedAt : BOOLEAN]

New == {[status |-> "PENDING", shipper |-> "none", tracking |-> FALSE, eta |-> eta,
         deliveredAt |-> FALSE, failedAt |-> FALSE] : eta \in Etas}

CanMove(e, to) == to \in Moves[e.status]

AssignShipper(e, s, tracking) ==
    When(CanMove(e, "ASSIGNED"),
         [e EXCEPT !.status = "ASSIGNED", !.shipper = s, !.tracking = tracking])

MarkAsPickedUp(e) == When(CanMove(e, "PICKED_UP"), [e EXCEPT !.status = "PICKED_UP"])
MarkAsInTransit(e) == When(CanMove(e, "IN_TRANSIT"), [e EXCEPT !.status = "IN_TRANSIT"])

MarkAsDelivered(e) ==
    When(CanMove(e, "DELIVERED"), [e EXCEPT !.status = "DELIVERED", !.deliveredAt = TRUE])

\* A blank reason throws first.
MarkAsFailed(e) == When(CanMove(e, "FAILED"), [e EXCEPT !.status = "FAILED", !.failedAt = TRUE])

MarkAsReturned(e) == When(CanMove(e, "RETURNED"), [e EXCEPT !.status = "RETURNED"])

UpdateTrackingNumber(e) == When(e.status \notin Terminal, [e EXCEPT !.tracking = TRUE])
UpdateEstimatedDeliveryAt(e, eta) == When(e.status \notin Terminal, [e EXCEPT !.eta = eta])

Change(e) ==
    (UNION {AssignShipper(e, s, tracking) : s \in Shippers, tracking \in BOOLEAN})
    \cup MarkAsPickedUp(e) \cup MarkAsInTransit(e) \cup MarkAsDelivered(e)
    \cup MarkAsFailed(e) \cup MarkAsReturned(e) \cup UpdateTrackingNumber(e)
    \cup (UNION {UpdateEstimatedDeliveryAt(e, eta) : eta \in Etas \ {"none"}})

-----------------------------------------------------------------------------
\* save: the three columns of how it ended are not among those it writes.
Columns(e) == [e EXCEPT !.deliveredAt = FALSE, !.failedAt = FALSE]

ToDomain(r) == {r}

\* The finders, as conditions on a row.
Queries ==
    [find : {"byStatus"}, status : Status]
    \cup [find : {"byShipper"}, shipper : Shippers]
    \cup [find : {"byShop", "pending", "overdue"}]

Matches(q, r) ==
    CASE q.find = "byStatus"  -> r.status = q.status
      [] q.find = "byShipper" -> r.shipper = q.shipper
      [] q.find = "pending"   -> r.status = "PENDING"
      [] q.find = "overdue"   -> r.eta = "past" /\ r.status \notin Terminal
      [] q.find = "byShop"    -> TRUE

\* What every stored shipment is: once it was assigned it has a shipper, and
\* only one that ended has a time of its end.
Agrees(e) ==
    /\ e.status \in Status \ {"PENDING", "FAILED"} => e.shipper # "none"
    /\ e.deliveredAt => e.status \in {"DELIVERED", "RETURNED"}
    /\ e.failedAt => e.status = "FAILED"
=============================================================================
