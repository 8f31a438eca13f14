--------------------------- MODULE InventoryEntity ---------------------------
(* The Inventory entity of the domain and how InventoryPrismaRepository      *)
(* stores it, beside the routes that change the same rows (see Checkout).    *)
EXTENDS Integers, Aggregate

CONSTANT MaxQuantity    \* the maximum of a Quantity, 1,000,000,000 there

Quantities == 0 .. MaxQuantity
Counts == 1 .. MaxQuantity

Entities == [quantity : Quantities, reserved : Quantities, threshold : {0, 1}]

\* create
New == {[quantity |-> q, reserved |-> 0, threshold |-> 1] : q \in Quantities}

Available(e) == e.quantity - e.reserved

\* Quantity throws above its maximum.
Restock(e, q) == When(e.quantity + q <= MaxQuantity, [e EXCEPT !.quantity = @ + q])

\* What goes out is taken from the reserved part first, although only what is
\* not reserved may go out.
Outbound(e, q) ==
    LET fromReserved == IF e.reserved < q THEN e.reserved ELSE q
    IN  When(Available(e) >= q, [e EXCEPT !.quantity = @ - q, !.reserved = @ - fromReserved])

Reserve(e, q) == When(Available(e) >= q, [e EXCEPT !.reserved = @ + q])
Unreserve(e, q) == When(e.reserved >= q, [e EXCEPT !.reserved = @ - q])
UpdateMinThreshold(e, t) == When(TRUE, [e EXCEPT !.threshold = t])

Change(e) ==
    (UNION {Restock(e, q) \cup Outbound(e, q) \cup Reserve(e, q) \cup Unreserve(e, q) : q \in Counts})
    \cup (UNION {UpdateMinThreshold(e, t) : t \in {0, 1}})

-----------------------------------------------------------------------------
Columns(e) == [stock |-> e.quantity, reserved |-> e.reserved, threshold |-> e.threshold]

\* A Quantity is not negative; a reservation that was given back twice is.
ToDomain(r) ==
    When(r.stock \in Quantities /\ r.reserved \in Quantities,
         [quantity |-> r.stock, reserved |-> r.reserved, threshold |-> r.threshold])

Rows == [stock : Quantities, reserved : -1 .. MaxQuantity, threshold : {0, 1}]

\* A seller sets the stock of a product that has no row yet.
Inserted == {[stock |-> q, reserved |-> 0, threshold |-> 1] : q \in Quantities}

\* A checkout reserves, a cancellation gives back and a seller sets the stock,
\* all without a look at the row; the bounds are those of Rows.
Direct(r) ==
    {[r EXCEPT !.reserved = n] : n \in {r.reserved + 1, r.reserved - 1} \cap (-1 .. MaxQuantity)}
    \cup {[r EXCEPT !.stock = q] : q \in Quantities}

Queries == [find : {"byProduct", "lowStock"}]

\* findLowStock compares the stock and not what is available of it.
Matches(q, r) == q.find = "lowStock" => r.stock <= r.threshold

\* The methods of the entity never reserve more than there is.
Agrees(e) == e.reserved <= e.quantity
=============================================================================
