----------------------------- MODULE CartEntity ------------------------------
(* The Cart entity of the domain with its items, and how                     *)
(* CartPrismaRepository stores it, beside the routes of CartsController,     *)
(* which change the same rows through Prisma (see Checkout).  One product is *)
(* enough: the methods treat each on its own.                                *)
EXTENDS Integers, Aggregate

CONSTANTS
    MaxQuantity,    \* of an item, which has no maximum in the entity (a bound)
    Prices

Quantities == 1 .. MaxQuantity
NoItem == [quantity |-> 0]
None == 0       \* no wholesale price

Items == [quantity : Quantities, retail : Prices, wholesale : Prices \cup {None}]

\* A cart belongs to a user, to a session, or to both.
CartOwners == [user : {"none", "u1", "u2"}, session : BOOLEAN]
Owned(o) == o.user # "none" \/ o.session

Entities == {e \in [owner : CartOwners, item : Items \cup {NoItem}] : Owned(e.owner)}

\* create
New == {[owner |-> [user |-> u, session |-> s], item |-> NoItem] :
           u \in {"none", "u1"}, s \in BOOLEAN} \cap Entities

EffectivePrice(item) == IF item.wholesale = None THEN item.retail ELSE item.wholesale

\* An item that is there gets the sum, keeps its retail price, and its
\* wholesale price unless one is given.
AddItem(e, q, p, w) ==
    IF e.item = NoItem
    THEN {[e EXCEPT !.item = [quantity |-> q, retail |-> p, wholesale |-> w]]}
    ELSE {[e EXCEPT !.item.quantity = @ + q, !.item.wholesale = IF w = None THEN @ ELSE w]}

UpdateItemQuantity(e, q) == When(e.item # NoItem, [e EXCEPT !.item = [@ EXCEPT !.quantity = q]])
RemoveItem(e) == When(e.item # NoItem, [e EXCEPT !.item = NoItem])
Clear(e) == {[e EXCEPT !.item = NoItem]}

\* mergeCart adds every item of the other cart.
MergeCart(e, other) ==
    IF other = NoItem THEN {e} ELSE AddItem(e, other.quantity, other.retail, other.wholesale)

AssignUser(e, u) == {[e EXCEPT !.owner = [user |-> u, session |-> FALSE]]}

\* The wholesale price is overwritten even by none.
RefreshPrices(e, p, w) ==
    IF e.item = NoItem THEN {e} ELSE {[e EXCEPT !.item = [@ EXCEPT !.retail = p, !.wholesale = w]]}

Offers == Prices \X (Prices \cup {None})

Change(e) ==
    LET done == (UNION {AddItem(e, q, o[1], o[2]) \cup RefreshPrices(e, o[1], o[2]) :
                          q \in Quantities, o \in Offers})
                \cup (UNION {MergeCart(e, other) : other \in Items \cup {NoItem}})
                \cup (UNION {UpdateItemQuantity(e, q) : q \in Quantities})
                \cup RemoveItem(e) \cup Clear(e) \cup AssignUser(e, "u1") \cup AssignUser(e, "u2")
    IN  {f \in done : f.item.quantity <= MaxQuantity}

-----------------------------------------------------------------------------
\* save: the item rows are deleted and written again.
Columns(e) == e

ToDomain(r) == When(Owned(r.owner), r)

\* findOrCreateCart
Inserted == {[owner |-> [user |-> u, session |-> FALSE], item |-> NoItem] : u \in {"u1", "u2"}}

\* The route that adds takes the price of today, and knows no wholesale price.
AddRow(r, q, p) ==
    IF r.item = NoItem
    THEN [r EXCEPT !.item = [quantity |-> q, retail |-> p, wholesale |-> None]]
    ELSE [r EXCEPT !.item.quantity = @ + q, !.item.retail = p]

\* The routes work on the carts of users: they add an item, change how many it
\* is of, remove it, and a checkout empties the cart.
Direct(r) ==
    LET done == {AddRow(r, q, p) : q \in Quantities, p \in Prices}
                \cup (UNION {UpdateItemQuantity(r, q) : q \in Quantities})
                \cup Clear(r)
    IN  {s \in done : r.owner.user # "none" /\ s.item.quantity <= MaxQuantity}

\* The unique keys of a row: each user has one cart.
Keys(r) == {r.owner.user} \ {"none"}

Queries == [find : {"byUser", "bySession"}]

Matches(q, r) == IF q.find = "byUser" THEN r.owner.user # "none" ELSE r.owner.session

\* Every item has a quantity and a price, and the cart an owner.
Agrees(e) ==
    /\ Owned(e.owner)
    /\ e.item # NoItem => e.item.quantity > 0 /\ EffectivePrice(e.item) > 0
=============================================================================
