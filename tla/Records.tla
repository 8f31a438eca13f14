------------------------------ MODULE Records --------------------------------
(***************************************************************************)
(* What the repositories promise about the domain entities: a caller loads  *)
(* an entity, by its id or from a list, calls its methods, and saves it.     *)
(* Callers overlap; no save has a condition.  The services write the same    *)
(* rows through Prisma.  The callers of the contracts of a module that has    *)
(* no routes yet (shipments) and of those whose routes go past it are here    *)
(* in general: any method may be called on what was loaded.                   *)
(*                                                                         *)
(* Each run of the system is about the rows of one kind.                      *)
(***************************************************************************)
EXTENDS Aggregate

CONSTANTS
    Ids,        \* ids of rows
    First,      \* one of them
    Callers,    \* who loads and saves
    Kinds,      \* the kinds of entities to look at
    OneRow,     \* those of which one row is enough (a bound)
    OneCaller,  \* those of which one caller at a time is enough (a bound)
    MaxStock,   \* the most that an inventory counts
    MaxInCart,  \* the most of a product in a cart
    Prices      \* of products

Shipment     == INSTANCE Shipments
Payment      == INSTANCE PaymentEntity
Payout       == INSTANCE PayoutEntity
Notification == INSTANCE Notifications
Inventory    == INSTANCE InventoryEntity WITH MaxQuantity <- MaxStock
Cart         == INSTANCE CartEntity WITH MaxQuantity <- MaxInCart
User         == INSTANCE UserEntity
Product      == INSTANCE ProductEntity
Shop         == INSTANCE ShopEntity

AllKinds ==
    {"shipment", "payment", "payout", "notification", "inventory", "cart", "user", "product", "shop"}

VARIABLES
    kind,        \* the kind of the rows
    row,         \* the rows
    deleted,     \* the ids of the rows that were deleted softly
    held,        \* the entity that a caller works on
    overlapped,  \* history: ids of which an entity was held when another write came
    direct,      \* history: ids of the rows that a service wrote
    forced       \* history: ids of which somebody called setState of an entity

vars == <<kind, row, deleted, held, overlapped, direct, forced>>

NoRow == [none |-> TRUE]
Nothing == [nothing |-> TRUE]

IdsOf(k) == IF k \in OneRow THEN {First} ELSE Ids

\* A new entity of the kind.  Payments are only made by PaymentsService: save
\* has no user to insert one for.
New(k) ==
    CASE k = "shipment"     -> Shipment!New
      [] k = "payout"       -> Payout!New
      [] k = "notification" -> Notification!New
      [] k = "inventory"    -> Inventory!New
      [] k = "cart"         -> Cart!New
      [] k = "user"         -> User!New
      [] k = "product"      -> Product!New
      [] k = "shop"         -> Shop!New
      [] k = "payment"      -> {}

\* A row that a service inserts.
Inserted(k) ==
    CASE k = "payment"      -> Payment!Inserted
      [] k = "payout"       -> Payout!Inserted
      [] k = "notification" -> Notification!Inserted
      [] k = "inventory"    -> Inventory!Inserted
      [] k = "cart"         -> Cart!Inserted
      [] k = "user"         -> User!Inserted
      [] k = "product"      -> Product!Inserted
      [] k = "shop"         -> Shop!Inserted
      [] k = "shipment"     -> {}

\* What a method may leave of e.
Change(k, e) ==
    CASE k = "shipment"     -> Shipment!Change(e)
      [] k = "payment"      -> Payment!Change(e)
      [] k = "payout"       -> Payout!Change(e)
      [] k = "notification" -> Notification!Change(e)
      [] k = "inventory"    -> Inventory!Change(e)
      [] k = "cart"         -> Cart!Change(e)
      [] k = "user"         -> User!Change(e)
      [] k = "product"      -> Product!Change(e)
      [] k = "shop"         -> Shop!Change(e)

\* What the setState of a payout or a notification may leave.  That of products
\* is among their methods: two use cases call it.
Force(k, e) ==
    CASE k = "payout"       -> Payout!SetState(e)
      [] k = "notification" -> Notification!SetState(e)
      [] OTHER              -> {}

\* What a service may write in place of r.
Direct(k, r) ==
    CASE k = "payment"      -> Payment!Direct(r)
      [] k = "payout"       -> Payout!Direct(r)
      [] k = "notification" -> Notification!Direct(r)
      [] k = "inventory"    -> Inventory!Direct(r)
      [] k = "cart"         -> Cart!Direct(r)
      [] k = "user"         -> User!Direct(r)
      [] k = "product"      -> Product!Direct(r)
      [] k = "shop"         -> Shop!Direct(r)
      [] k = "shipment"     -> {}

Columns(k, e) ==
    CASE k = "shipment"     -> Shipment!Columns(e)
      [] k = "payment"      -> Payment!Columns(e)
      [] k = "payout"       -> Payout!Columns(e)
      [] k = "notification" -> Notification!Columns(e)
      [] k = "inventory"    -> Inventory!Columns(e)
      [] k = "cart"         -> Cart!Columns(e)
      [] k = "user"         -> User!Columns(e)
      [] k = "product"      -> Product!Columns(e)
      [] k = "shop"         -> Shop!Columns(e)

ToDomain(k, r) ==
    CASE k = "shipment"     -> Shipment!ToDomain(r)
      [] k = "payment"      -> Payment!ToDomain(r)
      [] k = "payout"       -> Payout!ToDomain(r)
      [] k = "notification" -> Notification!ToDomain(r)
      [] k = "inventory"    -> Inventory!ToDomain(r)
      [] k = "cart"         -> Cart!ToDomain(r)
      [] k = "user"         -> User!ToDomain(r)
      [] k = "product"      -> Product!ToDomain(r)
      [] k = "shop"         -> Shop!ToDomain(r)

\* The rows that a list of the repository takes.
Lists(k, r) ==
    CASE k = "shipment"     -> {q \in Shipment!Queries : Shipment!Matches(q, r)}
      [] k = "payment"      -> {q \in Payment!Queries : Payment!Matches(q, r)}
      [] k = "payout"       -> {q \in Payout!Queries : Payout!Matches(q, r)}
      [] k = "notification" -> {q \in Notification!Queries : Notification!Matches(q, r)}
      [] k = "inventory"    -> {q \in Inventory!Queries : Inventory!Matches(q, r)}
      [] k = "cart"         -> {q \in Cart!Queries : Cart!Matches(q, r)}
      [] k = "user"         -> {q \in User!Queries : User!Matches(q, r)}
      [] k = "product"      -> {q \in Product!Queries : Product!Matches(q, r)}
      [] k = "shop"         -> {q \in Shop!Queries : Shop!Matches(q, r)}

\* The values of a row under the unique keys of its table.
Keys(k, r) ==
    CASE k = "cart" -> Cart!Keys(r)
      [] k = "user" -> User!Keys(r)
      [] k = "shop" -> Shop!Keys(r)
      [] OTHER      -> {}

\* Carts and inventories have no column for a soft deletion: it fails.
Deletable == AllKinds \ {"cart", "inventory"}

\* DeleteProductUseCase loads the product first, which must therefore be a whole one.
Removable(k, r) == k = "product" => ToDomain(k, r) # Throws

Init ==
    /\ kind \in Kinds
    /\ row = [i \in IdsOf(kind) |-> NoRow]
    /\ deleted = {}
    /\ held = [c \in Callers |-> Nothing]
    /\ overlapped = {}
    /\ direct = {}
    /\ forced = {}

Stored(i) == row[i] # NoRow
Live(i) == Stored(i) /\ i \notin deleted
Holds(c, i) == held[c] # Nothing /\ held[c].id = i
Idle(c) == held[c] = Nothing /\ (kind \in OneCaller => \A d \in Callers : held[d] = Nothing)

\* The row of i may become r: no other row has one of its unique values.
Free(i, r) == \A j \in DOMAIN row \ {i} : Stored(j) => Keys(kind, r) \cap Keys(kind, row[j]) = {}

\* The ids of which somebody but c holds an entity.
HeldElsewhere(c, i) == {j \in {i} : \E d \in Callers \ {c} : Holds(d, j)}

-----------------------------------------------------------------------------
Take(c, i, e) ==
    /\ held' = [held EXCEPT ![c] = [id |-> i, entity |-> e]]
    /\ overlapped' = overlapped \cup HeldElsewhere(c, i)

Create(c, i) ==
    /\ Idle(c)
    /\ ~Stored(i)
    /\ \A d \in Callers : ~Holds(d, i)
    /\ \E e \in New(kind) : Take(c, i, e)
    /\ UNCHANGED <<kind, row, deleted, direct, forced>>

FindById(c, i) ==
    /\ Idle(c)
    /\ Live(i)
    /\ \E e \in ToDomain(kind, row[i]) : Take(c, i, e)
    /\ UNCHANGED <<kind, row, deleted, direct, forced>>

\* Every row of a list is mapped, so one that cannot be fails the whole list.
\* The caller goes on with one of the entities.
FindInList(c, i) ==
    /\ Idle(c)
    /\ Live(i)
    /\ \E q \in Lists(kind, row[i]) :
          \A j \in DOMAIN row :
              Live(j) /\ q \in Lists(kind, row[j]) => ToDomain(kind, row[j]) # Throws
    /\ \E e \in ToDomain(kind, row[i]) : Take(c, i, e)
    /\ UNCHANGED <<kind, row, deleted, direct, forced>>

Call(c) ==
    /\ held[c] # Nothing
    /\ \E e \in Change(kind, held[c].entity) : held' = [held EXCEPT ![c].entity = e]
    /\ UNCHANGED <<kind, row, deleted, overlapped, direct, forced>>

\* Only tests call it, but it is there for every caller.
SetState(c) ==
    /\ held[c] # Nothing
    /\ \E e \in Force(kind, held[c].entity) : held' = [held EXCEPT ![c].entity = e]
    /\ forced' = forced \cup {held[c].id}
    /\ UNCHANGED <<kind, row, deleted, overlapped, direct>>

Save(c) ==
    /\ held[c] # Nothing
    /\ LET i == held[c].id
           r == Columns(kind, held[c].entity)
       IN  /\ Free(i, r)
           /\ row' = [row EXCEPT ![i] = r]
           /\ overlapped' = overlapped \cup HeldElsewhere(c, i)
    /\ held' = [held EXCEPT ![c] = Nothing]
    /\ UNCHANGED <<kind, deleted, direct, forced>>

\* A method throws, the save finds a unique value taken, or the process dies.
GiveUp(c) ==
    /\ held[c] # Nothing
    /\ held' = [held EXCEPT ![c] = Nothing]
    /\ UNCHANGED <<kind, row, deleted, overlapped, direct, forced>>

Delete(i) ==
    /\ kind \in Deletable
    /\ Live(i)
    /\ Removable(kind, row[i])
    /\ deleted' = deleted \cup {i}
    /\ UNCHANGED <<kind, row, held, overlapped, direct, forced>>

\* suspendShop of the admins, which asks only that there is a shop.
SuspendShop(i) ==
    /\ kind = "shop"
    /\ Stored(i)
    /\ deleted' = deleted \cup {i}
    /\ UNCHANGED <<kind, row, held, overlapped, direct, forced>>

\* verifyShop of the admins, and the restore of the owner: a suspended or
\* deleted shop is there again.
Restore(i) ==
    /\ kind = "shop"
    /\ i \in deleted
    /\ deleted' = deleted \ {i}
    /\ UNCHANGED <<kind, row, held, overlapped, direct, forced>>

ServiceInserts(i) ==
    /\ ~Stored(i)
    /\ \A d \in Callers : ~Holds(d, i)
    /\ \E r \in Inserted(kind) : Free(i, r) /\ row' = [row EXCEPT ![i] = r]
    /\ direct' = direct \cup {i}
    /\ UNCHANGED <<kind, deleted, held, overlapped, forced>>

ServiceWrites(i) ==
    /\ Stored(i)
    /\ \E r \in Direct(kind, row[i]) : Free(i, r) /\ row' = [row EXCEPT ![i] = r]
    /\ direct' = direct \cup {i}
    /\ overlapped' = overlapped \cup {j \in {i} : \E d \in Callers : Holds(d, j)}
    /\ UNCHANGED <<kind, deleted, held, forced>>

Next ==
    \/ \E c \in Callers, i \in DOMAIN row : Create(c, i) \/ FindById(c, i) \/ FindInList(c, i)
    \/ \E c \in Callers : Call(c) \/ SetState(c) \/ Save(c) \/ GiveUp(c)
    \/ \E i \in DOMAIN row : Delete(i) \/ SuspendShop(i) \/ Restore(i) \/ ServiceInserts(i) \/ ServiceWrites(i)

Spec == Init /\ [][Next]_vars

-----------------------------------------------------------------------------
Agrees(k, e) ==
    CASE k = "shipment"     -> Shipment!Agrees(e)
      [] k = "payment"      -> Payment!Agrees(e)
      [] k = "payout"       -> Payout!Agrees(e)
      [] k = "notification" -> Notification!Agrees(e)
      [] k = "inventory"    -> Inventory!Agrees(e)
      [] k = "cart"         -> Cart!Agrees(e)
      [] k \in {"user", "shop", "product"} -> TRUE

Moves(k) ==
    CASE k = "shipment"     -> Shipment!Moves
      [] k = "payment"      -> Payment!Moves
      [] k = "payout"       -> Payout!Moves
      [] k = "notification" -> Notification!Moves

\* The kinds with a status, and the statuses that none of them leaves again.
WithStatus == {"shipment", "payment", "payout", "notification"}

SettledOf(k) ==
    CASE k = "shipment"     -> Shipment!Settled
      [] k = "payment"      -> Payment!Settled
      [] k = "payout"       -> Payout!Settled
      [] k = "notification" -> Notification!Settled

\* The rows whose columns the methods of their entity do not answer for.
Loose(i) == i \in forced \/ (kind = "inventory" /\ i \in direct)

(* Whoever wrote it last and whatever they had loaded, the columns of a row *)
(* fit its status: entities save all their columns together, and the       *)
(* services leave none behind; a product that buyers see has a price and an  *)
(* origin.  Not so what setState was called for, which leaves the times as   *)
(* they are, and inventory rows only as long as no service has written them:  *)
(* these count up and down without a look at the stock.                      *)
ColumnsFit ==
    \A i \in DOMAIN row :
        Stored(i) /\ ~Loose(i)
        => /\ \A e \in ToDomain(kind, row[i]) : Agrees(kind, e)
           /\ kind = "product" => Product!Fits(row[i])

\* The kinds that are stored and loaded as they are.
Lossless == {"payment", "notification", "inventory", "cart"}

(* What a caller saves it loads again as it was, and saving what was loaded *)
(* leaves the row as it was: save and mapToDomain are each the inverse of   *)
(* the other.  Not so for shipments (the times of its end are not saved),   *)
(* payouts (no method can be read) and users (a number is made up).         *)
RoundTrip ==
    kind \in Lossless =>
        /\ \A c \in Callers :
              held[c] # Nothing => ToDomain(kind, Columns(kind, held[c].entity)) = {held[c].entity}
        /\ \A i \in DOMAIN row :
              Stored(i) => \A e \in ToDomain(kind, row[i]) : Columns(kind, e) = row[i]

(* Both: no sequence of loads, methods, saves and writes of services leaves  *)
(* a row that does not fit, or an entity that is another one when it is      *)
(* loaded again.                                                            *)
RowsAgree == ColumnsFit /\ RoundTrip

(* The methods of an entity, which ask its state class, move it only along  *)
(* the table of transitions of its status value object; setState, which asks  *)
(* nobody, is none of them.                                                  *)
MovesAlong ==
    \A c \in Callers :
        held[c] # Nothing /\ held'[c] # Nothing /\ held[c].id \notin forced' =>
           held'[c].entity.status
              \in {held[c].entity.status} \cup Moves(kind)[held[c].entity.status]

(* What was paid out, refunded, read or returned stays so in its row, as    *)
(* long as nobody else wrote the row while a caller worked on its entity (no  *)
(* save compares what it overwrites with what was loaded) and nobody called  *)
(* setState.                                                                *)
SettledKept ==
    \A i \in DOMAIN row :
        /\ Stored(i)
        /\ row[i].status \in SettledOf(kind)
        /\ i \notin overlapped' \cup forced'
        => row'[i].status = row[i].status

(* Both: a status is reached along its table, in memory and in the row.      *)
KeepsSettled == kind \in WithStatus => MovesAlong /\ SettledKept

SettledStays == [][KeepsSettled]_vars
=============================================================================
