------------------------------ MODULE Checkout ------------------------------
(***************************************************************************)
(* Carts, stock and the orders a checkout makes: CartsService and its use   *)
(* cases, the stock routes of ProductsService, and createOrdersFromCart and *)
(* cancelOrder of OrdersService.                                            *)
(*                                                                         *)
(* As in Payments a handler is a slot of "call" that moves from one await   *)
(* to the next.  Stock and cart are read before the transaction that        *)
(* reserves, and nothing reads them again.                                  *)
(*                                                                         *)
(* A checkout makes one order per shop and one payment of all of them, so   *)
(* an order is named by its checkout and its shop; its lines are those of   *)
(* the basket with a product of the shop.  All of these orders stay PENDING *)
(* in this module: their address is stored as a checkout writes it, which   *)
(* no use case that changes a status can load.                              *)
(***************************************************************************)
EXTENDS Integers, FiniteSets, Functions

CONSTANTS
    Calls,        \* handlers that may be in flight at the same time
    Buyers,
    Products,
    Shop,         \* shop of a product
    Checkouts,    \* ids of the checkouts that commit
    Rows,         \* ids of cart item rows
    Quantities,   \* quantities a buyer asks for
    Stocks,       \* stock figures a seller sets for a product
    Edited,       \* products a seller edits (a bound)
    MaxReleases   \* bound on the cancellations of one order

ASSUME CheckoutAssumption ==
    /\ IsFiniteSet(Checkouts)
    /\ Quantities \subseteq Nat \ {0}
    /\ Stocks \in [Products -> SUBSET Nat]
    /\ Edited \subseteq Products
    /\ MaxReleases \in Nat

VARIABLES
    cart,        \* status of a buyer's cart; the row is unique per user
    item,        \* cart item rows, unique per cart and product
    active,      \* products that are ACTIVE and not deleted
    stock,       \* Inventory.stock; a missing row counts as 0
    reserved,    \* Inventory.reserved
    placed,      \* what each checkout ordered, and for whom
    released,    \* history: how often an order's stock was given back
    call,        \* handlers in flight
    overlapped   \* history: a handler began while another was in flight

vars == <<cart, item, active, stock, reserved, placed, released, call, overlapped>>

Shops == {Shop[p] : p \in Products}

NoItem == [quantity |-> 0]
ItemRows == [row : Rows, quantity : Nat \ {0}]
Items == [Buyers \X Products -> ItemRows \cup {NoItem}]

Figures(S) == {f \in [S -> UNION {Stocks[p] : p \in S}] : \A p \in S : f[p] \in Stocks[p]}

Baskets == [Products -> Nat]
Nothing == [p \in Products |-> 0]
NotPlaced == [lines |-> Nothing]

Idle == [at |-> "idle"]
Handlers ==
    {Idle}
    \cup [at : {"add_cart", "add_create", "add_find", "add_insert"},
          buyer : Buyers, product : Products, quantity : Quantities]
    \cup [at : {"add_sum", "add_update"},
          buyer : Buyers, product : Products, quantity : Quantities, found : ItemRows]
    \cup [at : {"edit_find"},
          buyer : Buyers, product : Products, quantity : Quantities \cup {0}]
    \cup [at : {"edit_stock", "edit_write"},
          buyer : Buyers, product : Products, quantity : Quantities \cup {0}, found : ItemRows]
    \cup [at : {"view_create", "clear"}, buyer : Buyers]
    \cup [at : {"checkout"}, buyer : Buyers, basket : Baskets]
    \cup [at : {"cancel"}, checkout : Checkouts, shop : Shops]

TypeOK ==
    /\ cart \in [Buyers -> {"none", "ACTIVE", "COMPLETED"}]
    /\ item \in Items
    /\ active \subseteq Products
    /\ stock \in [Products -> Nat]
    /\ reserved \in [Products -> Int]
    /\ placed \in [Checkouts -> [buyer : Buyers, lines : Baskets] \cup {NotPlaced}]
    /\ released \in [Checkouts \X Shops -> Nat]
    /\ call \in [Calls -> Handlers]
    /\ overlapped \in BOOLEAN

Init ==
    /\ cart = [b \in Buyers |-> "none"]
    /\ item = [bp \in Buyers \X Products |-> NoItem]
    /\ active = Products
    /\ \E figure \in Figures(Products) : stock = figure
    /\ reserved = [p \in Products |-> 0]
    /\ placed = [k \in Checkouts |-> NotPlaced]
    /\ released = [o \in Checkouts \X Shops |-> 0]
    /\ call = [c \in Calls |-> Idle]
    /\ overlapped = FALSE

Goto(c, step) == call' = [call EXCEPT ![c] = step]
Advance(c, at) == Goto(c, [call[c] EXCEPT !.at = at])
Return(c) == Goto(c, Idle)

\* A handler begins (or is a single statement): does it overlap another one?
Begin == overlapped' = (overlapped \/ \E c \in Calls : call[c] # Idle)

Available(p) == stock[p] - reserved[p]

\* assertAvailableStock reads the product again, so its status counts as well.
AssertAvailableStock(p, n) == p \in active /\ Available(p) >= n

tables == <<cart, item, active, stock, reserved, placed, released>>

-----------------------------------------------------------------------------
(* AddItemToCartUseCase                                                     *)

\* getProductById and the first assertAvailableStock, which reads more.
AddItem(c, b, p, n) ==
    /\ call[c] = Idle
    /\ AssertAvailableStock(p, n)
    /\ Goto(c, [at |-> "add_cart", buyer |-> b, product |-> p, quantity |-> n])
    /\ Begin
    /\ UNCHANGED tables

FindCart(c) ==
    /\ call[c].at = "add_cart"
    /\ Advance(c, IF cart[call[c].buyer] = "ACTIVE" THEN "add_find" ELSE "add_create")
    /\ UNCHANGED <<tables, overlapped>>

\* getCart and getSummary, when they find no active cart (otherwise they read).
ViewCart(c, b) ==
    /\ call[c] = Idle
    /\ cart[b] # "ACTIVE"
    /\ Goto(c, [at |-> "view_create", buyer |-> b])
    /\ Begin
    /\ UNCHANGED tables

HasCart(c) == IF call[c].at = "add_create" THEN Advance(c, "add_find") ELSE Return(c)

\* Cart.userId is unique: with a cart of any status the insertion fails.
CreateCart(c) ==
    /\ call[c].at \in {"add_create", "view_create"}
    /\ cart[call[c].buyer] = "none"
    /\ cart' = [cart EXCEPT ![call[c].buyer] = "ACTIVE"]
    /\ HasCart(c)
    /\ UNCHANGED <<item, active, stock, reserved, placed, released, overlapped>>

Row(c) == item[call[c].buyer, call[c].product]

FindItem(c) ==
    /\ call[c].at = "add_find"
    /\ Goto(c, IF Row(c) = NoItem
               THEN [call[c] EXCEPT !.at = "add_insert"]
               ELSE [at |-> "add_sum", buyer |-> call[c].buyer, product |-> call[c].product,
                     quantity |-> call[c].quantity, found |-> Row(c)])
    /\ UNCHANGED <<tables, overlapped>>

\* Mutated: the quantity asked for replaces the one in the cart.
QuantityAsked(c) == call[c].quantity

NextQuantity(c) == call[c].found.quantity + call[c].quantity

AssertSum(c) ==
    /\ call[c].at = "add_sum"
    /\ AssertAvailableStock(call[c].product, NextQuantity(c))
    /\ Advance(c, "add_update")
    /\ UNCHANGED <<tables, overlapped>>

\* An update or a deletion by id: an error if that row is gone.
StillThere(c) == Row(c) # NoItem /\ Row(c).row = call[c].found.row

SetItem(c, row) == item' = [item EXCEPT ![<<call[c].buyer, call[c].product>>] = row]

UpdateSum(c) ==
    /\ call[c].at = "add_update"
    /\ StillThere(c)
    /\ SetItem(c, [row |-> call[c].found.row, quantity |-> NextQuantity(c)])
    /\ Return(c)
    /\ UNCHANGED <<cart, active, stock, reserved, placed, released, overlapped>>

\* Row ids are not used again while a handler still knows them.
FreshRow(i) ==
    /\ \A bp \in Buyers \X Products : item[bp] # NoItem => item[bp].row # i
    /\ \A c \in Calls : call[c].at \in {"add_sum", "add_update", "edit_stock", "edit_write"} =>
          call[c].found.row # i

\* The cart row exists, whatever its status has become; (cart, product) is unique.
InsertItem(c, i) ==
    /\ call[c].at = "add_insert"
    /\ Row(c) = NoItem
    /\ FreshRow(i)
    /\ SetItem(c, [row |-> i, quantity |-> call[c].quantity])
    /\ Return(c)
    /\ UNCHANGED <<cart, active, stock, reserved, placed, released, overlapped>>

-----------------------------------------------------------------------------
(* UpdateCartUseCase; quantity 0 is the removal of an item.                 *)

\* findActiveCart
EditItem(c, b, p, n) ==
    /\ call[c] = Idle
    /\ cart[b] = "ACTIVE"
    /\ Goto(c, [at |-> "edit_find", buyer |-> b, product |-> p, quantity |-> n])
    /\ Begin
    /\ UNCHANGED tables

FindItemToEdit(c) ==
    /\ call[c].at = "edit_find"
    /\ Row(c) # NoItem
    /\ Goto(c, [at |-> IF call[c].quantity = 0 THEN "edit_write" ELSE "edit_stock",
                buyer |-> call[c].buyer, product |-> call[c].product,
                quantity |-> call[c].quantity, found |-> Row(c)])
    /\ UNCHANGED <<tables, overlapped>>

AssertEdit(c) ==
    /\ call[c].at = "edit_stock"
    /\ AssertAvailableStock(call[c].product, call[c].quantity)
    /\ Advance(c, "edit_write")
    /\ UNCHANGED <<tables, overlapped>>

EditedItem(c) ==
    IF call[c].quantity = 0 THEN NoItem
    ELSE [row |-> call[c].found.row, quantity |-> call[c].quantity]

WriteEdit(c) ==
    /\ call[c].at = "edit_write"
    /\ StillThere(c)
    /\ SetItem(c, EditedItem(c))
    /\ Return(c)
    /\ UNCHANGED <<cart, active, stock, reserved, placed, released, overlapped>>

ClearCart(c, b) ==
    /\ call[c] = Idle
    /\ cart[b] = "ACTIVE"
    /\ Goto(c, [at |-> "clear", buyer |-> b])
    /\ Begin
    /\ UNCHANGED tables

\* Mutated: the items stay in the cart.
KeepItems(b) == item

WithoutItems(b) ==
    [bp \in Buyers \X Products |-> IF bp[1] = b THEN NoItem ELSE item[bp]]

DeleteItems(c) ==
    /\ call[c].at = "clear"
    /\ item' = WithoutItems(call[c].buyer)
    /\ Return(c)
    /\ UNCHANGED <<cart, active, stock, reserved, placed, released, overlapped>>

-----------------------------------------------------------------------------
(* CheckoutUseCase.checkout and OrdersService.createOrdersFromCart          *)

BasketOf(b) == [p \in Products |-> item[b, p].quantity]

\* Mutated: stock that is already reserved is offered again.
LineInStock(p, n) == p \in active /\ stock[p] >= n

AssertCartItemCanCheckout(p, n) == p \in active /\ Available(p) >= n

\* The id of the checkout is taken only when it commits; one is left for it.
CheckoutIdLeft ==
    Cardinality({c \in Calls : call[c].at = "checkout"})
        < Cardinality({k \in Checkouts : placed[k] = NotPlaced})

\* One read of the active cart with its items and their inventory.
ReadCart(c, b) ==
    LET basket == BasketOf(b)
    IN  /\ call[c] = Idle
        /\ CheckoutIdLeft
        /\ cart[b] = "ACTIVE"
        /\ basket # Nothing
        /\ \A p \in Products : basket[p] > 0 => AssertCartItemCanCheckout(p, basket[p])
        /\ Goto(c, [at |-> "checkout", buyer |-> b, basket |-> basket])
        /\ Begin
        /\ UNCHANGED tables

\* The transaction.  The intermediate status CHECKING_OUT is never committed.
CommitCheckout(c, k) ==
    LET b == call[c].buyer
        basket == call[c].basket
    IN  /\ call[c].at = "checkout"
        /\ placed[k] = NotPlaced
        /\ placed' = [placed EXCEPT ![k] = [buyer |-> b, lines |-> basket]]
        /\ reserved' = [p \in Products |-> reserved[p] + basket[p]]
        /\ item' = WithoutItems(b)
        /\ cart' = [cart EXCEPT ![b] = "COMPLETED"]
        /\ Return(c)
        /\ UNCHANGED <<active, stock, released, overlapped>>

-----------------------------------------------------------------------------
(* OrdersService.cancelOrder                                                *)

\* Mutated: one unit per line, whatever its quantity.
UnitPerLine(k, s) ==
    [p \in Products |-> IF Shop[p] = s /\ placed[k].lines[p] > 0 THEN 1 ELSE 0]

Lines(k, s) == [p \in Products |-> IF Shop[p] = s THEN placed[k].lines[p] ELSE 0]

CancelOrder(c, k, s) ==
    /\ call[c] = Idle
    /\ placed[k] # NotPlaced
    /\ \E p \in Products : Shop[p] = s /\ placed[k].lines[p] > 0
    /\ released[k, s] < MaxReleases
    /\ Goto(c, [at |-> "cancel", checkout |-> k, shop |-> s])
    /\ Begin
    /\ UNCHANGED tables

\* The transaction that gives the stock back.  CancelOrderUseCase runs after
\* it: findById throws on the address of the order, and nothing else changes.
ReleaseStock(c) ==
    LET k == call[c].checkout
        s == call[c].shop
    IN  /\ call[c].at = "cancel"
        /\ reserved' = [p \in Products |-> reserved[p] - Lines(k, s)[p]]
        /\ released' = [released EXCEPT ![<<k, s>>] = @ + 1]
        /\ Return(c)
        /\ UNCHANGED <<cart, item, active, stock, placed, overlapped>>

-----------------------------------------------------------------------------
(* The seller's side, and failure                                           *)

\* updateInventory for one product, bulkUpdateInventory for several of a shop:
\* the figure is set without a look at what is reserved.
UpdateInventory(figure) ==
    /\ \E s \in Shops : \A p \in DOMAIN figure : Shop[p] = s
    /\ stock' = [p \in Products |-> IF p \in DOMAIN figure THEN figure[p] ELSE stock[p]]
    /\ Begin
    /\ UNCHANGED <<cart, item, active, reserved, placed, released, call>>

\* The product is published, unpublished, archived or deleted.
UpdateProductStatus(p) ==
    /\ active' = IF p \in active THEN active \ {p} ELSE active \cup {p}
    /\ Begin
    /\ UNCHANGED <<cart, item, stock, reserved, placed, released, call>>

\* A check or a unique key refuses, the database or the process fails: the
\* handler ends and its open transaction is dropped.
Fail(c) ==
    /\ call[c] # Idle
    /\ Return(c)
    /\ UNCHANGED <<tables, overlapped>>

-----------------------------------------------------------------------------

CartCall(c) ==
    \/ \E b \in Buyers, p \in Products, n \in Quantities : AddItem(c, b, p, n)
    \/ \E b \in Buyers, p \in Products, n \in Quantities \cup {0} : EditItem(c, b, p, n)
    \/ \E b \in Buyers : ClearCart(c, b) \/ ViewCart(c, b)
    \/ FindCart(c)
    \/ CreateCart(c)
    \/ FindItem(c)
    \/ AssertSum(c)
    \/ UpdateSum(c)
    \/ \E i \in Rows : InsertItem(c, i)
    \/ FindItemToEdit(c)
    \/ AssertEdit(c)
    \/ WriteEdit(c)
    \/ DeleteItems(c)

OrderCall(c) ==
    \/ \E b \in Buyers : ReadCart(c, b)
    \/ \E k \in Checkouts : CommitCheckout(c, k)
    \/ \E k \in Checkouts, s \in Shops : CancelOrder(c, k, s)
    \/ ReleaseStock(c)

SellerCall ==
    \/ \E S \in (SUBSET Edited) \ {{}} : \E figure \in Figures(S) : UpdateInventory(figure)
    \/ \E p \in Edited : UpdateProductStatus(p)

Next ==
    \/ SellerCall
    \/ \E c \in Calls : CartCall(c) \/ OrderCall(c) \/ Fail(c)

Spec == Init /\ [][Next]_vars

-----------------------------------------------------------------------------
(* Properties under every interleaving.                                     *)

\* Inventory.reserved (moved by increments in three transactions) is what the
\* orders of a product hold, less what cancelOrder gave back.
ReservedAccounted ==
    \A p \in Products :
        reserved[p] = SumFunction(
            [k \in Checkouts |-> placed[k].lines[p] * (1 - released[k, Shop[p]])])

-----------------------------------------------------------------------------
(* Properties as long as handlers have not overlapped: what the checks that  *)
(* precede the writes guarantee.  Each fails when a second handler runs      *)
(* between check and write.                                                 *)

\* A checkout reserves at most what was available: the check of checkout and
\* createOrdersFromCart, made on each item, covers the whole basket.
NoOversell ==
    [][~overlapped' =>
          \A p \in Products : reserved'[p] > reserved[p] => reserved'[p] <= stock[p]]_vars

\* Nothing is left in a cart that has been checked out, or put into it later.
NothingLeftBehind ==
    ~overlapped =>
        \A b \in Buyers, p \in Products : cart[b] = "COMPLETED" => item[b, p] = NoItem

\* What a buyer adds is added to what the cart holds, in whichever of its
\* branches addItem ends; and an item in a cart only grows up to the available
\* stock, although the first check of addItem is made for the added quantity alone.
AddsWithinStock ==
    [][~overlapped' =>
          /\ \A c \in Calls :
                (call[c].at \in {"add_update", "add_insert"} /\ item' # item) =>
                    item'[call[c].buyer, call[c].product].quantity =
                        item[call[c].buyer, call[c].product].quantity + call[c].quantity
          /\ \A b \in Buyers, p \in Products :
                item'[b, p].quantity > item[b, p].quantity
                    => item'[b, p].quantity <= Available(p)]_vars

-----------------------------------------------------------------------------
(* What the code's documentation says, and the code does not do.            *)

\* cancelOrder is for PENDING orders and cancels them, so the stock of an order
\* is given back once.
ReleasedOnce == \A o \in Checkouts \X Shops : released[o] <= 1

\* When no active cart is found, one can be created: what findOrCreateCart of
\* the cart use cases relies on.
CartCanBeCreated ==
    ~overlapped =>
        \A c \in Calls : call[c].at \in {"add_create", "view_create"} => cart[call[c].buyer] = "none"
=============================================================================
