-------------------------- MODULE Checkout_proofs ---------------------------
(* Proofs about Checkout, for every set of buyers, products, shops and       *)
(* handlers.                                                                *)
EXTENDS Checkout, LedgerBook_proofs

\* What the fields of a handler hold, by where it is.
LEMMA HandlerFields ==
  ASSUME NEW h \in Handlers
  PROVE  /\ h.at \in {"add_cart", "add_create", "add_find", "add_insert", "add_sum", "add_update"} =>
               h.buyer \in Buyers /\ h.product \in Products /\ h.quantity \in Quantities
         /\ h.at \in {"edit_find", "edit_stock", "edit_write"} =>
               h.buyer \in Buyers /\ h.product \in Products /\ h.quantity \in Quantities \cup {0}
         /\ h.at \in {"add_sum", "add_update", "edit_stock", "edit_write"} =>
               h.found \in ItemRows
         /\ h.at \in {"view_create", "clear", "checkout"} => h.buyer \in Buyers
         /\ h.at = "checkout" => h.basket \in Baskets
         /\ h.at = "cancel" => h.checkout \in Checkouts /\ h.shop \in Shops
  BY DEF Handlers, Idle

LEMMA InitTyped == Init => TypeOK
  <1>. SUFFICES ASSUME Init PROVE TypeOK
    OBVIOUS
  <1>1. stock \in [Products -> Nat]
    <2>1. PICK figure \in Figures(Products) : stock = figure
      BY DEF Init
    <2>2. /\ figure = [p \in Products |-> figure[p]]
          /\ \A p \in Products : figure[p] \in Stocks[p]
      BY DEF Figures
    <2>3. \A p \in Products : Stocks[p] \subseteq Nat
      BY CheckoutAssumption
    <2>. QED BY <2>1, <2>2, <2>3
  <1>2. call \in [Calls -> Handlers]
    BY DEF Init, Handlers
  <1>3. item \in Items
    BY DEF Init, Items
  <1>4. placed \in [Checkouts -> [buyer : Buyers, lines : Baskets] \cup {NotPlaced}]
    BY DEF Init
  <1>5. /\ reserved \in [Products -> Int]
        /\ released \in [Checkouts \X Shops -> Nat]
        /\ cart \in [Buyers -> {"none", "ACTIVE", "COMPLETED"}]
    BY DEF Init
  <1>. QED BY <1>1, <1>2, <1>3, <1>4, <1>5 DEF Init, TypeOK

\* The rows that a step of a handler can write keep their types.
LEMMA ItemTypes ==
  ASSUME TypeOK
  PROVE  /\ \A b \in Buyers : WithoutItems(b) \in Items
         /\ \A b \in Buyers : BasketOf(b) \in Baskets
         /\ \A k \in Checkouts : placed[k].lines \in Baskets
         /\ \A b \in Buyers, p \in Products : item[b, p] \in ItemRows \cup {NoItem}
  <1>1. \A b \in Buyers, p \in Products : item[b, p] \in ItemRows \cup {NoItem}
    BY DEF TypeOK, Items
  <1>2. \A b \in Buyers : WithoutItems(b) \in Items
    BY DEF TypeOK, Items, WithoutItems
  <1>a. \A r \in ItemRows \cup {NoItem} : r.quantity \in Nat
    BY DEF ItemRows, NoItem
  <1>3. \A b \in Buyers, p \in Products : item[b, p].quantity \in Nat
    BY <1>1, <1>a
  <1>4. \A b \in Buyers : BasketOf(b) \in Baskets
    BY <1>3 DEF BasketOf, Baskets
  <1>5. \A k \in Checkouts : placed[k].lines \in Baskets
    BY DEF TypeOK, NotPlaced, Nothing, Baskets
  <1>. QED BY <1>1, <1>2, <1>4, <1>5

\* A row that replaces an item of a handler keeps the type of the table.
LEMMA SetItemType ==
  ASSUME TypeOK, NEW c \in Calls, NEW row \in ItemRows \cup {NoItem},
         call[c].buyer \in Buyers, call[c].product \in Products, SetItem(c, row)
  PROVE  item' \in Items
  BY DEF TypeOK, Items, SetItem

-----------------------------------------------------------------------------
LEMMA CartCallTyped ==
  ASSUME TypeOK, NEW c \in Calls, CartCall(c)
  PROVE  TypeOK'
  <1>. USE CheckoutAssumption
  <1>f. call[c] \in Handlers
    BY DEF TypeOK
  <1>. USE DEF Begin, Goto, Advance, Return, tables
  <1>1. ASSUME NEW b \in Buyers, NEW p \in Products, NEW n \in Quantities, AddItem(c, b, p, n)
        PROVE  TypeOK'
    BY <1>1 DEF AddItem, TypeOK, Handlers
  <1>2. ASSUME NEW b \in Buyers, NEW p \in Products, NEW n \in Quantities \cup {0},
               EditItem(c, b, p, n)
        PROVE  TypeOK'
    <2>1. [at |-> "edit_find", buyer |-> b, product |-> p, quantity |-> n] \in Handlers
      BY DEF Handlers
    <2>2. call' \in [Calls -> Handlers]
      BY <1>2, <2>1 DEF EditItem, TypeOK
    <2>3. overlapped' \in BOOLEAN
      BY <1>2 DEF EditItem
    <2>. QED BY <1>2, <2>2, <2>3 DEF EditItem, TypeOK
  <1>3. ASSUME NEW b \in Buyers, ClearCart(c, b) \/ ViewCart(c, b)
        PROVE  TypeOK'
    <2>1. [at |-> "clear", buyer |-> b] \in Handlers /\ [at |-> "view_create", buyer |-> b] \in Handlers
      BY DEF Handlers
    <2>2. call' \in [Calls -> Handlers]
      BY <1>3, <2>1 DEF ClearCart, ViewCart, TypeOK
    <2>3. overlapped' \in BOOLEAN
      BY <1>3 DEF ClearCart, ViewCart
    <2>4. UNCHANGED tables
      BY <1>3 DEF ClearCart, ViewCart
    <2>. QED BY <2>2, <2>3, <2>4 DEF TypeOK
  <1>4. CASE FindCart(c)
    <2>1. [call[c] EXCEPT !.at = "add_find"] \in Handlers
      BY <1>4, <1>f DEF FindCart, Handlers, Idle
    <2>2. [call[c] EXCEPT !.at = "add_create"] \in Handlers
      BY <1>4, <1>f DEF FindCart, Handlers, Idle
    <2>. QED BY <1>4, <2>1, <2>2 DEF FindCart, TypeOK
  <1>5. CASE CreateCart(c)
    <2>1. call[c].at = "add_create" => [call[c] EXCEPT !.at = "add_find"] \in Handlers
      BY <1>f DEF Handlers, Idle
    <2>2. Idle \in Handlers
      BY DEF Handlers
    <2>. QED BY <1>5, <2>1, <2>2 DEF CreateCart, HasCart, TypeOK
  <1>6. CASE FindItem(c)
    <2>1. Row(c) \in ItemRows \cup {NoItem}
      BY <1>6, <1>f, HandlerFields, ItemTypes DEF FindItem, Row
    <2>2. [call[c] EXCEPT !.at = "add_insert"] \in Handlers
      BY <1>6, <1>f DEF FindItem, Handlers, Idle
    <2>3. Row(c) # NoItem =>
             [at |-> "add_sum", buyer |-> call[c].buyer, product |-> call[c].product,
              quantity |-> call[c].quantity, found |-> Row(c)] \in Handlers
      BY <1>6, <1>f, <2>1, HandlerFields DEF FindItem, Handlers
    <2>. QED BY <1>6, <2>2, <2>3 DEF FindItem, TypeOK
  <1>7. CASE AssertSum(c)
    <2>1. [call[c] EXCEPT !.at = "add_update"] \in Handlers
      BY <1>7, <1>f DEF AssertSum, Handlers, Idle
    <2>. QED BY <1>7, <2>1 DEF AssertSum, TypeOK
  <1>8. CASE UpdateSum(c)
    <2>a. call[c].found \in ItemRows /\ call[c].quantity \in Quantities
      BY <1>8, <1>f, HandlerFields DEF UpdateSum
    <2>c. call[c].found.quantity \in Nat \ {0} /\ call[c].quantity \in Nat \ {0}
      BY <2>a DEF ItemRows
    <2>b. NextQuantity(c) \in Nat \ {0}
      BY <2>c DEF NextQuantity
    <2>1. [row |-> call[c].found.row, quantity |-> NextQuantity(c)] \in ItemRows
      BY <2>a, <2>b DEF ItemRows
    <2>2. item' \in Items
      BY <1>8, <1>f, <2>1, HandlerFields, SetItemType DEF UpdateSum
    <2>. QED BY <1>8, <2>2 DEF UpdateSum, TypeOK, Handlers
  <1>9. ASSUME NEW i \in Rows, InsertItem(c, i)
        PROVE  TypeOK'
    <2>1. [row |-> i, quantity |-> call[c].quantity] \in ItemRows
      BY <1>9, <1>f, HandlerFields DEF InsertItem, ItemRows
    <2>2. item' \in Items
      BY <1>9, <1>f, <2>1, HandlerFields, SetItemType DEF InsertItem
    <2>. QED BY <1>9, <2>2 DEF InsertItem, TypeOK, Handlers
  <1>10. CASE FindItemToEdit(c)
    <2>1. Row(c) \in ItemRows
      BY <1>10, <1>f, HandlerFields, ItemTypes DEF FindItemToEdit, Row
    <2>2. [at |-> IF call[c].quantity = 0 THEN "edit_write" ELSE "edit_stock",
           buyer |-> call[c].buyer, product |-> call[c].product,
           quantity |-> call[c].quantity, found |-> Row(c)] \in Handlers
      BY <1>10, <1>f, <2>1, HandlerFields DEF FindItemToEdit, Handlers
    <2>. QED BY <1>10, <2>2 DEF FindItemToEdit, TypeOK
  <1>11. CASE AssertEdit(c)
    <2>1. [call[c] EXCEPT !.at = "edit_write"] \in Handlers
      BY <1>11, <1>f DEF AssertEdit, Handlers, Idle
    <2>. QED BY <1>11, <2>1 DEF AssertEdit, TypeOK
  <1>12. CASE WriteEdit(c)
    <2>1. EditedItem(c) \in ItemRows \cup {NoItem}
      BY <1>12, <1>f, HandlerFields DEF WriteEdit, EditedItem, ItemRows
    <2>2. item' \in Items
      BY <1>12, <1>f, <2>1, HandlerFields, SetItemType DEF WriteEdit
    <2>. QED BY <1>12, <2>2 DEF WriteEdit, TypeOK, Handlers
  <1>13. CASE DeleteItems(c)
    BY <1>13, <1>f, HandlerFields, ItemTypes DEF DeleteItems, TypeOK, Handlers
  <1>. QED BY <1>1, <1>2, <1>3, <1>4, <1>5, <1>6, <1>7, <1>8, <1>9, <1>10, <1>11, <1>12, <1>13
           DEF CartCall

LEMMA OrderCallTyped ==
  ASSUME TypeOK, NEW c \in Calls, OrderCall(c) \/ Fail(c)
  PROVE  TypeOK'
  <1>f. call[c] \in Handlers
    BY DEF TypeOK
  <1>. USE DEF Begin, Goto, Return, tables
  <1>1. ASSUME NEW b \in Buyers, ReadCart(c, b)
        PROVE  TypeOK'
    BY <1>1, ItemTypes DEF ReadCart, TypeOK, Handlers
  <1>2. ASSUME NEW k \in Checkouts, CommitCheckout(c, k)
        PROVE  TypeOK'
    <2>1. call[c].buyer \in Buyers /\ call[c].basket \in Baskets
      BY <1>2, <1>f, HandlerFields DEF CommitCheckout
    <2>2. reserved' \in [Products -> Int]
      BY <1>2, <2>1 DEF CommitCheckout, TypeOK, Baskets
    <2>3. placed' \in [Checkouts -> [buyer : Buyers, lines : Baskets] \cup {NotPlaced}]
      BY <1>2, <2>1 DEF CommitCheckout, TypeOK
    <2>. QED BY <1>2, <2>1, <2>2, <2>3, ItemTypes DEF CommitCheckout, TypeOK, Handlers
  <1>3. ASSUME NEW k \in Checkouts, NEW s \in Shops, CancelOrder(c, k, s)
        PROVE  TypeOK'
    BY <1>3 DEF CancelOrder, TypeOK, Handlers
  <1>4. CASE ReleaseStock(c)
    <2>1. call[c].checkout \in Checkouts /\ call[c].shop \in Shops
      BY <1>4, <1>f, HandlerFields DEF ReleaseStock
    <2>2. \A p \in Products : Lines(call[c].checkout, call[c].shop)[p] \in Nat
      BY <2>1, ItemTypes DEF Lines, Baskets
    <2>3. reserved' \in [Products -> Int]
      BY <1>4, <2>2 DEF ReleaseStock, TypeOK
    <2>4. released' \in [Checkouts \X Shops -> Nat]
      BY <1>4, <2>1 DEF ReleaseStock, TypeOK
    <2>. QED BY <1>4, <2>3, <2>4 DEF ReleaseStock, TypeOK, Handlers
  <1>5. CASE Fail(c)
    BY <1>5 DEF Fail, TypeOK, Handlers
  <1>. QED BY <1>1, <1>2, <1>3, <1>4, <1>5 DEF OrderCall

LEMMA StepTyped == TypeOK /\ [Next]_vars => TypeOK'
  <1>. SUFFICES ASSUME TypeOK, [Next]_vars PROVE TypeOK'
    OBVIOUS
  <1>1. CASE UNCHANGED vars
    BY <1>1 DEF vars, TypeOK
  <1>2. ASSUME NEW S \in SUBSET Edited, NEW figure \in Figures(S), UpdateInventory(figure)
        PROVE  TypeOK'
    <2>1. \A p \in S : figure[p] \in Nat
      BY CheckoutAssumption DEF Figures
    <2>2. DOMAIN figure = S
      BY DEF Figures
    <2>. QED BY <1>2, <2>1, <2>2 DEF UpdateInventory, TypeOK, Begin
  <1>3. ASSUME NEW p \in Edited, UpdateProductStatus(p)
        PROVE  TypeOK'
    BY <1>3, CheckoutAssumption DEF UpdateProductStatus, TypeOK, Begin
  <1>. QED BY <1>1, <1>2, <1>3, CartCallTyped, OrderCallTyped DEF Next, SellerCall

\* The tables and the handlers of the checkout keep their types.
THEOREM TypeCorrect == Spec => []TypeOK
  BY InitTyped, StepTyped, PTL DEF Spec

-----------------------------------------------------------------------------
(* One handler at a time.                                                   *)

\* Where a handler works on the cart it has found ACTIVE.
CartWork == {"add_find", "add_insert", "add_sum", "add_update", "edit_find", "edit_stock",
             "edit_write", "clear", "checkout"}

InStock(basket) == \A p \in Products : basket[p] > 0 => basket[p] <= Available(p)

OneAtATime == \A c, d \in Calls : call[c] # Idle /\ call[d] # Idle => c = d

WorksOnActive == \A c \in Calls : call[c].at \in CartWork => cart[call[c].buyer] = "ACTIVE"

BasketInStock == \A c \in Calls : call[c].at = "checkout" => InStock(call[c].basket)

Serial ==
    ~overlapped => OneAtATime /\ WorksOnActive /\ BasketInStock

Strong == TypeOK /\ Serial /\ NothingLeftBehind

-----------------------------------------------------------------------------
(* What a step does while handlers do not overlap.                          *)

\* A handler begins, with what its first read has established.
Begins(c, h) ==
    /\ \A d \in Calls : call[d] = Idle
    /\ call' = [call EXCEPT ![c] = h]
    /\ UNCHANGED tables
    /\ h.at \in CartWork => cart[h.buyer] = "ACTIVE"
    /\ h.at = "checkout" => InStock(h.basket)

\* A seller's statement: nothing is in flight, only stock and active change.
Sells ==
    /\ \A d \in Calls : call[d] = Idle
    /\ UNCHANGED <<cart, item, reserved, placed, call>>

\* A handler goes on or ends, without an order.
Works(c, h) ==
    /\ call[c] # Idle
    /\ call' = [call EXCEPT ![c] = h]
    /\ UNCHANGED placed
    /\ h.at # "checkout"
    /\ h.at \in CartWork => cart'[h.buyer] = "ACTIVE"
    /\ \A b \in Buyers : cart'[b] = cart[b] \/ (cart[b] = "none" /\ cart'[b] = "ACTIVE")
    /\ \A b \in Buyers, p \in Products :
          item'[b, p] = item[b, p] \/ item'[b, p] = NoItem \/ cart[b] = "ACTIVE"
    /\ \A p \in Products : reserved'[p] <= reserved[p]

SerialStep ==
    \/ Sells
    \/ \E c \in Calls, h \in Handlers : Begins(c, h) \/ Works(c, h)
    \/ \E c \in Calls, k \in Checkouts : CommitCheckout(c, k)

LEMMA AtIdle == Idle.at = "idle"
  BY DEF Idle

LEMMA BeginSteps ==
  ASSUME TypeOK, ~overlapped', NEW c \in Calls
  PROVE  /\ \A b \in Buyers, p \in Products, n \in Quantities :
               AddItem(c, b, p, n) => \E h \in Handlers : Begins(c, h)
         /\ \A b \in Buyers, p \in Products, n \in Quantities \cup {0} :
               EditItem(c, b, p, n) => \E h \in Handlers : Begins(c, h)
         /\ \A b \in Buyers :
               ClearCart(c, b) \/ ViewCart(c, b) \/ ReadCart(c, b)
                   => \E h \in Handlers : Begins(c, h)
         /\ \A k \in Checkouts, s \in Shops :
               CancelOrder(c, k, s) => \E h \in Handlers : Begins(c, h)
  <1>1. Begin => \A d \in Calls : call[d] = Idle
    BY DEF Begin
  <1>2. ASSUME NEW b \in Buyers, NEW p \in Products, NEW n \in Quantities, AddItem(c, b, p, n)
        PROVE  \E h \in Handlers : Begins(c, h)
    <2>. DEFINE h == [at |-> "add_cart", buyer |-> b, product |-> p, quantity |-> n]
    <2>1. h \in Handlers /\ h.at \notin CartWork /\ h.at # "checkout"
      BY DEF Handlers, CartWork
    <2>2. Begins(c, h)
      BY <1>1, <1>2, <2>1 DEF AddItem, Begins, Goto
    <2>. QED BY <2>1, <2>2
  <1>3. ASSUME NEW b \in Buyers, NEW p \in Products, NEW n \in Quantities \cup {0},
               EditItem(c, b, p, n)
        PROVE  \E h \in Handlers : Begins(c, h)
    <2>. DEFINE h == [at |-> "edit_find", buyer |-> b, product |-> p, quantity |-> n]
    <2>1. h \in Handlers /\ h.buyer = b /\ h.at # "checkout"
      BY DEF Handlers
    <2>2. Begins(c, h)
      BY <1>1, <1>3, <2>1 DEF EditItem, Begins, Goto
    <2>. QED BY <2>1, <2>2
  <1>4. ASSUME NEW b \in Buyers, ClearCart(c, b)
        PROVE  \E h \in Handlers : Begins(c, h)
    <2>. DEFINE h == [at |-> "clear", buyer |-> b]
    <2>1. h \in Handlers /\ h.buyer = b /\ h.at # "checkout"
      BY DEF Handlers
    <2>2. Begins(c, h)
      BY <1>1, <1>4, <2>1 DEF ClearCart, Begins, Goto
    <2>. QED BY <2>1, <2>2
  <1>5. ASSUME NEW b \in Buyers, ViewCart(c, b)
        PROVE  \E h \in Handlers : Begins(c, h)
    <2>. DEFINE h == [at |-> "view_create", buyer |-> b]
    <2>1. h \in Handlers /\ h.at \notin CartWork /\ h.at # "checkout"
      BY DEF Handlers, CartWork
    <2>2. Begins(c, h)
      BY <1>1, <1>5, <2>1 DEF ViewCart, Begins, Goto
    <2>. QED BY <2>1, <2>2
  <1>6. ASSUME NEW b \in Buyers, ReadCart(c, b)
        PROVE  \E h \in Handlers : Begins(c, h)
    <2>. DEFINE h == [at |-> "checkout", buyer |-> b, basket |-> BasketOf(b)]
    <2>1. h \in Handlers /\ h.buyer = b /\ h.basket = BasketOf(b)
      BY ItemTypes DEF Handlers
    <2>2. InStock(BasketOf(b))
      <3>. SUFFICES ASSUME NEW p \in Products, BasketOf(b)[p] > 0
                    PROVE  BasketOf(b)[p] <= Available(p)
        BY DEF InStock
      <3>a. BasketOf(b) \in Baskets
        BY ItemTypes
      <3>1. BasketOf(b)[p] \in Nat /\ Available(p) \in Int
        BY <3>a DEF Baskets, Available, TypeOK
      <3>2. Available(p) >= BasketOf(b)[p]
        BY <1>6 DEF ReadCart, AssertCartItemCanCheckout
      <3>. QED BY <3>1, <3>2
    <2>3. Begins(c, h)
      BY <1>1, <1>6, <2>1, <2>2 DEF ReadCart, Begins, Goto
    <2>. QED BY <2>1, <2>3
  <1>7. ASSUME NEW k \in Checkouts, NEW s \in Shops, CancelOrder(c, k, s)
        PROVE  \E h \in Handlers : Begins(c, h)
    <2>. DEFINE h == [at |-> "cancel", checkout |-> k, shop |-> s]
    <2>1. h \in Handlers /\ h.at \notin CartWork /\ h.at # "checkout"
      BY DEF Handlers, CartWork
    <2>2. Begins(c, h)
      BY <1>1, <1>7, <2>1 DEF CancelOrder, Begins, Goto
    <2>. QED BY <2>1, <2>2
  <1>. QED BY <1>2, <1>3, <1>4, <1>5, <1>6, <1>7

\* The steps of the cart's use cases after the first read.
LEMMA CartSteps ==
  ASSUME TypeOK, ~overlapped, Serial, NEW c \in Calls,
         \/ FindCart(c) \/ CreateCart(c) \/ FindItem(c) \/ AssertSum(c) \/ UpdateSum(c)
         \/ \E i \in Rows : InsertItem(c, i)
         \/ FindItemToEdit(c) \/ AssertEdit(c) \/ WriteEdit(c) \/ DeleteItems(c)
  PROVE  \E h \in Handlers : Works(c, h)
  <1>f. call[c] \in Handlers /\ c \in DOMAIN call
    BY DEF TypeOK
  <1>a. call[c].at \in CartWork => cart[call[c].buyer] = "ACTIVE"
    BY DEF Serial, WorksOnActive
  <1>r. reserved' = reserved => \A p \in Products : reserved'[p] <= reserved[p]
    BY DEF TypeOK
  <1>i. Idle \in Handlers /\ Idle.at \notin CartWork /\ Idle.at # "checkout"
    BY DEF Handlers, Idle, CartWork
  <1>. USE DEF Goto, Advance, Return, tables
  \* Steps that write nothing and take the handler to h.
  <1>s. ASSUME NEW h \in Handlers, call[c] # Idle, Goto(c, h), UNCHANGED tables,
               h.at # "checkout", h.at \in CartWork => cart[h.buyer] = "ACTIVE"
        PROVE  Works(c, h)
    BY <1>s, <1>r DEF Works
  \* Steps that write items of the handler's buyer and end it.
  <1>w. ASSUME call[c] # Idle, Return(c), UNCHANGED <<placed, cart, reserved>>,
               \A b \in Buyers, p \in Products :
                  item'[b, p] = item[b, p] \/ item'[b, p] = NoItem \/ cart[b] = "ACTIVE"
        PROVE  \E h \in Handlers : Works(c, h)
    <2>1. Works(c, Idle)
      BY <1>w, <1>r, <1>i DEF Works
    <2>. QED BY <2>1, <1>i
  <1>m. ASSUME NEW row, SetItem(c, row), cart[call[c].buyer] = "ACTIVE",
               call[c].buyer \in Buyers, call[c].product \in Products
        PROVE  \A b \in Buyers, p \in Products : item'[b, p] = item[b, p] \/ cart[b] = "ACTIVE"
    BY <1>m DEF SetItem, TypeOK, Items
  <1>1. CASE FindCart(c)
    <2>. DEFINE h == [call[c] EXCEPT !.at = IF cart[call[c].buyer] = "ACTIVE"
                                            THEN "add_find" ELSE "add_create"]
    <2>1. h \in Handlers /\ h.buyer = call[c].buyer
      BY <1>1, <1>f DEF FindCart, Handlers, Idle
    <2>2. h.at # "checkout" /\ (h.at \in CartWork => cart[h.buyer] = "ACTIVE")
      BY <1>1, <1>f, <2>1 DEF FindCart, CartWork, Handlers, Idle
    <2>3. call[c] # Idle
      BY <1>1, AtIdle DEF FindCart
    <2>. QED BY <1>1, <1>s, <2>1, <2>2, <2>3 DEF FindCart
  <1>2. CASE CreateCart(c)
    <2>0. call[c].buyer \in Buyers /\ call[c] # Idle
      BY <1>2, <1>f, HandlerFields, AtIdle DEF CreateCart
    <2>1. \A b \in Buyers : cart'[b] = cart[b] \/ (cart[b] = "none" /\ cart'[b] = "ACTIVE")
      BY <1>2, <2>0 DEF CreateCart, TypeOK
    <2>2. CASE call[c].at = "add_create"
      <3>. DEFINE h == [call[c] EXCEPT !.at = "add_find"]
      <3>1. h \in Handlers /\ h.buyer = call[c].buyer /\ h.at = "add_find"
        BY <2>2, <1>f DEF Handlers, Idle
      <3>2. cart'[h.buyer] = "ACTIVE"
        BY <1>2, <2>0, <3>1 DEF CreateCart, TypeOK
      <3>3. Works(c, h)
        BY <1>2, <1>r, <2>0, <2>1, <2>2, <3>1, <3>2 DEF CreateCart, HasCart, Works
      <3>. QED BY <3>1, <3>3
    <2>3. CASE call[c].at # "add_create"
      <3>1. Works(c, Idle)
        BY <1>2, <1>r, <1>i, <2>0, <2>1, <2>3 DEF CreateCart, HasCart, Works
      <3>. QED BY <1>i, <3>1
    <2>. QED BY <2>2, <2>3
  <1>3. CASE FindItem(c)
    <2>0. call[c].at = "add_find" /\ call[c] # Idle /\ cart[call[c].buyer] = "ACTIVE"
      BY <1>3, <1>a, AtIdle DEF FindItem, CartWork
    <2>1. CASE Row(c) = NoItem
      <3>. DEFINE h == [call[c] EXCEPT !.at = "add_insert"]
      <3>1. h \in Handlers /\ h.buyer = call[c].buyer /\ h.at = "add_insert"
        BY <2>0, <1>f DEF Handlers, Idle
      <3>. QED BY <1>3, <1>s, <2>0, <2>1, <3>1 DEF FindItem
    <2>2. CASE Row(c) # NoItem
      <3>. DEFINE h == [at |-> "add_sum", buyer |-> call[c].buyer, product |-> call[c].product,
                        quantity |-> call[c].quantity, found |-> Row(c)]
      <3>1. Row(c) \in ItemRows
        BY <2>0, <2>2, <1>f, HandlerFields, ItemTypes DEF Row
      <3>2. h \in Handlers /\ h.buyer = call[c].buyer /\ h.at = "add_sum"
        BY <2>0, <3>1, <1>f, HandlerFields DEF Handlers
      <3>. QED BY <1>3, <1>s, <2>0, <2>2, <3>2 DEF FindItem
    <2>. QED BY <2>1, <2>2
  <1>4. CASE AssertSum(c)
    <2>0. call[c].at = "add_sum" /\ call[c] # Idle /\ cart[call[c].buyer] = "ACTIVE"
      BY <1>4, <1>a, AtIdle DEF AssertSum, CartWork
    <2>. DEFINE h == [call[c] EXCEPT !.at = "add_update"]
    <2>1. h \in Handlers /\ h.buyer = call[c].buyer /\ h.at = "add_update"
      BY <2>0, <1>f DEF Handlers, Idle
    <2>. QED BY <1>4, <1>s, <2>0, <2>1 DEF AssertSum
  <1>5. ASSUME NEW row, SetItem(c, row), Return(c), UNCHANGED <<placed, cart, reserved>>,
               call[c].at \in {"add_update", "add_insert", "edit_write"}
        PROVE  \E h \in Handlers : Works(c, h)
    <2>1. call[c].buyer \in Buyers /\ call[c].product \in Products /\ call[c] # Idle
      BY <1>5, <1>f, HandlerFields, AtIdle
    <2>2. cart[call[c].buyer] = "ACTIVE"
      BY <1>5, <1>a DEF CartWork
    <2>. QED BY <1>5, <1>m, <1>w, <2>1, <2>2
  <1>6. CASE UpdateSum(c) \/ (\E i \in Rows : InsertItem(c, i)) \/ WriteEdit(c)
    BY <1>5, <1>6 DEF UpdateSum, InsertItem, WriteEdit
  <1>7. CASE FindItemToEdit(c)
    <2>0. call[c].at = "edit_find" /\ call[c] # Idle /\ cart[call[c].buyer] = "ACTIVE"
      BY <1>7, <1>a, AtIdle DEF FindItemToEdit, CartWork
    <2>. DEFINE h == [at |-> IF call[c].quantity = 0 THEN "edit_write" ELSE "edit_stock",
                      buyer |-> call[c].buyer, product |-> call[c].product,
                      quantity |-> call[c].quantity, found |-> Row(c)]
    <2>1. Row(c) \in ItemRows
      BY <1>7, <2>0, <1>f, HandlerFields, ItemTypes DEF FindItemToEdit, Row
    <2>2. h \in Handlers /\ h.buyer = call[c].buyer /\ h.at # "checkout"
      BY <2>0, <2>1, <1>f, HandlerFields DEF Handlers
    <2>. QED BY <1>7, <1>s, <2>0, <2>2 DEF FindItemToEdit
  <1>8. CASE AssertEdit(c)
    <2>0. call[c].at = "edit_stock" /\ call[c] # Idle /\ cart[call[c].buyer] = "ACTIVE"
      BY <1>8, <1>a, AtIdle DEF AssertEdit, CartWork
    <2>. DEFINE h == [call[c] EXCEPT !.at = "edit_write"]
    <2>1. h \in Handlers /\ h.buyer = call[c].buyer /\ h.at = "edit_write"
      BY <2>0, <1>f DEF Handlers, Idle
    <2>. QED BY <1>8, <1>s, <2>0, <2>1 DEF AssertEdit
  <1>9. CASE DeleteItems(c)
    <2>1. call[c] # Idle
      BY <1>9, AtIdle DEF DeleteItems
    <2>2. \A b \in Buyers, p \in Products : item'[b, p] = item[b, p] \/ item'[b, p] = NoItem
      BY <1>9 DEF DeleteItems, WithoutItems
    <2>. QED BY <1>9, <1>w, <2>1, <2>2 DEF DeleteItems
  <1>. QED BY <1>1, <1>2, <1>3, <1>4, <1>6, <1>7, <1>8, <1>9

LEMMA Steps ==
  ASSUME Strong, ~overlapped', Next
  PROVE  ~overlapped /\ SerialStep
  <1>. USE DEF Strong
  <1>1. ASSUME SellerCall
        PROVE  ~overlapped /\ Sells
    BY <1>1 DEF SellerCall, UpdateInventory, UpdateProductStatus, Begin, Sells
  <1>o. ASSUME NEW c \in Calls, CartCall(c) \/ OrderCall(c) \/ Fail(c)
        PROVE  ~overlapped
    BY <1>o DEF CartCall, OrderCall, Fail, Begin, AddItem, EditItem, ClearCart, ViewCart,
                FindCart, CreateCart, FindItem, AssertSum, UpdateSum, InsertItem,
                FindItemToEdit, AssertEdit, WriteEdit, DeleteItems, ReadCart,
                CommitCheckout, CancelOrder, ReleaseStock
  <1>2. ASSUME NEW c \in Calls, CartCall(c)
        PROVE  SerialStep
    BY <1>2, <1>o, BeginSteps, CartSteps DEF CartCall, SerialStep
  <1>i. Idle \in Handlers /\ Idle.at \notin CartWork /\ Idle.at # "checkout"
    BY DEF Handlers, Idle, CartWork
  <1>3. ASSUME NEW c \in Calls, ReleaseStock(c)
        PROVE  SerialStep
    <2>1. call[c].checkout \in Checkouts /\ call[c] # Idle
      BY <1>3, HandlerFields, AtIdle DEF ReleaseStock, TypeOK
    <2>2. \A p \in Products : Lines(call[c].checkout, call[c].shop)[p] \in Nat
      BY <2>1, ItemTypes DEF Lines, Baskets
    <2>3. \A p \in Products : reserved'[p] <= reserved[p]
      BY <1>3, <2>2 DEF ReleaseStock, TypeOK
    <2>4. Works(c, Idle)
      BY <1>3, <1>i, <2>1, <2>3 DEF ReleaseStock, Return, Goto, Works
    <2>. QED BY <1>i, <2>4 DEF SerialStep
  <1>4. ASSUME NEW c \in Calls, Fail(c)
        PROVE  SerialStep
    <2>1. \A p \in Products : reserved'[p] <= reserved[p]
      BY <1>4 DEF Fail, tables, TypeOK
    <2>2. Works(c, Idle)
      BY <1>4, <1>i, <2>1 DEF Fail, Return, Goto, tables, Works
    <2>. QED BY <1>i, <2>2 DEF SerialStep
  <1>5. ASSUME NEW c \in Calls, OrderCall(c)
        PROVE  SerialStep
    BY <1>5, <1>o, <1>3, BeginSteps DEF OrderCall, SerialStep
  <1>. QED BY <1>1, <1>2, <1>4, <1>5, <1>o DEF Next, SerialStep

LEMMA InitStrong == Init => Strong
  <1>. SUFFICES ASSUME Init PROVE Strong
    OBVIOUS
  <1>1. \A c \in Calls : call[c] = Idle /\ call[c].at = "idle"
    BY AtIdle DEF Init
  <1>2. Serial
    BY <1>1 DEF Init, Serial, OneAtATime, WorksOnActive, BasketInStock, CartWork
  <1>3. NothingLeftBehind
    BY DEF Init, NothingLeftBehind
  <1>. QED BY <1>2, <1>3, InitTyped DEF Strong

\* Steps of a handler other than the commit of a checkout.
LEMMA BeginsKeep ==
  ASSUME Strong, ~overlapped, NEW c \in Calls, NEW h \in Handlers, Begins(c, h)
  PROVE  Serial' /\ NothingLeftBehind'
  <1>. USE DEF Strong
  <1>1. \A d \in Calls : call'[d] = IF d = c THEN h ELSE Idle
    BY DEF Begins, TypeOK
  <1>2. UNCHANGED <<cart, item, stock, reserved, placed>>
    BY DEF Begins, tables
  <1>3. OneAtATime'
    BY <1>1 DEF OneAtATime
  <1>4. WorksOnActive'
    BY <1>1, <1>2, AtIdle DEF WorksOnActive, Begins, CartWork
  <1>5. BasketInStock'
    BY <1>1, <1>2, AtIdle DEF BasketInStock, Begins, InStock, Available
  <1>6. NothingLeftBehind'
    BY <1>2 DEF NothingLeftBehind
  <1>. QED BY <1>3, <1>4, <1>5, <1>6 DEF Serial

LEMMA WorksKeep ==
  ASSUME Strong, ~overlapped, NEW c \in Calls, NEW h \in Handlers, Works(c, h)
  PROVE  Serial' /\ NothingLeftBehind'
  <1>. USE DEF Strong
  <1>1. \A d \in Calls : call'[d] = IF d = c THEN h ELSE Idle
    BY DEF Works, TypeOK, Serial, OneAtATime
  <1>2. OneAtATime'
    BY <1>1 DEF OneAtATime
  <1>3. WorksOnActive'
    BY <1>1, AtIdle DEF WorksOnActive, Works, CartWork
  <1>4. BasketInStock'
    BY <1>1, AtIdle DEF BasketInStock, Works
  <1>5. NothingLeftBehind'
    <2>. SUFFICES ASSUME NEW b \in Buyers, NEW p \in Products, cart'[b] = "COMPLETED"
                  PROVE  item'[b, p] = NoItem
      BY DEF NothingLeftBehind
    <2>1. cart[b] = "COMPLETED"
      BY DEF Works
    <2>2. item[b, p] = NoItem
      BY <2>1 DEF NothingLeftBehind
    <2>. QED BY <2>1, <2>2 DEF Works
  <1>. QED BY <1>2, <1>3, <1>4, <1>5 DEF Serial

LEMMA CommitKeeps ==
  ASSUME Strong, ~overlapped, NEW c \in Calls, NEW k \in Checkouts, CommitCheckout(c, k)
  PROVE  Serial' /\ NothingLeftBehind'
  <1>. USE DEF Strong
  <1>. DEFINE b == call[c].buyer
  <1>0. call[c] # Idle /\ b \in Buyers /\ cart[b] = "ACTIVE"
    BY HandlerFields, AtIdle DEF CommitCheckout, TypeOK, Serial, WorksOnActive, CartWork
  <1>1. \A d \in Calls : call'[d] = Idle /\ call'[d].at = "idle"
    BY <1>0, AtIdle DEF CommitCheckout, Return, Goto, TypeOK, Serial, OneAtATime
  <1>2. OneAtATime' /\ WorksOnActive' /\ BasketInStock'
    BY <1>1 DEF OneAtATime, WorksOnActive, BasketInStock, CartWork
  <1>3. cart'[b] = "COMPLETED" /\ \A d \in Buyers \ {b} : cart'[d] = cart[d]
    BY <1>0 DEF CommitCheckout, TypeOK
  <1>4. NothingLeftBehind'
    BY <1>0, <1>3 DEF NothingLeftBehind, CommitCheckout, WithoutItems
  <1>. QED BY <1>2, <1>4 DEF Serial

LEMMA StepStrong == Strong /\ [Next]_vars => Strong'
  <1>. SUFFICES ASSUME Strong, [Next]_vars PROVE Strong'
    OBVIOUS
  <1>1. TypeOK'
    BY StepTyped DEF Strong
  <1>2. CASE UNCHANGED vars
    BY <1>1, <1>2 DEF vars, Strong, Serial, OneAtATime, WorksOnActive, BasketInStock, InStock,
                      Available, NothingLeftBehind
  <1>3. CASE overlapped'
    BY <1>1, <1>3 DEF Strong, Serial, NothingLeftBehind
  <1>4. ASSUME ~overlapped', Next
        PROVE  Serial' /\ NothingLeftBehind'
    <2>1. ~overlapped /\ SerialStep
      BY <1>4, Steps
    <2>2. CASE Sells
      <3>1. \A d \in Calls : call'[d] = Idle /\ call'[d].at = "idle"
        BY <2>2, AtIdle DEF Sells
      <3>2. Serial'
        BY <2>1, <2>2, <3>1 DEF Sells, Strong, Serial, OneAtATime, WorksOnActive,
                                BasketInStock, CartWork
      <3>. QED BY <2>1, <2>2, <3>2 DEF Sells, Strong, NothingLeftBehind
    <2>. QED BY <2>1, <2>2, BeginsKeep, WorksKeep, CommitKeeps DEF SerialStep
  <1>. QED BY <1>1, <1>2, <1>3, <1>4 DEF Strong

LEMMA StrongInvariant == Spec => []Strong
  BY InitStrong, StepStrong, PTL DEF Spec

\* As long as handlers do not overlap, a completed cart stays empty.
THEOREM CompletedIsEmpty == Spec => []NothingLeftBehind
  <1>1. Strong => NothingLeftBehind
    BY DEF Strong
  <1>. QED BY <1>1, StrongInvariant, PTL

\* As long as handlers do not overlap, nothing but available stock is reserved.
THEOREM ReservesAvailable == Spec => NoOversell
  <1>. DEFINE Sound == ~overlapped' =>
                \A p \in Products : reserved'[p] > reserved[p] => reserved'[p] <= stock[p]
  <1>1. ASSUME Strong, [Next]_vars
        PROVE  [Sound]_vars
    <2>. SUFFICES ASSUME ~overlapped', Next, NEW p \in Products, reserved'[p] > reserved[p]
                  PROVE  reserved'[p] <= stock[p]
      BY <1>1
    <2>0. reserved[p] \in Int /\ stock[p] \in Nat /\ reserved'[p] \in Int
      BY <1>1, StepTyped DEF Strong, TypeOK
    <2>1. ~overlapped /\ SerialStep
      BY <1>1, Steps
    <2>2. PICK c \in Calls, k \in Checkouts : CommitCheckout(c, k)
      <3>0. ~(reserved'[p] <= reserved[p])
        BY <2>0
      <3>1. ~Sells
        BY <2>0, <3>0 DEF Sells
      <3>2. \A c \in Calls, h \in Handlers : ~Begins(c, h)
        BY <2>0, <3>0 DEF Begins, tables
      <3>3. \A c \in Calls, h \in Handlers : ~Works(c, h)
        BY <3>0 DEF Works
      <3>. QED BY <2>1, <3>1, <3>2, <3>3 DEF SerialStep
    <2>3. call[c].basket \in Baskets /\ InStock(call[c].basket)
      BY <1>1, <2>1, <2>2, HandlerFields DEF CommitCheckout, Strong, TypeOK, Serial, BasketInStock
    <2>4. reserved'[p] = reserved[p] + call[c].basket[p] /\ call[c].basket[p] \in Nat
      BY <2>2, <2>3 DEF CommitCheckout, Baskets
    <2>. QED BY <2>0, <2>3, <2>4 DEF InStock, Available
  <1>2. Strong /\ [Next]_vars => [Sound]_vars
    BY <1>1
  <1>. QED BY <1>2, StrongInvariant, PTL DEF Spec, NoOversell
-----------------------------------------------------------------------------
(* The reserved stock, whatever overlaps.                                   *)

\* What a checkout holds of a product; cancellations may take it below 0.
Held(k, p) == placed[k].lines[p] * (1 - released[k, Shop[p]])

\* Nothing is given back of a checkout before it commits: its cancellations
\* begin when its orders exist.
GivenBackLater ==
    /\ \A k \in Checkouts, s \in Shops : placed[k] = NotPlaced => released[k, s] = 0
    /\ \A c \in Calls : call[c].at = "cancel" => placed[call[c].checkout] # NotPlaced

Accounted == TypeOK /\ GivenBackLater /\ ReservedAccounted

LEMMA HeldTypes ==
  ASSUME TypeOK, NEW p \in Products
  PROVE  /\ Shop[p] \in Shops
         /\ \A k \in Checkouts : placed[k].lines[p] \in Nat /\ released[k, Shop[p]] \in Nat
         /\ \A k \in Checkouts : Held(k, p) \in Int
         /\ reserved[p] \in Int
         /\ Summable([k \in Checkouts |-> Held(k, p)])
  <1>1. Shop[p] \in Shops
    BY DEF Shops
  <1>2. \A k \in Checkouts : placed[k].lines[p] \in Nat /\ released[k, Shop[p]] \in Nat
    BY <1>1, ItemTypes DEF TypeOK, Baskets
  <1>3. ASSUME NEW k \in Checkouts
        PROVE  Held(k, p) \in Int
    <2>. DEFINE n == placed[k].lines[p]
                m == released[k, Shop[p]]
    <2>1. n \in Nat /\ m \in Nat
      BY <1>2
    <2>2. \A i, j \in Nat : i * (1 - j) \in Int
      OBVIOUS
    <2>. QED BY <2>1, <2>2 DEF Held
  <1>. QED BY <1>1, <1>2, <1>3, CheckoutAssumption DEF TypeOK, Summable

\* Steps that touch neither reservations nor orders.
LEMMA AccountedElsewhere ==
  ASSUME Accounted, UNCHANGED <<reserved, placed, released>>,
         \A c \in Calls : call'[c].at = "cancel" => placed[call'[c].checkout] # NotPlaced
  PROVE  GivenBackLater' /\ ReservedAccounted'
  BY DEF Accounted, GivenBackLater, ReservedAccounted

\* One checkout holds more or less of a product than before.
LEMMA AccountedChange ==
  ASSUME TypeOK, ReservedAccounted, NEW p \in Products, NEW k \in Checkouts, Held(k, p)' \in Int,
         \A l \in Checkouts \ {k} : Held(l, p)' = Held(l, p),
         reserved'[p] = reserved[p] + (Held(k, p)' - Held(k, p))
  PROVE  reserved'[p] = SumFunction([l \in Checkouts |-> Held(l, p)'])
  <1>. DEFINE f == [l \in Checkouts |-> Held(l, p)]
              g == [l \in Checkouts |-> Held(l, p)']
  <1>1. Summable(f) /\ reserved[p] = SumFunction(f)
    BY HeldTypes DEF ReservedAccounted, Held
  <1>3. /\ k \in DOMAIN f /\ DOMAIN g = DOMAIN f
        /\ \A l \in DOMAIN f \ {k} : g[l] = f[l]
        /\ g[k] = Held(k, p)' /\ f[k] = Held(k, p)
    OBVIOUS
  <1>4. g[k] \in Int
    OBVIOUS
  <1> HIDE DEF f, g
  <1>5. SumFunction(g) = SumFunction(f) + (g[k] - f[k])
    BY <1>1, <1>3, <1>4, SumChanged
  <1>6. reserved'[p] = SumFunction(g)
    BY <1>1, <1>3, <1>5
  <1>. QED BY <1>6 DEF g

LEMMA CommitAccounted ==
  ASSUME Accounted, TypeOK', NEW c \in Calls, NEW k \in Checkouts, CommitCheckout(c, k)
  PROVE  GivenBackLater' /\ ReservedAccounted'
  <1>. USE DEF Accounted
  <1>1. call[c].buyer \in Buyers /\ call[c].basket \in Baskets
    BY HandlerFields DEF CommitCheckout, TypeOK
  <1>2. /\ placed[k] = NotPlaced
        /\ placed'[k].lines = call[c].basket
        /\ \A l \in Checkouts \ {k} : placed'[l] = placed[l]
        /\ UNCHANGED released
    BY DEF CommitCheckout, TypeOK
  <1>n. placed'[k] # NotPlaced
    BY DEF CommitCheckout, TypeOK, NotPlaced
  <1>3. \A s \in Shops : released[k, s] = 0
    BY <1>2 DEF GivenBackLater
  <1>4. GivenBackLater'
    <2>1. \A d \in Calls : call'[d] = IF d = c THEN Idle ELSE call[d]
      BY DEF CommitCheckout, Return, Goto, TypeOK
    <2>2. ASSUME NEW d \in Calls, call'[d].at = "cancel"
          PROVE  placed'[call'[d].checkout] # NotPlaced
      <3>1. call'[d] = call[d]
        BY <2>1, <2>2, AtIdle
      <3>2. call[d].checkout \in Checkouts /\ placed[call[d].checkout] # NotPlaced
        BY <2>2, <3>1, HandlerFields DEF TypeOK, GivenBackLater
      <3>. QED BY <1>2, <1>n, <3>1, <3>2
    <2>3. \A l \in Checkouts, s \in Shops : placed'[l] = NotPlaced => released'[l, s] = 0
      BY <1>2, <1>n DEF GivenBackLater
    <2>. QED BY <2>2, <2>3 DEF GivenBackLater
  <1>5. ASSUME NEW p \in Products
        PROVE  reserved'[p] = SumFunction([l \in Checkouts |-> Held(l, p)'])
    <2>1. reserved'[p] = reserved[p] + call[c].basket[p] /\ call[c].basket[p] \in Nat
      BY <1>1 DEF CommitCheckout, Baskets
    <2>2. \A l \in Checkouts \ {k} : Held(l, p)' = Held(l, p)
      BY <1>2 DEF Held
    <2>3. placed[k].lines[p] = 0
      BY <1>2 DEF NotPlaced, Nothing
    <2>4. released[k, Shop[p]] = 0
      BY <1>3, HeldTypes
    <2>5. Held(k, p) = 0 * (1 - 0)
      BY <2>3, <2>4 DEF Held
    <2>6. Held(k, p)' = call[c].basket[p] * (1 - 0)
      BY <1>2, <2>4 DEF Held
    <2>7. \A i \in Nat : i * (1 - 0) = i /\ i \in Int /\ i = i - 0 * (1 - 0)
      OBVIOUS
    <2>8. Held(k, p)' \in Int /\ reserved'[p] = reserved[p] + (Held(k, p)' - Held(k, p))
      BY <2>1, <2>5, <2>6, <2>7
    <2>. QED BY <2>2, <2>8, AccountedChange
  <1>. QED BY <1>4, <1>5 DEF ReservedAccounted, Held

LEMMA ReleaseAccounted ==
  ASSUME Accounted, TypeOK', NEW c \in Calls, ReleaseStock(c)
  PROVE  GivenBackLater' /\ ReservedAccounted'
  <1>. USE DEF Accounted
  <1>0. call[c].checkout \in Checkouts /\ call[c].shop \in Shops
    BY HandlerFields DEF ReleaseStock, TypeOK
  <1>k. PICK k \in Checkouts : k = call[c].checkout
    BY <1>0
  <1>s. PICK s \in Shops : s = call[c].shop
    BY <1>0
  <1>1. placed[k] # NotPlaced
    BY <1>k DEF ReleaseStock, GivenBackLater
  <1>2. /\ UNCHANGED placed
        /\ \A l \in Checkouts, t \in Shops :
              released'[l, t] = IF l = k /\ t = s THEN released[l, t] + 1 ELSE released[l, t]
    BY <1>k, <1>s DEF ReleaseStock, TypeOK
  <1>3. GivenBackLater'
    <2>1. \A d \in Calls : call'[d] = IF d = c THEN Idle ELSE call[d]
      BY DEF ReleaseStock, Return, Goto, TypeOK
    <2>2. \A d \in Calls : call'[d].at = "cancel" => placed'[call'[d].checkout] # NotPlaced
      BY <1>2, <2>1, AtIdle DEF GivenBackLater
    <2>3. \A l \in Checkouts, t \in Shops : placed'[l] = NotPlaced => released'[l, t] = 0
      BY <1>1, <1>2 DEF GivenBackLater
    <2>. QED BY <2>2, <2>3 DEF GivenBackLater
  <1>4. ASSUME NEW p \in Products
        PROVE  reserved'[p] = SumFunction([l \in Checkouts |-> Held(l, p)'])
    <2>. DEFINE n == placed[k].lines[p]
                m == released[k, Shop[p]]
    <2>1. n \in Nat /\ m \in Nat /\ Shop[p] \in Shops /\ reserved[p] \in Int
      BY <1>1, HeldTypes
    <2>2. \A l \in Checkouts \ {k} : Held(l, p)' = Held(l, p)
      BY <1>2, <2>1 DEF Held
    <2>3. reserved'[p] = reserved[p] - IF Shop[p] = s THEN n ELSE 0
      BY <1>k, <1>s DEF ReleaseStock, Lines
    <2>4. Held(k, p) = n * (1 - m)
      BY DEF Held
    <2>5. Held(k, p)' = n * (1 - IF Shop[p] = s THEN m + 1 ELSE m)
      <3>1. released'[k, Shop[p]] = IF Shop[p] = s THEN m + 1 ELSE m
        BY <1>2, <2>1
      <3>. QED BY <1>2, <3>1 DEF Held
    <2>6. \A i, j \in Nat : i * (1 - (j + 1)) = i * (1 - j) - i /\ i * (1 - j) \in Int
      OBVIOUS
    <2>7. Held(k, p)' - Held(k, p) = - IF Shop[p] = s THEN n ELSE 0
      <3> HIDE DEF n, m
      <3>. QED BY <2>1, <2>4, <2>5, <2>6
    <2>8. /\ reserved'[p] = reserved[p] + (Held(k, p)' - Held(k, p))
          /\ Held(k, p)' \in Int
      <3> HIDE DEF n, m
      <3>. QED BY <2>1, <2>3, <2>4, <2>5, <2>6, <2>7
    <2>. QED BY <2>2, <2>8, AccountedChange
  <1>. QED BY <1>3, <1>4 DEF ReservedAccounted, Held

LEMMA StepAccounted == Accounted /\ [Next]_vars => Accounted'
  <1>. SUFFICES ASSUME Accounted, [Next]_vars PROVE Accounted'
    OBVIOUS
  <1>1. TypeOK'
    BY StepTyped DEF Accounted
  <1>2. CASE UNCHANGED vars
    BY <1>1, <1>2, AccountedElsewhere DEF vars, Accounted, GivenBackLater
  <1>3. CASE SellerCall
    BY <1>1, <1>3, AccountedElsewhere DEF SellerCall, UpdateInventory, UpdateProductStatus,
                                          Accounted, GivenBackLater
  \* Only handler c takes a step, and not into a cancellation of no order.
  <1>4. ASSUME NEW c \in Calls, \A d \in Calls \ {c} : call'[d] = call[d],
               call'[c].at = "cancel" => placed[call'[c].checkout] # NotPlaced,
               UNCHANGED <<reserved, placed, released>>
        PROVE  Accounted'
    <2>1. \A d \in Calls : call'[d].at = "cancel" => placed[call'[d].checkout] # NotPlaced
      BY <1>4 DEF Accounted, GivenBackLater
    <2>. QED BY <1>1, <1>4, <2>1, AccountedElsewhere DEF Accounted
  <1>g. ASSUME NEW c \in Calls, NEW h, Goto(c, h)
        PROVE  call'[c] = h /\ \A d \in Calls \ {c} : call'[d] = call[d]
    BY <1>g DEF Goto, Accounted, TypeOK
  <1>5. ASSUME NEW c \in Calls, CartCall(c)
        PROVE  Accounted'
    <2>1. call'[c].at # "cancel" /\ \A d \in Calls \ {c} : call'[d] = call[d]
      <3>. USE DEF Advance, Return, HasCart
      <3>1. ASSUME NEW a \in {"add_find", "add_create", "add_update", "add_insert", "edit_write"},
                   call[c].at \in {"add_cart", "add_create", "add_find", "add_sum", "edit_stock"}
            PROVE  [call[c] EXCEPT !.at = a].at # "cancel"
        BY <3>1 DEF Accounted, TypeOK, Handlers, Idle
      <3>2. CASE \E b \in Buyers, p \in Products, n \in Quantities : AddItem(c, b, p, n)
        BY <1>g, <3>2 DEF AddItem
      <3>d. CASE \E b \in Buyers, p \in Products, n \in Quantities \cup {0} : EditItem(c, b, p, n)
        BY <1>g, <3>d DEF EditItem
      <3>c. CASE \E b \in Buyers : ClearCart(c, b) \/ ViewCart(c, b)
        BY <1>g, <3>c DEF ClearCart, ViewCart
      <3>3. CASE FindCart(c)
        BY <1>g, <3>1, <3>3 DEF FindCart
      <3>4. CASE FindItem(c)
        <4>. DEFINE sum == [at |-> "add_sum", buyer |-> call[c].buyer, product |-> call[c].product,
                            quantity |-> call[c].quantity, found |-> Row(c)]
                    insert == [call[c] EXCEPT !.at = "add_insert"]
        <4>1. insert.at # "cancel" /\ sum.at # "cancel"
          BY <3>1, <3>4 DEF FindItem
        <4>2. Goto(c, insert) \/ Goto(c, sum)
          BY <3>4 DEF FindItem
        <4>. QED BY <1>g, <4>1, <4>2
      <3>5. CASE AssertSum(c) \/ AssertEdit(c)
        BY <1>g, <3>1, <3>5 DEF AssertSum, AssertEdit
      <3>e. CASE FindItemToEdit(c)
        BY <1>g, <3>e DEF FindItemToEdit
      <3>6. CASE CreateCart(c)
        <4>. DEFINE find == [call[c] EXCEPT !.at = "add_find"]
        <4>1. call[c].at = "add_create" => find.at # "cancel"
          BY <3>1
        <4>2. (call[c].at = "add_create" /\ Goto(c, find)) \/ Goto(c, Idle)
          BY <3>6 DEF CreateCart
        <4>. QED BY <1>g, <4>1, <4>2, AtIdle
      <3>7. CASE UpdateSum(c) \/ (\E i \in Rows : InsertItem(c, i)) \/ WriteEdit(c) \/ DeleteItems(c)
        BY <1>g, <3>7, AtIdle DEF UpdateSum, InsertItem, WriteEdit, DeleteItems
      <3>. QED BY <1>5, <3>2, <3>c, <3>d, <3>3, <3>4, <3>5, <3>e, <3>6, <3>7 DEF CartCall
    <2>2. UNCHANGED <<reserved, placed, released>>
      BY <1>5 DEF CartCall, AddItem, EditItem, ClearCart, ViewCart, FindCart, CreateCart, FindItem,
                  AssertSum, UpdateSum, InsertItem, FindItemToEdit, AssertEdit, WriteEdit, DeleteItems,
                  tables
    <2>. QED BY <1>4, <2>1, <2>2
  <1>6. ASSUME NEW c \in Calls, NEW b \in Buyers, ReadCart(c, b)
        PROVE  Accounted'
    BY <1>4, <1>6, <1>g DEF ReadCart, tables
  <1>7. ASSUME NEW c \in Calls, NEW k \in Checkouts, NEW s \in Shops, CancelOrder(c, k, s)
        PROVE  Accounted'
    <2>. DEFINE h == [at |-> "cancel", checkout |-> k, shop |-> s]
    <2>1. Goto(c, h) /\ h.checkout = k
      BY <1>7 DEF CancelOrder
    <2>2. placed[k] # NotPlaced /\ UNCHANGED <<reserved, placed, released>>
      BY <1>7 DEF CancelOrder, tables
    <2>. QED BY <1>4, <1>g, <2>1, <2>2
  <1>8. ASSUME NEW c \in Calls, Fail(c)
        PROVE  Accounted'
    BY <1>4, <1>8, <1>g, AtIdle DEF Fail, Return, tables
  <1>. QED BY <1>1, <1>2, <1>3, <1>5, <1>6, <1>7, <1>8, CommitAccounted, ReleaseAccounted
           DEF Next, OrderCall, Accounted

LEMMA InitAccounted == Init => Accounted
  <1>. SUFFICES ASSUME Init PROVE Accounted
    OBVIOUS
  <1>1. TypeOK
    BY InitTyped
  <1>2. GivenBackLater
    BY AtIdle DEF Init, GivenBackLater
  <1>3. ASSUME NEW p \in Products
        PROVE  reserved[p] = SumFunction([k \in Checkouts |-> Held(k, p)])
    <2>. DEFINE f == [k \in Checkouts |-> Held(k, p)]
    <2>1. \A k \in DOMAIN f : f[k] = 0
      <3>. SUFFICES ASSUME NEW k \in Checkouts PROVE Held(k, p) = 0
        OBVIOUS
      <3>1. released[k, Shop[p]] = 0
        BY <1>1, HeldTypes DEF Init
      <3>2. placed[k].lines[p] = 0
        BY DEF Init, NotPlaced, Nothing
      <3>3. Held(k, p) = 0 * (1 - 0)
        BY <3>1, <3>2 DEF Held
      <3>. QED BY <3>3
    <2>2. IsFiniteSet(DOMAIN f)
      BY CheckoutAssumption
    <2> HIDE DEF f
    <2>3. SumFunction(f) = 0
      BY <2>1, <2>2, SumOfZeros
    <2>. QED BY <2>3 DEF Init, f
  <1>. QED BY <1>1, <1>2, <1>3 DEF Accounted, ReservedAccounted, Held

\* The reserved figure of a product is what its orders hold less what was given
\* back of them, whatever handlers overlap and fail.
THEOREM ReservedByOrders == Spec => []ReservedAccounted
  <1>1. Accounted => ReservedAccounted
    BY DEF Accounted
  <1>. QED BY <1>1, InitAccounted, StepAccounted, PTL DEF Spec

-----------------------------------------------------------------------------
(* What is added to a cart, one handler at a time.                          *)

\* What a handler has read or checked of its item is still so.
Fresh(h) ==
    /\ h.at \in {"add_cart", "add_create", "add_find", "add_insert"} =>
          h.quantity <= Available(h.product)
    /\ h.at = "add_insert" => item[h.buyer, h.product] = NoItem
    /\ h.at \in {"add_sum", "add_update", "edit_stock", "edit_write"} =>
          item[h.buyer, h.product] = h.found
    /\ h.at = "add_update" => h.found.quantity + h.quantity <= Available(h.product)
    /\ h.at = "edit_write" => h.quantity <= Available(h.product) \/ h.quantity = 0

StillFresh == ~overlapped => \A c \in Calls : Fresh(call[c])

LEMMA CartFigures ==
  ASSUME TypeOK, NEW b \in Buyers, NEW p \in Products
  PROVE  item[b, p].quantity \in Nat /\ Available(p) \in Int
  <1>1. item[b, p] \in ItemRows \cup {NoItem}
    BY ItemTypes
  <1>2. \A r \in ItemRows \cup {NoItem} : r.quantity \in Nat
    BY DEF ItemRows, NoItem
  <1>3. stock[p] \in Int /\ reserved[p] \in Int
    BY DEF TypeOK
  <1>4. Available(p) \in Int
    BY <1>3 DEF Available
  <1>. QED BY <1>1, <1>2, <1>4

\* When the step is over no handler is in flight, or the one that is knows
\* what it needs of tables that have not changed.
LEMMA FreshAfter ==
  ASSUME Strong, ~overlapped', NEW c \in Calls, NEW h, Goto(c, h),
         (\A d \in Calls : call[d] = Idle) \/ (~overlapped /\ call[c] # Idle),
         \/ h = Idle
         \/ Fresh(h) /\ UNCHANGED <<item, stock, reserved>>
  PROVE  StillFresh'
  <1>1. \A d \in Calls : call'[d] = IF d = c THEN h ELSE Idle
    BY DEF Goto, Strong, TypeOK, Serial, OneAtATime
  <1>2. ASSUME NEW d \in Calls
        PROVE  Fresh(call[d])'
    <2>1. CASE call'[d] = Idle
      BY <2>1, AtIdle DEF Fresh
    <2>2. CASE call'[d] # Idle
      <3>1. call'[d] = h /\ Fresh(h) /\ UNCHANGED <<item, stock, reserved>>
        BY <1>1, <2>2
      <3>. QED BY <3>1 DEF Fresh, Available
    <2>. QED BY <2>1, <2>2
  <1>. QED BY <1>2 DEF StillFresh

LEMMA BeginFresh ==
  ASSUME Strong, ~overlapped', NEW c \in Calls,
         \/ \E b \in Buyers, p \in Products, n \in Quantities : AddItem(c, b, p, n)
         \/ \E b \in Buyers, p \in Products, n \in Quantities \cup {0} : EditItem(c, b, p, n)
         \/ \E b \in Buyers : ClearCart(c, b) \/ ViewCart(c, b) \/ ReadCart(c, b)
         \/ \E k \in Checkouts, s \in Shops : CancelOrder(c, k, s)
  PROVE  StillFresh'
  <1>1. Begin => \A d \in Calls : call[d] = Idle
    BY DEF Begin
  <1>s. ASSUME NEW h, Goto(c, h), Begin, UNCHANGED tables, Fresh(h)
        PROVE  StillFresh'
    BY <1>1, <1>s, FreshAfter DEF tables
  <1>2. ASSUME NEW b \in Buyers, NEW p \in Products, NEW n \in Quantities, AddItem(c, b, p, n)
        PROVE  StillFresh'
    <2>. DEFINE h == [at |-> "add_cart", buyer |-> b, product |-> p, quantity |-> n]
    <2>1. Available(p) \in Int /\ n \in Nat
      BY CheckoutAssumption DEF Strong, TypeOK, Available
    <2>2. Available(p) >= n
      BY <1>2 DEF AddItem, AssertAvailableStock
    <2>3. Fresh(h)
      BY <2>1, <2>2 DEF Fresh
    <2>4. Goto(c, h) /\ Begin /\ UNCHANGED tables
      BY <1>2 DEF AddItem
    <2>. QED BY <1>s, <2>3, <2>4
  <1>3. ASSUME NEW b \in Buyers, NEW p \in Products, NEW n \in Quantities \cup {0},
               EditItem(c, b, p, n)
        PROVE  StillFresh'
    <2>. DEFINE h == [at |-> "edit_find", buyer |-> b, product |-> p, quantity |-> n]
    <2>1. Fresh(h)
      BY DEF Fresh
    <2>2. Goto(c, h) /\ Begin /\ UNCHANGED tables
      BY <1>3 DEF EditItem
    <2>. QED BY <1>s, <2>1, <2>2
  <1>4. ASSUME NEW b \in Buyers, ClearCart(c, b) \/ ViewCart(c, b)
        PROVE  StillFresh'
    <2>. DEFINE h == [at |-> "clear", buyer |-> b]
                g == [at |-> "view_create", buyer |-> b]
    <2>1. Fresh(h) /\ Fresh(g)
      BY DEF Fresh
    <2>2. (Goto(c, h) \/ Goto(c, g)) /\ Begin /\ UNCHANGED tables
      BY <1>4 DEF ClearCart, ViewCart
    <2>. QED BY <1>s, <2>1, <2>2
  <1>5. ASSUME NEW b \in Buyers, ReadCart(c, b)
        PROVE  StillFresh'
    <2>. DEFINE h == [at |-> "checkout", buyer |-> b, basket |-> BasketOf(b)]
    <2>1. Fresh(h)
      BY DEF Fresh
    <2>2. Goto(c, h) /\ Begin /\ UNCHANGED tables
      BY <1>5 DEF ReadCart
    <2>. QED BY <1>s, <2>1, <2>2
  <1>6. ASSUME NEW k \in Checkouts, NEW s \in Shops, CancelOrder(c, k, s)
        PROVE  StillFresh'
    <2>. DEFINE h == [at |-> "cancel", checkout |-> k, shop |-> s]
    <2>1. Fresh(h)
      BY DEF Fresh
    <2>2. Goto(c, h) /\ Begin /\ UNCHANGED tables
      BY <1>6 DEF CancelOrder
    <2>. QED BY <1>s, <2>1, <2>2
  <1>. QED BY <1>2, <1>3, <1>4, <1>5, <1>6

\* A handler goes on, on what it has read.
LEMMA WorkFresh ==
  ASSUME Strong, StillFresh, ~overlapped', ~overlapped, NEW c \in Calls,
         \/ FindCart(c) \/ CreateCart(c) \/ FindItem(c) \/ AssertSum(c)
         \/ FindItemToEdit(c) \/ AssertEdit(c)
  PROVE  StillFresh'
  <1>f. call[c] \in Handlers /\ Fresh(call[c])
    BY DEF Strong, TypeOK, StillFresh
  <1>. USE DEF Advance, Return
  <1>i. call[c] # Idle
    BY AtIdle DEF FindCart, CreateCart, FindItem, AssertSum, FindItemToEdit, AssertEdit
  <1>s. ASSUME NEW h, Goto(c, h), h = Idle \/ Fresh(h), UNCHANGED <<item, stock, reserved>>
        PROVE  StillFresh'
    BY <1>s, <1>i, FreshAfter
  <1>a. \A p \in Products : Available(p) \in Int
    BY DEF Strong, TypeOK, Available
  <1>n. \A n \in Quantities \cup {0} : n \in Nat
    BY CheckoutAssumption
  <1>1. CASE FindCart(c) \/ CreateCart(c)
    <2>. DEFINE find == [call[c] EXCEPT !.at = "add_find"]
                create == [call[c] EXCEPT !.at = "add_create"]
    <2>1. call[c].at \in {"add_cart", "add_create"} =>
             /\ find.at = "add_find" /\ create.at = "add_create"
             /\ find.product = call[c].product /\ find.quantity = call[c].quantity
             /\ create.product = call[c].product /\ create.quantity = call[c].quantity
      BY <1>f DEF Handlers, Idle
    <2>2. call[c].at \in {"add_cart", "add_create"} => Fresh(find) /\ Fresh(create)
      BY <1>f, <2>1 DEF Fresh
    <2>3. /\ \/ call[c].at \in {"add_cart", "add_create"} /\ (Goto(c, find) \/ Goto(c, create))
             \/ Goto(c, Idle)
          /\ UNCHANGED <<item, stock, reserved>>
      BY <1>1 DEF FindCart, CreateCart, HasCart, tables
    <2>. QED BY <1>s, <2>2, <2>3
  <1>2. CASE FindItem(c)
    <2>. DEFINE insert == [call[c] EXCEPT !.at = "add_insert"]
                sum == [at |-> "add_sum", buyer |-> call[c].buyer, product |-> call[c].product,
                        quantity |-> call[c].quantity, found |-> Row(c)]
    <2>1. call[c].at = "add_find" /\ UNCHANGED <<item, stock, reserved>>
      BY <1>2 DEF FindItem, tables
    <2>2. /\ insert.at = "add_insert" /\ insert.buyer = call[c].buyer
          /\ insert.product = call[c].product /\ insert.quantity = call[c].quantity
      BY <2>1, <1>f DEF Handlers, Idle
    <2>3. CASE Row(c) = NoItem
      <3>1. Fresh(insert)
        BY <1>f, <2>1, <2>2, <2>3 DEF Fresh, Row
      <3>2. Goto(c, insert)
        BY <1>2, <2>3 DEF FindItem
      <3>. QED BY <1>s, <2>1, <3>1, <3>2
    <2>4. CASE Row(c) # NoItem
      <3>1. Fresh(sum)
        BY DEF Fresh, Row
      <3>2. Goto(c, sum)
        BY <1>2, <2>4 DEF FindItem
      <3>. QED BY <1>s, <2>1, <3>1, <3>2
    <2>. QED BY <2>3, <2>4
  <1>3. CASE AssertSum(c)
    <2>. DEFINE h == [call[c] EXCEPT !.at = "add_update"]
    <2>1. /\ call[c].at = "add_sum" /\ UNCHANGED <<item, stock, reserved>>
          /\ Goto(c, h) /\ Available(call[c].product) >= NextQuantity(c)
      BY <1>3 DEF AssertSum, AssertAvailableStock, tables
    <2>2. /\ h.at = "add_update" /\ h.buyer = call[c].buyer /\ h.product = call[c].product
          /\ h.quantity = call[c].quantity /\ h.found = call[c].found
      BY <2>1, <1>f DEF Handlers, Idle
    <2>3. call[c].found.quantity \in Nat /\ call[c].quantity \in Nat /\ call[c].product \in Products
      BY <2>1, <1>f, <1>n, HandlerFields DEF ItemRows
    <2>4. h.found.quantity + h.quantity <= Available(h.product)
      BY <1>a, <2>1, <2>2, <2>3 DEF NextQuantity
    <2>5. Fresh(h)
      BY <1>f, <2>1, <2>2, <2>4 DEF Fresh
    <2>. QED BY <1>s, <2>1, <2>5
  <1>4. CASE FindItemToEdit(c)
    <2>. DEFINE h == [at |-> IF call[c].quantity = 0 THEN "edit_write" ELSE "edit_stock",
                      buyer |-> call[c].buyer, product |-> call[c].product,
                      quantity |-> call[c].quantity, found |-> Row(c)]
    <2>1. Fresh(h)
      BY DEF Fresh, Row
    <2>2. Goto(c, h) /\ UNCHANGED <<item, stock, reserved>>
      BY <1>4 DEF FindItemToEdit, tables
    <2>. QED BY <1>s, <2>1, <2>2
  <1>5. CASE AssertEdit(c)
    <2>. DEFINE h == [call[c] EXCEPT !.at = "edit_write"]
    <2>1. /\ call[c].at = "edit_stock" /\ UNCHANGED <<item, stock, reserved>>
          /\ Goto(c, h) /\ Available(call[c].product) >= call[c].quantity
      BY <1>5 DEF AssertEdit, AssertAvailableStock, tables
    <2>2. /\ h.at = "edit_write" /\ h.buyer = call[c].buyer /\ h.product = call[c].product
          /\ h.quantity = call[c].quantity /\ h.found = call[c].found
      BY <2>1, <1>f DEF Handlers, Idle
    <2>3. h.quantity <= Available(h.product)
      BY <1>a, <1>f, <1>n, <2>1, <2>2, HandlerFields
    <2>4. Fresh(h)
      BY <1>f, <2>1, <2>2, <2>3 DEF Fresh
    <2>. QED BY <1>s, <2>1, <2>4
  <1>. QED BY <1>1, <1>2, <1>3, <1>4, <1>5

\* A handler writes and ends.
Ends(c) ==
    \/ UpdateSum(c) \/ (\E i \in Rows : InsertItem(c, i)) \/ WriteEdit(c) \/ DeleteItems(c)
    \/ (\E k \in Checkouts : CommitCheckout(c, k)) \/ ReleaseStock(c) \/ Fail(c)

LEMMA StepFresh ==
  ASSUME Strong, StillFresh, [Next]_vars
  PROVE  StillFresh'
  <1>1. CASE overlapped'
    BY <1>1 DEF StillFresh
  <1>2. CASE UNCHANGED vars
    BY <1>2 DEF vars, StillFresh, Fresh, Available
  <1>3. ASSUME ~overlapped', SellerCall
        PROVE  StillFresh'
    <2>1. \A c \in Calls : call'[c] = Idle
      BY <1>3 DEF SellerCall, UpdateInventory, UpdateProductStatus, Begin
    <2>. QED BY <2>1, AtIdle DEF StillFresh, Fresh
  <1>4. ASSUME ~overlapped', NEW c \in Calls, Ends(c)
        PROVE  StillFresh'
    <2>1. ~overlapped /\ Goto(c, Idle)
      <3>. USE <1>4 DEF Return
      <3>1. CASE UpdateSum(c) \/ WriteEdit(c) \/ DeleteItems(c)
        BY <3>1 DEF UpdateSum, WriteEdit, DeleteItems
      <3>2. CASE \E i \in Rows : InsertItem(c, i)
        BY <3>2 DEF InsertItem
      <3>3. CASE (\E k \in Checkouts : CommitCheckout(c, k)) \/ ReleaseStock(c) \/ Fail(c)
        BY <3>3 DEF CommitCheckout, ReleaseStock, Fail
      <3>. QED BY <3>1, <3>2, <3>3 DEF Ends
    <2>2. call[c] # Idle
      BY <1>4, AtIdle DEF Ends, UpdateSum, InsertItem, WriteEdit, DeleteItems, CommitCheckout,
                          ReleaseStock, Fail
    <2>. QED BY <1>4, <2>1, <2>2, FreshAfter
  <1>5. ASSUME ~overlapped', NEW c \in Calls,
               \/ FindCart(c) \/ CreateCart(c) \/ FindItem(c) \/ AssertSum(c)
               \/ FindItemToEdit(c) \/ AssertEdit(c)
        PROVE  StillFresh'
    <2>1. ~overlapped
      BY <1>5 DEF FindCart, CreateCart, FindItem, AssertSum, FindItemToEdit, AssertEdit
    <2>. QED BY <1>5, <2>1, WorkFresh
  <1>. QED BY <1>1, <1>2, <1>3, <1>4, <1>5, BeginFresh DEF Next, CartCall, OrderCall, Ends

LEMMA AlwaysFresh == Spec => [](Strong /\ StillFresh)
  <1>1. Init => StillFresh
    BY AtIdle DEF Init, StillFresh, Fresh
  <1>. QED BY <1>1, InitStrong, StepStrong, StepFresh, PTL DEF Spec

\* The only steps that write an item.
LEMMA ItemWrites ==
  ASSUME Strong, [Next]_vars, item' # item
  PROVE  \E c \in Calls : Ends(c) /\ call[c] # Idle /\ ~Fail(c) /\ ~ReleaseStock(c) /\ UNCHANGED <<stock, overlapped>>
  <1>1. ASSUME NEW c \in Calls, CartCall(c) \/ OrderCall(c) \/ Fail(c)
        PROVE  Ends(c) /\ call[c] # Idle /\ ~Fail(c) /\ ~ReleaseStock(c) /\ UNCHANGED <<stock, overlapped>>
    <2>1. ~Fail(c) /\ ~ReleaseStock(c)
      BY DEF Fail, ReleaseStock, tables
    <2>2. Ends(c)
      BY <1>1 DEF Ends, CartCall, OrderCall, AddItem, EditItem, ClearCart, ViewCart, FindCart,
                  CreateCart, FindItem, AssertSum, FindItemToEdit, AssertEdit, ReadCart,
                  CancelOrder, tables
    <2>3. UNCHANGED <<stock, overlapped>>
      BY <2>1, <2>2 DEF Ends, UpdateSum, InsertItem, WriteEdit, DeleteItems, CommitCheckout
    <2>4. call[c] # Idle
      BY <2>2, AtIdle DEF Ends, UpdateSum, InsertItem, WriteEdit, DeleteItems, CommitCheckout,
                          ReleaseStock, Fail
    <2>. QED BY <2>1, <2>2, <2>3, <2>4
  <1>. QED BY <1>1 DEF Next, SellerCall, UpdateInventory, UpdateProductStatus, vars

\* As long as handlers do not overlap, what a buyer adds is added to what the
\* cart holds, and an item grows to no more than the available stock.
THEOREM AddsFit == Spec => AddsWithinStock
  <1>. DEFINE Sound ==
                ~overlapped' =>
                    /\ \A c \in Calls :
                          (call[c].at \in {"add_update", "add_insert"} /\ item' # item) =>
                              item'[call[c].buyer, call[c].product].quantity =
                                  item[call[c].buyer, call[c].product].quantity + call[c].quantity
                    /\ \A b \in Buyers, p \in Products :
                          item'[b, p].quantity > item[b, p].quantity
                              => item'[b, p].quantity <= Available(p)
  <1>1. ASSUME Strong, StillFresh, [Next]_vars, ~overlapped', item' # item
        PROVE  Sound
    <2>1. PICK c \in Calls : Ends(c) /\ call[c] # Idle /\ ~Fail(c) /\ ~ReleaseStock(c)
                                /\ UNCHANGED <<stock, overlapped>>
      BY <1>1, ItemWrites
    <2>2. \A d \in Calls : d # c => call[d] = Idle
      BY <1>1, <2>1 DEF Strong, Serial, OneAtATime
    <2>3. call[c] \in Handlers /\ Fresh(call[c])
      BY <1>1, <2>1 DEF Strong, TypeOK, StillFresh
    <2>q. \A b \in Buyers, p \in Products :
             item[b, p].quantity \in Nat /\ Available(p) \in Int
      BY <1>1, CartFigures DEF Strong
    \* The item of the handler becomes n; no other item changes.
    <2>4. ASSUME NEW row, SetItem(c, row), NEW n \in Nat, row.quantity = n,
                 call[c].buyer \in Buyers, call[c].product \in Products,
                 n <= Available(call[c].product) \/ n = 0,
                 call[c].at \in {"add_update", "add_insert"} =>
                    n = item[call[c].buyer, call[c].product].quantity + call[c].quantity
          PROVE  Sound
      <3>1. \A b \in Buyers, p \in Products :
               item'[b, p] = IF b = call[c].buyer /\ p = call[c].product THEN row ELSE item[b, p]
        BY <1>1, <2>4 DEF SetItem, Strong, TypeOK, Items
      <3>2. ASSUME NEW d \in Calls, call[d].at \in {"add_update", "add_insert"}
            PROVE  item'[call[d].buyer, call[d].product].quantity =
                      item[call[d].buyer, call[d].product].quantity + call[d].quantity
        <4>1. d = c
          BY <2>2, <3>2, AtIdle
        <4>2. item'[call[c].buyer, call[c].product] = row
          BY <2>4, <3>1
        <4>3. row.quantity = item[call[c].buyer, call[c].product].quantity + call[c].quantity
          BY <2>4, <3>2, <4>1
        <4>. QED BY <4>1, <4>2, <4>3
      <3>3. ASSUME NEW b \in Buyers, NEW p \in Products,
                   item'[b, p].quantity > item[b, p].quantity
            PROVE  item'[b, p].quantity <= Available(p)
        <4>1. item[b, p].quantity \in Nat
          BY <2>q
        <4>2. b = call[c].buyer /\ p = call[c].product /\ item'[b, p] = row
          <5>1. \A m \in Nat : ~(m > m)
            OBVIOUS
          <5>2. item'[b, p] # item[b, p]
            BY <3>3, <4>1, <5>1
          <5>. QED BY <3>1, <5>2
        <4>3. n > item[b, p].quantity /\ item'[b, p].quantity = n
          BY <2>4, <3>3, <4>2
        <4>n. \A m \in Nat : ~(0 > m)
          OBVIOUS
        <4>4. n # 0
          BY <4>1, <4>3, <4>n
        <4>. QED BY <2>4, <4>2, <4>3, <4>4
      <3>. QED BY <3>2, <3>3
    <2>n. \A n \in Quantities \cup {0} : n \in Nat
      BY CheckoutAssumption
    <2>5. CASE UpdateSum(c)
      <3>. DEFINE row == [row |-> call[c].found.row, quantity |-> NextQuantity(c)]
      <3>1. call[c].at = "add_update" /\ SetItem(c, row)
        BY <2>5 DEF UpdateSum
      <3>2. /\ call[c].buyer \in Buyers /\ call[c].product \in Products
            /\ call[c].found \in ItemRows /\ call[c].quantity \in Nat
        BY <2>3, <2>n, <3>1, HandlerFields
      <3>3. call[c].found.quantity \in Nat
        BY <3>2 DEF ItemRows
      <3>4. NextQuantity(c) \in Nat /\ NextQuantity(c) <= Available(call[c].product)
        <4>1. call[c].found.quantity + call[c].quantity <= Available(call[c].product)
          BY <2>3, <3>1 DEF Fresh
        <4>. QED BY <3>2, <3>3, <4>1 DEF NextQuantity
      <3>5. NextQuantity(c) = item[call[c].buyer, call[c].product].quantity + call[c].quantity
        <4>1. item[call[c].buyer, call[c].product] = call[c].found
          BY <2>3, <3>1 DEF Fresh
        <4>. QED BY <4>1 DEF NextQuantity
      <3>6. row.quantity = NextQuantity(c)
        OBVIOUS
      <3> HIDE DEF row
      <3>. QED BY <2>4, <3>1, <3>2, <3>4, <3>5, <3>6
    <2>6. ASSUME NEW i \in Rows, InsertItem(c, i)
          PROVE  Sound
      <3>. DEFINE row == [row |-> i, quantity |-> call[c].quantity]
      <3>1. call[c].at = "add_insert" /\ SetItem(c, row) /\ Row(c) = NoItem
        BY <2>6 DEF InsertItem
      <3>2. call[c].buyer \in Buyers /\ call[c].product \in Products /\ call[c].quantity \in Nat
        BY <2>3, <2>n, <3>1, HandlerFields
      <3>3. call[c].quantity <= Available(call[c].product)
        BY <2>3, <3>1 DEF Fresh
      <3>4. call[c].quantity = item[call[c].buyer, call[c].product].quantity + call[c].quantity
        <4>1. NoItem.quantity = 0
          BY DEF NoItem
        <4>2. item[call[c].buyer, call[c].product] = NoItem
          BY <3>1 DEF Row
        <4>3. item[call[c].buyer, call[c].product].quantity = 0
          BY <4>1, <4>2
        <4>4. \A n \in Nat : n = 0 + n
          OBVIOUS
        <4>. QED BY <3>2, <4>3, <4>4
      <3>5. row.quantity = call[c].quantity
        OBVIOUS
      <3> HIDE DEF row
      <3>. QED BY <2>4, <3>1, <3>2, <3>3, <3>4, <3>5
    <2>7. CASE WriteEdit(c)
      <3>1. call[c].at = "edit_write" /\ SetItem(c, EditedItem(c))
        BY <2>7 DEF WriteEdit
      <3>2. call[c].buyer \in Buyers /\ call[c].product \in Products /\ call[c].quantity \in Nat
        BY <2>3, <2>n, <3>1, HandlerFields
      <3>3. EditedItem(c).quantity = call[c].quantity
        BY DEF EditedItem, NoItem
      <3>4. call[c].quantity <= Available(call[c].product) \/ call[c].quantity = 0
        BY <2>3, <3>1 DEF Fresh
      <3>. QED BY <2>4, <3>1, <3>2, <3>3, <3>4
    <2>8. CASE DeleteItems(c) \/ \E k \in Checkouts : CommitCheckout(c, k)
      <3>1. call[c].at \in {"clear", "checkout"} /\ item' = WithoutItems(call[c].buyer)
        BY <2>8 DEF DeleteItems, CommitCheckout
      <3>2. \A d \in Calls : call[d].at \notin {"add_update", "add_insert"}
        BY <2>2, <3>1, AtIdle
      <3>3. ASSUME NEW b \in Buyers, NEW p \in Products
            PROVE  ~(item'[b, p].quantity > item[b, p].quantity)
        <4>1. item'[b, p] = NoItem \/ item'[b, p] = item[b, p]
          BY <3>1 DEF WithoutItems
        <4>2. item[b, p].quantity \in Nat /\ NoItem.quantity = 0
          BY <2>q DEF NoItem
        <4>3. item'[b, p].quantity = 0 \/ item'[b, p].quantity = item[b, p].quantity
          BY <4>1, <4>2
        <4>4. \A n \in Nat : ~(0 > n) /\ ~(n > n)
          OBVIOUS
        <4>5. CASE item'[b, p].quantity = 0
          BY <4>2, <4>4, <4>5
        <4>6. CASE item'[b, p].quantity = item[b, p].quantity
          BY <4>2, <4>4, <4>6
        <4>. QED BY <4>3, <4>5, <4>6
      <3>. QED BY <3>2, <3>3
    <2>. QED BY <2>1, <2>5, <2>6, <2>7, <2>8 DEF Ends
  <1>2. ASSUME Strong, item' = item
        PROVE  Sound
    <2>1. \A b \in Buyers, p \in Products : ~(item'[b, p].quantity > item[b, p].quantity)
      <3>1. ASSUME NEW b \in Buyers, NEW p \in Products
            PROVE  ~(item[b, p].quantity > item[b, p].quantity)
        <4>1. item[b, p].quantity \in Nat
          BY <1>2, CartFigures DEF Strong
        <4>2. \A n \in Nat : ~(n > n)
          OBVIOUS
        <4>. QED BY <4>1, <4>2
      <3>. QED BY <1>2, <3>1
    <2>. QED BY <1>2, <2>1
  <1>3. Strong /\ StillFresh /\ [Next]_vars => [Sound]_vars
    BY <1>1, <1>2
  <1>. QED BY <1>3, AlwaysFresh, PTL DEF Spec, AddsWithinStock

=============================================================================
