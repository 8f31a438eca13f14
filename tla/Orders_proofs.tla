--------------------------- MODULE Orders_proofs ----------------------------
(* Proofs about Orders, for every set of orders, requests and payments and   *)
(* however the requests overlap and fail; then about LedgerDesk, for every    *)
(* set of requests, accounts and amounts; then about Records, for every set  *)
(* of ids, callers and prices, and every maximum of a stock and of a cart.    *)
EXTENDS MCOrders, LedgerBook_proofs

-----------------------------------------------------------------------------
(* What the methods of the entity leave.                                    *)

LEMMA NewEntity ==
  ASSUME NEW line \in Lines
  PROVE  /\ Create(line) \in Entities
         /\ Create(line).status = "PENDING"
         /\ Create(line).payment = "PENDING"
  <1>1. line \in LineRecords
    BY OrdersAssumption
  <1>2. line.quantity * line.retail \in Nat
    BY <1>1 DEF LineRecords
  <1>. QED BY <1>1, <1>2 DEF Create, Entities, OrderStatus, PaymentStatus

LEMMA SavedColumns ==
  ASSUME NEW e \in Entities
  PROVE  /\ Columns(e) \in Rows
         /\ Columns(e).status = e.status
         /\ Columns(e).payment = e.payment
  <1>1. [e.line EXCEPT !.wholesale = 0] \in LineRecords
    BY DEF Entities, LineRecords
  <1>. QED BY <1>1 DEF Columns, Entities, Rows

LEMMA CheckoutRowType ==
  ASSUME NEW line \in Lines
  PROVE  CheckoutRow(line) \in Rows /\ CheckoutRow(line).status = "PENDING"
         /\ CheckoutRow(line).payment = "PENDING"
  BY NewEntity, SavedColumns DEF CheckoutRow, Rows

LEMMA RowIsStored ==
  ASSUME NEW r \in Rows
  PROVE  r # NoRow
  BY DEF Rows, NoRow, OrderStatus

LEMMA LoadedEntity ==
  ASSUME NEW r \in Rows, NEW e \in ToDomain(r)
  PROVE  e \in Entities /\ e.status = r.status /\ e.payment = r.payment
  BY DEF Rows, ToDomain, Deserialized, When, Throws, Entities

LEMMA StatusMoved ==
  ASSUME NEW e \in Entities, NEW s \in OrderStatus, NEW f \in UpdateOrderStatus(e, s)
  PROVE  f \in Entities /\ f.status = s /\ (s = e.status \/ MayMove(e, s))
  BY DEF UpdateOrderStatus, When, Throws, Entities

LEMMA PaymentMoved ==
  ASSUME NEW e \in Entities, NEW s \in PaymentStatus, NEW f \in UpdatePaymentStatus(e, s)
  PROVE  f \in Entities /\ f.status = e.status /\ f.payment = s
  BY DEF UpdatePaymentStatus, When, Throws, Entities

LEMMA IntentSet ==
  ASSUME NEW e \in Entities, NEW f \in SetPaymentIntent(e)
  PROVE  f \in Entities /\ f.status = e.status /\ f.payment = e.payment
  BY DEF SetPaymentIntent, When, Throws, Entities

\* What a method may do to the status: it keeps it, or it moves it as MayMove says.
Moved(e, f) == f.status = e.status \/ MayMove(e, f.status)

LEMMA Cancelled ==
  ASSUME NEW e \in Entities, NEW reason \in BOOLEAN, NEW f \in Cancel(e, reason)
  PROVE  f \in Entities /\ f.status = "CANCELLED" /\ Moved(e, f)
  <1>1. CASE e.status = "CANCELLED"
    BY <1>1 DEF Cancel, Moved
  <1>2. CASE e.status # "CANCELLED"
    <2>1. PICK g \in UpdateOrderStatus(e, "CANCELLED") : f = [g EXCEPT !.noted = @ \/ reason]
      BY <1>2 DEF Cancel, Throws
    <2>2. g \in Entities /\ g.status = "CANCELLED" /\ ("CANCELLED" = e.status \/ MayMove(e, "CANCELLED"))
      BY StatusMoved DEF OrderStatus
    <2>3. (g.noted \/ reason) \in BOOLEAN
      OBVIOUS
    <2>. QED BY <2>1, <2>2, <2>3 DEF Entities, Moved
  <1>. QED BY <1>1, <1>2

\* A method leaves an entity, and what its event will announce is its status.
LEMMA ExecutedEntity ==
  ASSUME NEW u \in UseCases, NEW e \in Entities, NEW f \in Executed(u, e)
  PROVE  /\ f \in Entities /\ Moved(e, f) /\ Announced(u) \subseteq {f.status}
         /\ u.use = "updatePaymentStatus" => f.payment = u.to
         /\ u.use = "cancel" => f.status = "CANCELLED"
  <1>. u.use \in {"updateOrderStatus", "updatePaymentStatus", "cancel", "ship", "deliver",
                  "updateShippingAddress", "markAsPaid", "addNote"}
    BY DEF UseCases
  <1>1. CASE u.use = "updateOrderStatus"
    <2>1. u.to \in OrderStatus /\ f \in UpdateOrderStatus(e, u.to)
      BY <1>1, OrdersAssumption DEF UseCases, Executed
    <2>. QED BY <1>1, <2>1, StatusMoved DEF Announced, Moved
  <1>2. CASE u.use = "updatePaymentStatus"
    <2>1. u.to \in PaymentStatus /\ f \in UpdatePaymentStatusUseCase(u, e)
      BY <1>2, OrdersAssumption DEF UseCases, Executed
    <2>2. \/ f \in UpdatePaymentStatus(e, u.to)
          \/ \E g \in UpdatePaymentStatus(e, u.to) : f \in SetPaymentIntent(g)
      BY <2>1 DEF UpdatePaymentStatusUseCase, Then
    <2>3. f \in Entities /\ f.status = e.status /\ f.payment = u.to
      BY <2>1, <2>2, PaymentMoved, IntentSet
    <2>. QED BY <1>2, <2>3 DEF Announced, Moved
  <1>3. CASE u.use = "cancel"
    <2>1. u.reason \in BOOLEAN /\ f \in Cancel(e, u.reason)
      BY <1>3 DEF UseCases, Executed
    <2>. QED BY <1>3, <2>1, Cancelled DEF Announced
  <1>4. CASE u.use = "ship"
    <2>1. f \in UpdateOrderStatus(e, "SHIPPED")
      BY <1>4 DEF Executed, Ship, Throws
    <2>. QED BY <1>4, <2>1, StatusMoved DEF Announced, Moved, OrderStatus
  <1>5. CASE u.use = "deliver"
    <2>1. f \in UpdateOrderStatus(e, "DELIVERED")
      BY <1>5 DEF Executed, Deliver, Throws
    <2>. QED BY <1>5, <2>1, StatusMoved DEF Announced, Moved, OrderStatus
  <1>6. CASE u.use = "updateShippingAddress"
    <2>1. f = [e EXCEPT !.address = "changed"]
      BY <1>6 DEF Executed, UpdateShippingAddress, When, Throws
    <2>. QED BY <1>6, <2>1 DEF Announced, Moved, Entities
  <1>7. CASE u.use = "markAsPaid"
    <2>1. f = [e EXCEPT !.payment = "SUCCEEDED", !.intent = TRUE]
      BY <1>7 DEF Executed, MarkPaymentSucceeded, When, Throws
    <2>. QED BY <1>7, <2>1 DEF Announced, Moved, Entities, PaymentStatus
  <1>8. CASE u.use = "addNote"
    <2>1. f = [e EXCEPT !.noted = TRUE]
      BY <1>8 DEF Executed, AddNote, When, Throws
    <2>. QED BY <1>8, <2>1 DEF Announced, Moved, Entities
  <1>. QED BY <1>1, <1>2, <1>3, <1>4, <1>5, <1>6, <1>7, <1>8

-----------------------------------------------------------------------------
(* The inductive invariant.                                                 *)

\* A payment exists only for orders that exist.
PaysForOrders == payment # "NONE" => \A o \in Covered : Stored(o)

\* The history keeps up with the rows, and what is about to be saved as on its
\* way belongs to an order that was paid.
HistoryKept ==
    /\ \A o \in Orders :
          Stored(o) => /\ row[o].status \in was[o]
                       /\ row[o].payment = "SUCCEEDED" => o \in paid
    /\ \A c \in Calls :
          /\ call[c].at \in {"create", "save"}
          /\ call[c].entity.status \in {"SHIPPED", "DELIVERED"}
          => call[c].order \in paid

\* What a request will announce is what it saves, or what it has saved.
NewsPrepared ==
    \A c \in Calls :
        /\ call[c].at = "save" => Announced(call[c].u) \subseteq {call[c].entity.status}
        /\ call[c].at = "tell" => Announced(call[c].u) \subseteq was[call[c].order]

\* The payments are updated by requests for a payment status.
AsksForPayment(q) ==
    q.at = "payments" \/ (q.at \in {"execute", "save"} /\ q.rest = "payments")
    => q.u.use = "updatePaymentStatus"

SellersAsk == \A c \in Calls : AsksForPayment(call[c])

Inv == TypeOK /\ PaysForOrders /\ HistoryKept /\ ShippedWasPaid /\ NewsPrepared /\ NewsIsTrue
       /\ SellersAsk

LEMMA RequestFields ==
  ASSUME NEW q \in Requests
  PROVE  /\ q \notin {Idle, Done} => q.order \in Orders
         /\ q.at \in {"create", "release", "execute", "save", "tell", "payments"}
               => q \notin {Idle, Done}
         /\ q.at \in {"create", "save"} => q.entity \in Entities
         /\ q.at \in {"execute", "save", "tell", "payments"} => q.u \in UseCases
         /\ q.at \in {"execute", "save"} => q.rest \in {"tell", "payments"}
  BY DEF Requests, Idle, Done

LEMMA RestingCalls ==
  Idle.at = "idle" /\ Done.at = "done" /\ Idle \in Requests /\ Done \in Requests
  BY DEF Idle, Done, Requests

LEMMA InitInv == Init => Inv
  <1>. SUFFICES ASSUME Init PROVE Inv
    OBVIOUS
  <1>1. PICK line \in Lines :
          row = [o \in Orders |-> IF o \in FromCheckout THEN CheckoutRow(line) ELSE NoRow]
    BY DEF Init
  <1>2. CheckoutRow(line) \in Rows /\ CheckoutRow(line).status = "PENDING"
        /\ CheckoutRow(line).payment = "PENDING"
    BY CheckoutRowType
  <1>3. TypeOK
    BY <1>1, <1>2, RestingCalls DEF Init, TypeOK, OrderStatus
  <1>4. HistoryKept
    <2>1. ASSUME NEW o \in Orders, Stored(o)
          PROVE  row[o].status \in was[o] /\ row[o].payment # "SUCCEEDED"
      BY <1>1, <1>2, <2>1 DEF Init, Stored
    <2>2. ASSUME NEW c \in Calls
          PROVE  call[c].at \notin {"create", "save"}
      BY RestingCalls DEF Init
    <2>. QED BY <2>1, <2>2 DEF HistoryKept
  <1>5. PaysForOrders /\ ShippedWasPaid /\ NewsIsTrue
    BY DEF Init, PaysForOrders, ShippedWasPaid, NewsIsTrue
  <1>6. NewsPrepared
    BY RestingCalls DEF Init, NewsPrepared
  <1>7. SellersAsk
    BY RestingCalls DEF Init, SellersAsk, AsksForPayment
  <1>. QED BY <1>3, <1>4, <1>5, <1>6, <1>7 DEF Inv

-----------------------------------------------------------------------------
(* Steps by what they change.                                               *)

\* A step that only moves request c on to step, which saves or tells nothing new.
MovesOn(c, step) ==
    /\ call' = [call EXCEPT ![c] = step]
    /\ step \in Requests
    /\ step.at \in {"create", "save"} /\ step.entity.status \in {"SHIPPED", "DELIVERED"}
       => step.order \in paid'
    /\ step.at = "save" => Announced(step.u) \subseteq {step.entity.status}
    /\ step.at = "tell" => Announced(step.u) \subseteq was'[step.order]
    /\ AsksForPayment(step)

LEMMA CallsKept ==
  ASSUME Inv, NEW c \in Calls, NEW step, MovesOn(c, step),
         paid \subseteq paid',
         \A o \in Orders : was[o] \subseteq was'[o]
  PROVE  /\ call' \in [Calls -> Requests]
         /\ \A d \in Calls :
               /\ call'[d].at \in {"create", "save"}
               /\ call'[d].entity.status \in {"SHIPPED", "DELIVERED"}
               => call'[d].order \in paid'
         /\ NewsPrepared'
         /\ SellersAsk'
  <1>1. call' \in [Calls -> Requests]
    BY DEF MovesOn, Inv, TypeOK
  <1>2. ASSUME NEW d \in Calls
        PROVE  /\ /\ call'[d].at \in {"create", "save"}
                  /\ call'[d].entity.status \in {"SHIPPED", "DELIVERED"}
                  => call'[d].order \in paid'
               /\ call'[d].at = "save" => Announced(call'[d].u) \subseteq {call'[d].entity.status}
               /\ call'[d].at = "tell" => Announced(call'[d].u) \subseteq was'[call'[d].order]
    <2>1. CASE d = c
      <3>1. call'[d] = step
        BY <2>1 DEF MovesOn, Inv, TypeOK
      <3>. QED BY <3>1 DEF MovesOn
    <2>2. CASE d # c
      <3>1. call'[d] = call[d] /\ call[d] \in Requests
        BY <2>2 DEF MovesOn, Inv, TypeOK
      <3>2. call[d].at = "tell" => call[d].order \in Orders
        BY <3>1, RequestFields
      <3>. QED BY <3>1, <3>2 DEF Inv, HistoryKept, NewsPrepared
    <2>. QED BY <2>1, <2>2
  <1>3. ASSUME NEW d \in Calls
        PROVE  Announced(call[d].u)' = Announced(call'[d].u)
    BY DEF Announced
  <1>4. ASSUME NEW d \in Calls
        PROVE  AsksForPayment(call[d])'
    <2>1. call'[d] = step \/ call'[d] = call[d]
      BY DEF MovesOn, Inv, TypeOK
    <2>. QED BY <2>1 DEF MovesOn, Inv, SellersAsk, AsksForPayment
  <1>. QED BY <1>1, <1>2, <1>3, <1>4 DEF NewsPrepared, SellersAsk

\* The rows and their history stay as they are.
RowsLeft == UNCHANGED <<row, was, paid>>

\* The row of o becomes r.
RowWritten(o, r) ==
    /\ r \in Rows
    /\ r.status \in {"SHIPPED", "DELIVERED"} => o \in paid
    /\ Write(o, r)
    /\ payment' = payment

\* What is true of the rows after a step that leaves them or writes one.
RowsFine ==
    /\ row \in [Orders -> Rows \cup {NoRow}]
    /\ payment \in PaymentStatus \cup {"NONE"}
    /\ was \in [Orders -> SUBSET OrderStatus]
    /\ paid \subseteq Orders
    /\ \A o \in Orders :
          Stored(o) => /\ row[o].status \in was[o]
                       /\ row[o].payment = "SUCCEEDED" => o \in paid
    /\ PaysForOrders
    /\ ShippedWasPaid

LEMMA RowsStayFine ==
  ASSUME Inv, RowsLeft, payment' = payment
  PROVE  RowsFine'
  BY DEF Inv, RowsLeft, RowsFine, TypeOK, HistoryKept, PaysForOrders, ShippedWasPaid, Stored

LEMMA RowWrittenFine ==
  ASSUME Inv, NEW o \in Orders, NEW r, RowWritten(o, r)
  PROVE  /\ RowsFine'
         /\ paid \subseteq paid'
         /\ \A p \in Orders : was[p] \subseteq was'[p]
         /\ r.status \in was'[o]
  <1>1. /\ row \in [Orders -> Rows \cup {NoRow}]
        /\ was \in [Orders -> SUBSET OrderStatus]
        /\ paid \subseteq Orders
        /\ payment \in PaymentStatus \cup {"NONE"}
    BY DEF Inv, TypeOK
  <1>2. /\ row' = [row EXCEPT ![o] = r]
        /\ was' = [was EXCEPT ![o] = @ \cup {r.status}]
        /\ paid' = paid \cup {p \in {o} : r.payment = "SUCCEEDED"}
        /\ payment' = payment
        /\ r \in Rows
        /\ r.status \in {"SHIPPED", "DELIVERED"} => o \in paid
    BY DEF RowWritten, Write
  <1>3. r.status \in OrderStatus
    BY <1>2 DEF Rows
  <1>4. row' \in [Orders -> Rows \cup {NoRow}] /\ row'[o] = r
    BY <1>1, <1>2
  <1>5. was' \in [Orders -> SUBSET OrderStatus] /\ was'[o] = was[o] \cup {r.status}
    BY <1>1, <1>2, <1>3
  <1>6. paid' \subseteq Orders /\ paid \subseteq paid'
    BY <1>1, <1>2
  <1>7. ASSUME NEW p \in Orders, p # o
        PROVE  row'[p] = row[p] /\ was'[p] = was[p]
    BY <1>1, <1>2, <1>7
  <1>8. ASSUME NEW p \in Orders, Stored(p)'
        PROVE  row'[p].status \in was'[p] /\ (row'[p].payment = "SUCCEEDED" => p \in paid')
    <2>1. CASE p = o
      BY <2>1, <1>2, <1>4, <1>5
    <2>2. CASE p # o
      BY <2>2, <1>6, <1>7, <1>8 DEF Inv, HistoryKept, Stored
    <2>. QED BY <2>1, <2>2
  <1>9. PaysForOrders'
    <2>1. ASSUME NEW p \in Covered, Stored(p)
          PROVE  Stored(p)'
      BY <2>1, <1>2, <1>4, <1>7, RowIsStored, OrdersAssumption DEF Stored
    <2>. QED BY <2>1, <1>2 DEF PaysForOrders, Inv
  <1>10. ShippedWasPaid'
    <2>1. ASSUME NEW p \in Orders, was'[p] \cap {"SHIPPED", "DELIVERED"} # {}
          PROVE  p \in paid'
      <3>1. CASE p = o
        BY <2>1, <3>1, <1>2, <1>5, <1>6 DEF Inv, ShippedWasPaid
      <3>2. CASE p # o
        BY <2>1, <3>2, <1>6, <1>7 DEF Inv, ShippedWasPaid
      <3>. QED BY <3>1, <3>2
    <2>. QED BY <2>1 DEF ShippedWasPaid
  <1>11. RowsFine'
    BY <1>1, <1>2, <1>4, <1>5, <1>6, <1>8, <1>9, <1>10 DEF RowsFine
  <1>12. \A p \in Orders : was[p] \subseteq was'[p]
    BY <1>5, <1>7
  <1>. QED BY <1>5, <1>6, <1>11, <1>12

\* The counters and histories that no argument rests on.
Counted ==
    /\ overlapped \subseteq Orders
    /\ cut \subseteq Orders

\* The statuses announced were in the row.
Told == told \in [Orders -> SUBSET OrderStatus] /\ NewsIsTrue

LEMMA ToldKept ==
  ASSUME Inv, told' = told, \A o \in Orders : was[o] \subseteq was'[o]
  PROVE  Told'
  BY DEF Inv, TypeOK, Told, NewsIsTrue

LEMMA Together ==
  ASSUME RowsFine', Counted', Told', NewsPrepared', SellersAsk',
         call' \in [Calls -> Requests],
         \A d \in Calls :
               /\ call'[d].at \in {"create", "save"}
               /\ call'[d].entity.status \in {"SHIPPED", "DELIVERED"}
               => call'[d].order \in paid'
  PROVE  Inv'
  BY DEF Inv, TypeOK, RowsFine, Counted, Told, HistoryKept

\* A step that only moves a request on.
LEMMA QuietStep ==
  ASSUME Inv, NEW c \in Calls, NEW step, MovesOn(c, step),
         RowsLeft, payment' = payment, told' = told, Counted'
  PROVE  Inv'
  <1>1. paid \subseteq paid' /\ \A o \in Orders : was[o] \subseteq was'[o]
    BY DEF RowsLeft
  <1>. QED BY <1>1, CallsKept, RowsStayFine, ToldKept, Together

\* A step that writes a row and moves the request on.
LEMMA WritingStep ==
  ASSUME Inv, NEW c \in Calls, NEW step, MovesOn(c, step),
         NEW o \in Orders, NEW r, RowWritten(o, r), told' = told, Counted'
  PROVE  Inv'
  BY CallsKept, RowWrittenFine, ToldKept, Together

\* A request is over.
LEMMA Over ==
  ASSUME NEW c \in Calls, Return(c)
  PROVE  MovesOn(c, Done)
  BY RestingCalls DEF Return, Goto, MovesOn, AsksForPayment

LEMMA Begun ==
  ASSUME Inv, NEW c \in Calls, NEW o \in Orders, NEW step, Begin(c, o, step),
         UNCHANGED <<row, payment, was, paid, told, cut>>
  PROVE  Counted' /\ RowsLeft /\ payment' = payment /\ told' = told
  BY DEF Inv, TypeOK, Begin, Counted, RowsLeft

LEMMA CreateOrderKeeps ==
  ASSUME Inv, NEW c \in Calls, NEW o \in Orders, NEW line \in Lines, CreateOrder(c, o, line)
  PROVE  Inv'
  <1>. DEFINE step == [at |-> "create", order |-> o, entity |-> Create(line)]
  <1>1. Begin(c, o, step) /\ UNCHANGED <<row, payment, was, paid, told, cut>>
    BY DEF CreateOrder
  <1>2. step \in Requests /\ step.entity.status = "PENDING"
    BY NewEntity DEF Requests
  <1>3. MovesOn(c, step)
    BY <1>1, <1>2 DEF MovesOn, Begin, Goto, AsksForPayment
  <1>. HIDE DEF step
  <1>. QED BY <1>1, <1>3, Begun, QuietStep

LEMMA CallUseCaseKeeps ==
  ASSUME Inv, NEW c \in Calls, NEW o \in Orders, NEW u \in UseCases, CallUseCase(c, o, u)
  PROVE  Inv'
  <1>. DEFINE step == [at |-> "execute", order |-> o, u |-> u, rest |-> "tell"]
  <1>1. Begin(c, o, step) /\ UNCHANGED <<row, payment, was, paid, told, cut>>
    BY DEF CallUseCase
  <1>2. step \in Requests
    BY DEF Requests
  <1>3. MovesOn(c, step)
    BY <1>1, <1>2 DEF MovesOn, Begin, Goto, AsksForPayment
  <1>. HIDE DEF step
  <1>. QED BY <1>1, <1>3, Begun, QuietStep

LEMMA SellerUpdateKeeps ==
  ASSUME Inv, NEW c \in Calls, NEW o \in Orders, NEW s \in Outcomes,
         SellerUpdatesPaymentStatus(c, o, s)
  PROVE  Inv'
  <1>. DEFINE u == [use |-> "updatePaymentStatus", to |-> s, intent |-> FALSE]
              step == [at |-> "execute", order |-> o, rest |-> "payments", u |-> u]
  <1>1. Begin(c, o, step) /\ UNCHANGED <<row, payment, was, paid, told, cut>>
    BY DEF SellerUpdatesPaymentStatus
  <1>2. u \in UseCases
    BY DEF UseCases
  <1>3. step \in Requests
    BY <1>2 DEF Requests
  <1>4. MovesOn(c, step)
    BY <1>1, <1>3 DEF MovesOn, Begin, Goto, AsksForPayment
  <1>. HIDE DEF step, u
  <1>. QED BY <1>1, <1>4, Begun, QuietStep

LEMMA CancelOrderKeeps ==
  ASSUME Inv, NEW c \in Calls, NEW o \in Orders, CancelOrder(c, o)
  PROVE  Inv'
  <1>. DEFINE step == [at |-> "release", order |-> o]
  <1>1. Begin(c, o, step) /\ UNCHANGED <<row, payment, was, paid, told, cut>>
    BY DEF CancelOrder
  <1>2. step \in Requests
    BY DEF Requests
  <1>3. MovesOn(c, step)
    BY <1>1, <1>2 DEF MovesOn, Begin, Goto, AsksForPayment
  <1>. HIDE DEF step
  <1>. QED BY <1>1, <1>3, Begun, QuietStep

LEMMA InsertOrderKeeps ==
  ASSUME Inv, NEW c \in Calls, InsertOrder(c)
  PROVE  Inv'
  <1>. DEFINE r == Columns(call[c].entity)
              o == call[c].order
  <1>1. call[c] \in Requests /\ call[c].at = "create"
    BY DEF InsertOrder, Inv, TypeOK
  <1>2. o \in Orders /\ call[c].entity \in Entities
    BY <1>1, RequestFields
  <1>3. RowWritten(o, r)
    BY <1>1, <1>2, SavedColumns DEF InsertOrder, RowWritten, Inv, HistoryKept
  <1>4. MovesOn(c, Done)
    BY Over DEF InsertOrder
  <1>5. Counted' /\ told' = told
    BY DEF InsertOrder, Counted, Inv, TypeOK
  <1>. HIDE DEF r, o
  <1>. QED BY <1>2, <1>3, <1>4, <1>5, WritingStep

LEMMA ReleaseStockKeeps ==
  ASSUME Inv, NEW c \in Calls, ReleaseStock(c)
  PROVE  Inv'
  <1>. DEFINE u == [use |-> "cancel", reason |-> FALSE]
              o == call[c].order
              step == [at |-> "execute", order |-> o, rest |-> "tell", u |-> u]
  <1>1. call[c] \in Requests /\ call[c].at = "release"
    BY DEF ReleaseStock, Inv, TypeOK
  <1>2. o \in Orders
    BY <1>1, RequestFields
  <1>3. u \in UseCases
    BY DEF UseCases
  <1>4. step \in Requests
    BY <1>2, <1>3 DEF Requests
  <1>5. MovesOn(c, step)
    BY <1>4 DEF ReleaseStock, MovesOn, Goto, AsksForPayment
  <1>6. Counted' /\ RowsLeft /\ payment' = payment /\ told' = told
    BY <1>2 DEF ReleaseStock, Counted, RowsLeft, Inv, TypeOK
  <1>. HIDE DEF step, u, o
  <1>. QED BY <1>5, <1>6, QuietStep

LEMMA ExecuteKeeps ==
  ASSUME Inv, NEW c \in Calls, Execute(c)
  PROVE  Inv'
  <1>. DEFINE o == call[c].order
              u == call[c].u
              results == UNION {Executed(u, e) : e \in FindById(o)}
  <1>1. call[c] \in Requests /\ call[c].at = "execute"
    BY DEF Execute, Inv, TypeOK
  <1>2. o \in Orders /\ u \in UseCases /\ call[c].rest \in {"tell", "payments"}
    BY <1>1, RequestFields
  <1>3. Counted' /\ RowsLeft /\ payment' = payment /\ told' = told
    BY DEF Execute, Counted, RowsLeft, Inv, TypeOK
  <1>4. CASE Return(c)
    BY <1>3, <1>4, Over, QuietStep
  <1>5. CASE \E f \in results :
               Goto(c, [at |-> "save", order |-> o, u |-> u, rest |-> call[c].rest, entity |-> f])
    <2>1. PICK f \in results :
               Goto(c, [at |-> "save", order |-> o, u |-> u, rest |-> call[c].rest, entity |-> f])
      BY <1>5
    <2>2. PICK e \in FindById(o) : f \in Executed(u, e)
      OBVIOUS
    <2>3. Stored(o) /\ row[o] \in Rows /\ e \in ToDomain(row[o])
      BY <1>2, <2>2 DEF FindById, Stored, Inv, TypeOK
    <2>4. e \in Entities /\ e.status = row[o].status /\ e.payment = row[o].payment
      BY <2>3, LoadedEntity
    <2>5. f \in Entities /\ Moved(e, f) /\ Announced(u) \subseteq {f.status}
      BY <1>2, <2>2, <2>4, ExecutedEntity
    <2>6. ASSUME f.status \in {"SHIPPED", "DELIVERED"}
          PROVE  o \in paid
      <3>1. CASE f.status = e.status
        BY <1>2, <2>3, <2>4, <2>6, <3>1 DEF Inv, HistoryKept, ShippedWasPaid
      <3>2. CASE MayMove(e, f.status)
        BY <1>2, <2>3, <2>4, <2>6, <3>2 DEF MayMove, Inv, HistoryKept
      <3>. QED BY <2>5, <3>1, <3>2 DEF Moved
    <2>. DEFINE step == [at |-> "save", order |-> o, u |-> u, rest |-> call[c].rest, entity |-> f]
    <2>7. step \in Requests
      BY <1>2, <2>5 DEF Requests
    <2>8. MovesOn(c, step)
      BY <1>1, <2>1, <2>5, <2>6, <2>7, <1>3 DEF MovesOn, Goto, RowsLeft, Inv, SellersAsk, AsksForPayment
    <2>. HIDE DEF step
    <2>. QED BY <1>3, <2>8, QuietStep
  <1>. QED BY <1>4, <1>5 DEF Execute

LEMMA SaveKeeps ==
  ASSUME Inv, NEW c \in Calls, Save(c)
  PROVE  Inv'
  <1>. DEFINE o == call[c].order
              u == call[c].u
              r == Columns(call[c].entity)
              step == [at |-> call[c].rest, order |-> o, u |-> u]
  <1>1. call[c] \in Requests /\ call[c].at = "save"
    BY DEF Save, Inv, TypeOK
  <1>2. /\ o \in Orders /\ u \in UseCases /\ call[c].entity \in Entities
        /\ call[c].rest \in {"tell", "payments"}
    BY <1>1, RequestFields
  <1>3. RowWritten(o, r) /\ r.status = call[c].entity.status
    BY <1>1, <1>2, SavedColumns DEF Save, RowWritten, Inv, HistoryKept
  <1>4. r.status \in was'[o]
    BY <1>2, <1>3, RowWrittenFine
  <1>5. step \in Requests
    BY <1>2 DEF Requests
  <1>6. MovesOn(c, step)
    BY <1>1, <1>2, <1>3, <1>4, <1>5 DEF Save, MovesOn, Goto, Inv, NewsPrepared, SellersAsk, AsksForPayment
  <1>7. Counted' /\ told' = told
    BY DEF Save, Counted, Inv, TypeOK
  <1>. HIDE DEF o, u, r, step
  <1>. QED BY <1>2, <1>3, <1>6, <1>7, WritingStep

\* A step that changes the status of the payment, and no row.
LEMMA PaymentChanged ==
  ASSUME Inv, RowsLeft, payment' \in PaymentStatus, payment # "NONE"
  PROVE  RowsFine'
  BY DEF Inv, RowsLeft, RowsFine, TypeOK, HistoryKept, PaysForOrders, ShippedWasPaid, Stored

LEMMA UpdatePaymentsKeeps ==
  ASSUME Inv, NEW c \in Calls, UpdatePayments(c)
  PROVE  Inv'
  <1>1. call[c] \in Requests /\ call[c].at = "payments"
    BY DEF UpdatePayments, Inv, TypeOK
  <1>2. Counted' /\ told' = told /\ MovesOn(c, Done) /\ RowsLeft
    BY Over DEF UpdatePayments, Counted, Inv, TypeOK, RowsLeft
  <1>3. call[c].u \in UseCases /\ call[c].u.use = "updatePaymentStatus"
    BY <1>1, RequestFields DEF Inv, SellersAsk, AsksForPayment
  <1>4. call[c].u.to \in PaymentStatus
    BY <1>3, OrdersAssumption DEF UseCases
  <1>5. RowsFine'
    <2>1. payment' = payment \/ (payment' \in PaymentStatus /\ payment # "NONE")
      BY <1>4 DEF UpdatePayments, PaymentsUpdated
    <2>. QED BY <1>2, <2>1, RowsStayFine, PaymentChanged
  <1>6. \A o \in Orders : was[o] \subseteq was'[o]
    BY <1>2 DEF RowsLeft
  <1>7. paid \subseteq paid'
    BY <1>2 DEF RowsLeft
  <1>. QED BY <1>2, <1>5, <1>6, <1>7, CallsKept, ToldKept, Together

LEMMA PublishKeeps ==
  ASSUME Inv, NEW c \in Calls, Publish(c)
  PROVE  Inv'
  <1>1. call[c] \in Requests /\ call[c].at = "tell"
    BY DEF Publish, Inv, TypeOK
  <1>2. call[c].order \in Orders
    BY <1>1, RequestFields
  <1>3. Counted' /\ MovesOn(c, Done) /\ RowsLeft /\ payment' = payment
    BY Over DEF Publish, Counted, Inv, TypeOK, RowsLeft
  <1>4. Announced(call[c].u) \subseteq was[call[c].order]
    BY <1>1 DEF Inv, NewsPrepared
  <1>5. was \in [Orders -> SUBSET OrderStatus] /\ was' = was
    BY <1>3 DEF Inv, TypeOK, RowsLeft
  <1>6. Announced(call[c].u) \in SUBSET OrderStatus
    BY <1>2, <1>4, <1>5
  <1>7. told' \in [Orders -> SUBSET OrderStatus]
    BY <1>6 DEF Publish, Inv, TypeOK
  <1>8. ASSUME NEW o \in Orders
        PROVE  told'[o] \subseteq was'[o]
    <2>1. told'[o] = IF o = call[c].order THEN told[o] \cup Announced(call[c].u) ELSE told[o]
      BY DEF Publish, Inv, TypeOK
    <2>. QED BY <2>1, <1>4, <1>5 DEF Inv, NewsIsTrue
  <1>9. Told'
    BY <1>7, <1>8 DEF Told, NewsIsTrue
  <1>10. paid \subseteq paid' /\ \A o \in Orders : was[o] \subseteq was'[o]
    BY <1>3 DEF RowsLeft
  <1>. QED BY <1>3, <1>9, <1>10, RowsStayFine, CallsKept, Together

LEMMA FailKeeps ==
  ASSUME Inv, NEW c \in Calls, Fail(c)
  PROVE  Inv'
  <1>1. call[c].order \in Orders
    BY RequestFields DEF Fail, Inv, TypeOK
  <1>2. Counted' /\ MovesOn(c, Done) /\ RowsLeft /\ payment' = payment /\ told' = told
    BY <1>1, Over DEF Fail, Counted, Inv, TypeOK, RowsLeft
  <1>. QED BY <1>2, QuietStep

\* A step of the payments leaves the requests alone.
LEMMA CallsLeft ==
  ASSUME Inv, call' = call, paid \subseteq paid', was' = was
  PROVE  /\ call' \in [Calls -> Requests]
         /\ \A d \in Calls :
               /\ call'[d].at \in {"create", "save"}
               /\ call'[d].entity.status \in {"SHIPPED", "DELIVERED"}
               => call'[d].order \in paid'
         /\ NewsPrepared'
         /\ SellersAsk'
  <1>1. \A d \in Calls : Announced(call[d].u)' = Announced(call[d].u)
    BY DEF Announced
  <1>. QED BY <1>1 DEF Inv, TypeOK, HistoryKept, NewsPrepared, SellersAsk, AsksForPayment

LEMMA CreatePaymentKeeps ==
  ASSUME Inv, CreatePayment
  PROVE  Inv'
  <1>1. RowsFine'
    BY DEF CreatePayment, Inv, RowsFine, TypeOK, HistoryKept, PaysForOrders, ShippedWasPaid,
           Stored, PaymentStatus
  <1>2. Counted' /\ told' = told /\ was' = was /\ paid' = paid /\ call' = call
    BY DEF CreatePayment, Inv, TypeOK, Counted
  <1>. QED BY <1>1, <1>2, CallsLeft, ToldKept, Together

LEMMA ApplyPaymentStatusKeeps ==
  ASSUME Inv, NEW s \in {"SUCCEEDED", "FAILED"}, ApplyPaymentStatus(s)
  PROVE  Inv'
  <1>1. /\ row \in [Orders -> Rows \cup {NoRow}]
        /\ was \in [Orders -> SUBSET OrderStatus]
        /\ paid \subseteq Orders
        /\ \A o \in Covered : Stored(o) /\ o \in Orders
    BY OrdersAssumption DEF Inv, TypeOK, PaysForOrders, ApplyPaymentStatus
  <1>2. /\ row' = [o \in Orders |-> IF o \in Covered THEN [row[o] EXCEPT !.payment = s] ELSE row[o]]
        /\ was' = was
        /\ paid' = paid \cup {o \in Covered : s = "SUCCEEDED"}
        /\ payment' = s
    BY DEF ApplyPaymentStatus
  <1>3. ASSUME NEW o \in Covered
        PROVE  /\ row'[o] \in Rows
               /\ row'[o].status = row[o].status
               /\ row'[o].payment = s
    <2>1. row[o] \in Rows /\ s \in PaymentStatus /\ row'[o] = [row[o] EXCEPT !.payment = s]
      BY <1>1, <1>2 DEF Stored, PaymentStatus
    <2>. QED BY <2>1 DEF Rows
  <1>4. ASSUME NEW o \in Orders, o \notin Covered
        PROVE  row'[o] = row[o]
    BY <1>2, <1>4
  <1>5. row' \in [Orders -> Rows \cup {NoRow}]
    BY <1>1, <1>2, <1>3, <1>4
  <1>6. paid \subseteq paid' /\ paid' \subseteq Orders
    BY <1>1, <1>2
  <1>7. ASSUME NEW o \in Orders, Stored(o)'
        PROVE  row'[o].status \in was'[o] /\ (row'[o].payment = "SUCCEEDED" => o \in paid')
    <2>1. CASE o \in Covered
      BY <2>1, <1>1, <1>2, <1>3 DEF Inv, HistoryKept
    <2>2. CASE o \notin Covered
      BY <2>2, <1>2, <1>4, <1>6, <1>7 DEF Inv, HistoryKept, Stored
    <2>. QED BY <2>1, <2>2
  <1>8. PaysForOrders'
    <2>1. ASSUME NEW o \in Covered
          PROVE  Stored(o)'
      BY <1>3, RowIsStored DEF Stored
    <2>. QED BY <2>1 DEF PaysForOrders
  <1>9. ShippedWasPaid'
    BY <1>2, <1>6 DEF Inv, ShippedWasPaid
  <1>10. RowsFine'
    BY <1>1, <1>2, <1>5, <1>6, <1>7, <1>8, <1>9 DEF RowsFine, PaymentStatus
  <1>11. Counted' /\ told' = told /\ call' = call
    BY <1>1 DEF ApplyPaymentStatus, Inv, TypeOK, Counted
  <1>. QED BY <1>2, <1>6, <1>10, <1>11, CallsLeft, ToldKept, Together

LEMMA NextInv == Inv /\ [Next]_vars => Inv'
  <1>. SUFFICES ASSUME Inv, [Next]_vars PROVE Inv'
    OBVIOUS
  <1>1. CASE UNCHANGED vars
    <2>1. Counted' /\ RowsFine' /\ told' = told /\ call' = call /\ paid' = paid /\ was' = was
      BY <1>1, RowsStayFine DEF vars, Counted, RowsLeft, Inv, TypeOK
    <2>. QED BY <2>1, CallsLeft, ToldKept, Together
  <1>2. ASSUME NEW c \in Calls, NEW o \in Orders, Request(c, o)
        PROVE  Inv'
    BY <1>2, CreateOrderKeeps, CallUseCaseKeeps, SellerUpdateKeeps, CancelOrderKeeps DEF Request
  <1>3. ASSUME NEW c \in Calls, Step(c)
        PROVE  Inv'
    BY <1>3, InsertOrderKeeps, ReleaseStockKeeps, ExecuteKeeps, SaveKeeps, PublishKeeps,
       UpdatePaymentsKeeps DEF Step
  <1>. QED BY <1>1, <1>2, <1>3, FailKeeps, CreatePaymentKeeps, ApplyPaymentStatusKeeps DEF Next

-----------------------------------------------------------------------------
(* What is loaded, changed and saved keeps its types: the entity methods     *)
(* and the two translations of OrderPrismaRepository fit each other.        *)
THEOREM OrdersTyped == Spec => []TypeOK
  <1>. QED BY InitInv, NextInv, PTL DEF Spec, Inv

(* Nothing is shipped or delivered that was never paid, however updateOrder, *)
(* shipOrder, cancelOrder, the seller's routes and a settlement overlap and  *)
(* overwrite each other's columns.                                          *)
THEOREM ShippedOrdersWerePaid == Spec => []ShippedWasPaid
  <1>. QED BY InitInv, NextInv, PTL DEF Spec, Inv

(* Every status that an event of a use case announces was in the row.       *)
THEOREM AnnouncementsAreTrue == Spec => []NewsIsTrue
  <1>. QED BY InitInv, NextInv, PTL DEF Spec, Inv

-----------------------------------------------------------------------------
(* What holds of the orders on which no two requests have overlapped.  The   *)
(* invariant is inductive beside Inv.                                        *)

\* What a request knows of the row r of its order, when nobody else is at it.
Loaded(q, r) ==
    /\ q.at = "save" /\ r.status \in Final => q.entity.status = r.status
    /\ q.at = "save" /\ q.rest = "payments" => q.entity.payment = q.u.to
    /\ q.at = "payments" => r.payment = q.u.to

SoleCaller(o) == \A c, d \in Calls : InFlight(c, o) /\ InFlight(d, o) => c = d

Current(o) == \A c \in Calls : InFlight(c, o) => Loaded(call[c], row[o])

Alone == \A o \in Orders : o \notin overlapped => SoleCaller(o) /\ Current(o)

LEMMA RestingFits ==
  ASSUME NEW r
  PROVE  Loaded(Done, r) /\ Done.at = "done" /\ Idle.at = "idle"
  BY DEF Loaded, Done, Idle

LEMMA InitAlone == Init => Alone
  <1>. SUFFICES ASSUME Init PROVE Alone
    OBVIOUS
  <1>1. ASSUME NEW o \in Orders, NEW c \in Calls
        PROVE  ~InFlight(c, o)
    BY DEF Init, InFlight
  <1>. QED BY <1>1 DEF Alone, SoleCaller, Current

-----------------------------------------------------------------------------
\* A step of request c, which is about order o.
StepOf(c, o, step) ==
    /\ call' = [call EXCEPT ![c] = step]
    /\ step \notin {Idle, Done} => step.order = o
    /\ call[c] \notin {Idle, Done} => call[c].order = o
    /\ \A p \in Orders : p # o => row'[p] = row[p]

\* The orders a step is not about.
LEMMA Elsewhere ==
  ASSUME Inv, NEW c \in Calls, NEW o \in Orders, NEW step, StepOf(c, o, step),
         NEW p \in Orders, p # o
  PROVE  /\ SoleCaller(p) => SoleCaller(p)'
         /\ Current(p) => Current(p)'
  <1>1. ASSUME NEW d \in Calls
        PROVE  /\ InFlight(d, p)' <=> InFlight(d, p)
               /\ InFlight(d, p) => call'[d] = call[d]
    <2>1. CASE d = c
      <3>1. call'[d] = step
        BY <2>1 DEF StepOf, Inv, TypeOK
      <3>2. ~InFlight(d, p)
        BY <2>1 DEF StepOf, InFlight
      <3>3. ~InFlight(d, p)'
        BY <3>1 DEF StepOf, InFlight
      <3>. QED BY <3>2, <3>3
    <2>2. CASE d # c
      <3>1. call'[d] = call[d]
        BY <2>2 DEF StepOf, Inv, TypeOK
      <3>. QED BY <3>1 DEF InFlight
    <2>. QED BY <2>1, <2>2
  <1>2. row'[p] = row[p]
    BY DEF StepOf
  <1>3. SoleCaller(p) => SoleCaller(p)'
    BY <1>1 DEF SoleCaller
  <1>4. ASSUME Current(p), NEW d \in Calls, InFlight(d, p)'
        PROVE  Loaded(call'[d], row'[p])
    BY <1>1, <1>2, <1>4 DEF Current
  <1>. QED BY <1>3, <1>4 DEF Current, Loaded

LEMMA StepKeepsAlone ==
  ASSUME Inv, Alone, NEW c \in Calls, NEW o \in Orders, NEW step, StepOf(c, o, step),
         overlapped \subseteq overlapped',
         o \notin overlapped' => SoleCaller(o)' /\ Current(o)'
  PROVE  Alone'
  <1>1. ASSUME NEW p \in Orders, p \notin overlapped'
        PROVE  SoleCaller(p)' /\ Current(p)'
    <2>1. CASE p = o
      BY <1>1, <2>1
    <2>2. CASE p # o
      BY <1>1, <2>2, Elsewhere DEF Alone
    <2>. QED BY <2>1, <2>2
  <1>. QED BY <1>1 DEF Alone

LEMMA BeginAlone ==
  ASSUME Inv, Alone, NEW c \in Calls, NEW o \in Orders, NEW step, Begin(c, o, step),
         row' = row, step \notin {Idle, Done}, step.order = o,
         step.at \in {"create", "release", "execute"}
  PROVE  Alone'
  <1>1. StepOf(c, o, step) /\ overlapped \subseteq overlapped'
    BY DEF Begin, Goto, StepOf
  <1>2. o \notin overlapped' => o \notin overlapped /\ ~Busy(o)
    BY DEF Begin
  <1>3. ASSUME NEW d \in Calls
        PROVE  call'[d] = IF d = c THEN step ELSE call[d]
    BY DEF Begin, Goto, Inv, TypeOK
  <1>4. ASSUME o \notin overlapped', NEW d \in Calls, InFlight(d, o)'
        PROVE  d = c /\ call'[d] = step
    BY <1>2, <1>3, <1>4 DEF InFlight, Busy
  <1>5. Loaded(step, row[o])
    BY DEF Loaded
  <1>6. ASSUME o \notin overlapped'
        PROVE  SoleCaller(o)' /\ Current(o)'
    BY <1>4, <1>5, <1>6 DEF SoleCaller, Current, Loaded
  <1>. QED BY <1>1, <1>6, StepKeepsAlone

\* A step of a request in flight: alone on its order it meets what it knows.
LEMMA OwnStep ==
  ASSUME Inv, Alone, NEW c \in Calls, NEW o \in Orders, NEW step, InFlight(c, o),
         StepOf(c, o, step), overlapped' = overlapped,
         o \notin overlapped /\ Loaded(call[c], row[o]) => Loaded(step, row'[o])
  PROVE  Alone'
  <1>1. ASSUME NEW d \in Calls
        PROVE  call'[d] = IF d = c THEN step ELSE call[d]
    BY DEF StepOf, Inv, TypeOK
  <1>2. ASSUME o \notin overlapped, NEW d \in Calls, InFlight(d, o)'
        PROVE  d = c /\ call'[d] = step
    <2>1. d # c => InFlight(d, o)
      BY <1>1, <1>2 DEF InFlight
    <2>2. d = c
      BY <1>2, <2>1 DEF Alone, SoleCaller
    <2>. QED BY <1>1, <2>2
  <1>3. ASSUME o \notin overlapped
        PROVE  SoleCaller(o)' /\ Current(o)'
    <2>1. Loaded(step, row'[o])
      BY <1>3 DEF Alone, Current
    <2>. QED BY <1>2, <1>3, <2>1 DEF SoleCaller, Current, Loaded
  <1>. QED BY <1>3, StepKeepsAlone

-----------------------------------------------------------------------------
(* One lemma for each step of a request.                                    *)

LEMMA Flown ==
  ASSUME Inv, NEW c \in Calls, call[c].at \in {"create", "release", "execute", "save", "tell", "payments"}
  PROVE  /\ call[c] \in Requests /\ call[c].order \in Orders
         /\ call[c] \notin {Idle, Done} /\ InFlight(c, call[c].order)
  <1>1. call[c] \in Requests
    BY DEF Inv, TypeOK
  <1>2. call[c] \notin {Idle, Done} /\ call[c].order \in Orders
    BY <1>1, RequestFields
  <1>. QED BY <1>1, <1>2 DEF InFlight

\* A step after which only request c has moved on.
LEMMA RowsLeftStep ==
  ASSUME Inv, NEW c \in Calls, NEW step, InFlight(c, call[c].order),
         call' = [call EXCEPT ![c] = step],
         step \notin {Idle, Done} => step.order = call[c].order,
         row' = row
  PROVE  StepOf(c, call[c].order, step)
  BY DEF StepOf, InFlight

LEMMA InsertOrderAlone ==
  ASSUME Inv, Alone, NEW c \in Calls, InsertOrder(c)
  PROVE  Alone'
  <1>. DEFINE o == call[c].order
              r == Columns(call[c].entity)
  <1>1. o \in Orders /\ InFlight(c, o)
    BY Flown DEF InsertOrder
  <1>2. /\ call' = [call EXCEPT ![c] = Done]
        /\ row' = [row EXCEPT ![o] = r]
        /\ overlapped' = overlapped
    BY DEF InsertOrder, Write, Return, Goto
  <1>3. row \in [Orders -> Rows \cup {NoRow}]
    BY DEF Inv, TypeOK
  <1>. HIDE DEF r
  <1>4. StepOf(c, o, Done)
    BY <1>1, <1>2, <1>3 DEF StepOf
  <1>. QED BY <1>1, <1>2, <1>4, RestingFits, OwnStep

LEMMA ReleaseStockAlone ==
  ASSUME Inv, Alone, NEW c \in Calls, ReleaseStock(c)
  PROVE  Alone'
  <1>. DEFINE o == call[c].order
              u == [use |-> "cancel", reason |-> FALSE]
              step == [at |-> "execute", order |-> o, rest |-> "tell", u |-> u]
  <1>1. o \in Orders /\ InFlight(c, o)
    BY Flown DEF ReleaseStock
  <1>2. call' = [call EXCEPT ![c] = step] /\ row' = row /\ overlapped' = overlapped
    BY DEF ReleaseStock, Goto
  <1>3. step.order = o /\ step.at = "execute"
    OBVIOUS
  <1>. HIDE DEF step
  <1>4. StepOf(c, o, step)
    BY <1>1, <1>2, <1>3, RowsLeftStep
  <1>5. Loaded(step, row'[o])
    BY <1>3 DEF Loaded
  <1>. QED BY <1>1, <1>2, <1>4, <1>5, OwnStep

LEMMA ExecuteAlone ==
  ASSUME Inv, Alone, NEW c \in Calls, Execute(c)
  PROVE  Alone'
  <1>. DEFINE o == call[c].order
              u == call[c].u
              results == UNION {Executed(u, e) : e \in FindById(o)}
  <1>1. o \in Orders /\ InFlight(c, o) /\ call[c] \in Requests /\ call[c].at = "execute"
    BY Flown DEF Execute
  <1>2. u \in UseCases /\ call[c].rest \in {"tell", "payments"}
    BY <1>1, RequestFields
  <1>3. row' = row /\ overlapped' = overlapped
    BY DEF Execute
  <1>4. CASE results = {}
    <2>1. call' = [call EXCEPT ![c] = Done]
      BY <1>4 DEF Execute, Throws, Return, Goto
    <2>2. StepOf(c, o, Done)
      BY <1>1, <1>3, <2>1, RowsLeftStep
    <2>. QED BY <1>1, <1>3, <2>2, RestingFits, OwnStep
  <1>5. CASE results # {}
    <2>1. PICK f \in results :
             call' = [call EXCEPT ![c] = [at |-> "save", order |-> o, u |-> u,
                                          rest |-> call[c].rest, entity |-> f]]
      BY <1>5 DEF Execute, Throws, Goto
    <2>2. PICK e \in FindById(o) : f \in Executed(u, e)
      OBVIOUS
    <2>3. row[o] \in Rows /\ e \in ToDomain(row[o])
      BY <1>1, <2>2 DEF FindById, Stored, Inv, TypeOK
    <2>4. e \in Entities /\ e.status = row[o].status
      BY <2>3, LoadedEntity
    <2>5. /\ Moved(e, f)
          /\ u.use = "updatePaymentStatus" => f.payment = u.to
      BY <1>2, <2>2, <2>4, ExecutedEntity
    <2>6. row[o].status \in Final => f.status = row[o].status
      BY <2>4, <2>5 DEF Moved, MayMove
    <2>. DEFINE step == [at |-> "save", order |-> o, u |-> u, rest |-> call[c].rest, entity |-> f]
    <2>7. /\ step.order = o /\ step.at = "save" /\ step.u = u
          /\ step.rest = call[c].rest /\ step.entity = f
      OBVIOUS
    <2>8. call' = [call EXCEPT ![c] = step]
      BY <2>1
    <2>. HIDE DEF step
    <2>9. StepOf(c, o, step)
      BY <1>1, <1>3, <2>7, <2>8, RowsLeftStep
    <2>10. step.rest = "payments" => u.use = "updatePaymentStatus"
      BY <1>1, <2>7 DEF Inv, SellersAsk, AsksForPayment
    <2>11. Loaded(step, row'[o])
      BY <1>3, <2>5, <2>6, <2>7, <2>10 DEF Loaded
    <2>. QED BY <1>1, <1>3, <2>9, <2>11, OwnStep
  <1>. QED BY <1>4, <1>5

LEMMA SaveAlone ==
  ASSUME Inv, Alone, NEW c \in Calls, Save(c)
  PROVE  Alone'
  <1>. DEFINE o == call[c].order
              r == Columns(call[c].entity)
              step == [at |-> call[c].rest, order |-> o, u |-> call[c].u]
  <1>1. o \in Orders /\ InFlight(c, o) /\ call[c] \in Requests /\ call[c].at = "save"
    BY Flown DEF Save
  <1>2. call[c].entity \in Entities /\ call[c].rest \in {"tell", "payments"}
    BY <1>1, RequestFields
  <1>3. /\ call' = [call EXCEPT ![c] = step]
        /\ row' = [row EXCEPT ![o] = r]
        /\ overlapped' = overlapped
    BY DEF Save, Write, Goto
  <1>4. row \in [Orders -> Rows \cup {NoRow}]
    BY DEF Inv, TypeOK
  <1>5. r.status = call[c].entity.status /\ r.payment = call[c].entity.payment
    BY <1>2, SavedColumns
  <1>6. step.order = o /\ step.at = call[c].rest /\ step.u = call[c].u
    OBVIOUS
  <1>. HIDE DEF r, step
  <1>7. StepOf(c, o, step) /\ row'[o] = r
    BY <1>1, <1>3, <1>4, <1>6 DEF StepOf, InFlight
  <1>8. Loaded(call[c], row[o]) => Loaded(step, row'[o])
    BY <1>1, <1>2, <1>5, <1>6, <1>7 DEF Loaded
  <1>. QED BY <1>1, <1>3, <1>7, <1>8, OwnStep

\* A request ends, and leaves the rows as they are.
LEMMA EndAlone ==
  ASSUME Inv, Alone, NEW c \in Calls, Return(c), UNCHANGED <<row, overlapped>>,
         call[c] \notin {Idle, Done}, call[c].order \in Orders
  PROVE  Alone'
  <1>. DEFINE o == call[c].order
  <1>1. call' = [call EXCEPT ![c] = Done] /\ InFlight(c, o)
    BY DEF Return, Goto, InFlight
  <1>2. StepOf(c, o, Done)
    BY <1>1, RowsLeftStep
  <1>. QED BY <1>1, <1>2, RestingFits, OwnStep

\* A settlement overlaps with whoever is at work on an order it writes.
LEMMA ApplyPaymentStatusAlone ==
  ASSUME Inv, Alone, NEW s \in {"SUCCEEDED", "FAILED"}, ApplyPaymentStatus(s)
  PROVE  Alone'
  <1>1. /\ row' = [o \in Orders |-> IF o \in Covered THEN [row[o] EXCEPT !.payment = s] ELSE row[o]]
        /\ overlapped' = overlapped \cup {o \in Covered : Busy(o)}
        /\ call' = call
    BY DEF ApplyPaymentStatus
  <1>2. ASSUME NEW o \in Orders, o \notin overlapped'
        PROVE  /\ o \notin overlapped
               /\ row'[o] = row[o] \/ ~Busy(o)
    BY <1>1, <1>2
  <1>3. ASSUME NEW o \in Orders
        PROVE  \A c \in Calls : InFlight(c, o)' <=> InFlight(c, o)
    BY <1>1 DEF InFlight
  <1>4. ASSUME NEW o \in Orders, o \notin overlapped'
        PROVE  SoleCaller(o)' /\ Current(o)'
    <2>1. SoleCaller(o)'
      BY <1>2, <1>3, <1>4 DEF SoleCaller, Alone
    <2>2. Current(o)'
      BY <1>1, <1>2, <1>3, <1>4 DEF Current, Alone, Busy, Loaded
    <2>. QED BY <2>1, <2>2
  <1>. QED BY <1>4 DEF Alone

\* What none of the conjuncts is about.
LEMMA NothingChanges ==
  ASSUME Alone, UNCHANGED <<row, call, overlapped>>
  PROVE  Alone'
  BY DEF Alone, SoleCaller, Current, InFlight, Loaded

LEMMA RequestAlone ==
  ASSUME Inv, Alone, NEW c \in Calls, NEW o \in Orders, Request(c, o)
  PROVE  Alone'
  <1>1. ASSUME NEW line \in Lines, CreateOrder(c, o, line)
        PROVE  Alone'
    <2>. DEFINE step == [at |-> "create", order |-> o, entity |-> Create(line)]
    <2>1. Begin(c, o, step) /\ row' = row
      BY <1>1 DEF CreateOrder
    <2>2. step \notin {Idle, Done} /\ step.order = o /\ step.at = "create"
      BY DEF Idle, Done
    <2>. HIDE DEF step
    <2>. QED BY <2>1, <2>2, BeginAlone
  <1>2. ASSUME NEW u \in UseCases, CallUseCase(c, o, u)
        PROVE  Alone'
    <2>. DEFINE step == [at |-> "execute", order |-> o, u |-> u, rest |-> "tell"]
    <2>1. Begin(c, o, step) /\ row' = row
      BY <1>2 DEF CallUseCase
    <2>2. step \notin {Idle, Done} /\ step.order = o /\ step.at = "execute"
      BY DEF Idle, Done
    <2>. HIDE DEF step
    <2>. QED BY <2>1, <2>2, BeginAlone
  <1>3. ASSUME NEW s \in Outcomes, SellerUpdatesPaymentStatus(c, o, s)
        PROVE  Alone'
    <2>. DEFINE u == [use |-> "updatePaymentStatus", to |-> s, intent |-> FALSE]
                step == [at |-> "execute", order |-> o, rest |-> "payments", u |-> u]
    <2>1. Begin(c, o, step) /\ row' = row
      BY <1>3 DEF SellerUpdatesPaymentStatus
    <2>2. step \notin {Idle, Done} /\ step.order = o /\ step.at = "execute"
      BY DEF Idle, Done
    <2>. HIDE DEF step
    <2>. QED BY <2>1, <2>2, BeginAlone
  <1>4. ASSUME CancelOrder(c, o)
        PROVE  Alone'
    <2>. DEFINE step == [at |-> "release", order |-> o]
    <2>1. Begin(c, o, step) /\ row' = row
      BY <1>4 DEF CancelOrder
    <2>2. step \notin {Idle, Done} /\ step.order = o /\ step.at = "release"
      BY DEF Idle, Done
    <2>. HIDE DEF step
    <2>. QED BY <2>1, <2>2, BeginAlone
  <1>. QED BY <1>1, <1>2, <1>3, <1>4 DEF Request

LEMMA StepAlone ==
  ASSUME Inv, Alone, NEW c \in Calls, Step(c) \/ Fail(c)
  PROVE  Alone'
  <1>1. CASE Publish(c)
    <2>1. call[c].at = "tell" /\ Return(c) /\ UNCHANGED <<row, overlapped>>
      BY <1>1 DEF Publish
    <2>. QED BY <2>1, Flown, EndAlone
  <1>2. CASE UpdatePayments(c)
    <2>1. call[c].at = "payments" /\ Return(c) /\ UNCHANGED <<row, overlapped>>
      BY <1>2 DEF UpdatePayments
    <2>. QED BY <2>1, Flown, EndAlone
  <1>3. CASE Fail(c)
    <2>1. call[c] \notin {Idle, Done} /\ Return(c) /\ UNCHANGED <<row, overlapped>>
      BY <1>3 DEF Fail
    <2>2. call[c].order \in Orders
      BY <2>1, RequestFields DEF Inv, TypeOK
    <2>. QED BY <2>1, <2>2, EndAlone
  <1>. QED BY <1>1, <1>2, <1>3, InsertOrderAlone, ReleaseStockAlone, ExecuteAlone, SaveAlone DEF Step

LEMMA NextAlone == Inv /\ Alone /\ [Next]_vars => Alone'
  <1>. SUFFICES ASSUME Inv, Alone, [Next]_vars PROVE Alone'
    OBVIOUS
  <1>1. CASE CreatePayment
    BY <1>1, NothingChanges DEF CreatePayment
  <1>2. CASE UNCHANGED vars
    BY <1>2, NothingChanges DEF vars
  <1>. QED BY <1>1, <1>2, RequestAlone, StepAlone, ApplyPaymentStatusAlone DEF Next

-----------------------------------------------------------------------------
LEMMA SteppingKeepsFinal ==
  ASSUME Inv, Alone, [Next]_vars, NEW o \in Orders, row[o].status \in Final, o \notin overlapped'
  PROVE  row'[o].status = row[o].status
  <1>1. row \in [Orders -> Rows \cup {NoRow}]
    BY DEF Inv, TypeOK
  <1>2. row[o] # NoRow
    BY DEF NoRow, Final
  <1>3. ASSUME NEW c \in Calls, InsertOrder(c)
        PROVE  row'[o] = row[o]
    BY <1>1, <1>2, <1>3 DEF InsertOrder, Stored, Write
  <1>4. ASSUME NEW c \in Calls, Save(c)
        PROVE  row'[o].status = row[o].status
    <2>1. row' = [row EXCEPT ![call[c].order] = Columns(call[c].entity)] /\ overlapped' = overlapped
      BY <1>4 DEF Save, Write
    <2>2. CASE call[c].order = o
      <3>1. call[c].at = "save" /\ InFlight(c, o) /\ call[c] \in Requests
        BY <1>4, <2>2, Flown DEF Save
      <3>2. call[c].entity.status = row[o].status
        BY <2>1, <3>1 DEF Alone, Current, Loaded
      <3>3. Columns(call[c].entity).status = call[c].entity.status
        BY <3>1, RequestFields, SavedColumns
      <3>. QED BY <1>1, <2>1, <2>2, <3>2, <3>3
    <2>3. CASE call[c].order # o
      BY <1>1, <2>1, <2>3
    <2>. QED BY <2>2, <2>3
  <1>5. ASSUME NEW s \in {"SUCCEEDED", "FAILED"}, ApplyPaymentStatus(s)
        PROVE  row'[o].status = row[o].status
    <2>1. row[o] \in Rows
      BY <1>1, <1>2
    <2>2. row'[o] = row[o] \/ row'[o] = [row[o] EXCEPT !.payment = s]
      BY <1>5 DEF ApplyPaymentStatus
    <2>. QED BY <2>1, <2>2 DEF Rows
  <1>6. CASE row' = row
    BY <1>6
  <1>7. row' = row \/ (\E c \in Calls : InsertOrder(c) \/ Save(c))
        \/ (\E s \in {"SUCCEEDED", "FAILED"} : ApplyPaymentStatus(s))
    BY DEF Next, vars, Request, CreateOrder, CallUseCase, SellerUpdatesPaymentStatus, CancelOrder,
           Step, ReleaseStock, Execute, Publish, UpdatePayments, Fail, CreatePayment
  <1>. QED BY <1>3, <1>4, <1>5, <1>6, <1>7

(* A cancelled, delivered or refunded order stays so, as long as no two      *)
(* requests on it overlap: Order.updateOrderStatus and Order.cancel look at  *)
(* the status that is still in the row when save writes it.                 *)
THEOREM FinalOrdersStay == Spec => FinalKept
  <1>1. Inv /\ Alone /\ [Next]_vars
        => [\A o \in Orders :
               row[o].status \in Final /\ o \notin overlapped' => row'[o].status = row[o].status]_vars
    BY SteppingKeepsFinal
  <1>. QED BY <1>1, InitInv, NextInv, InitAlone, NextAlone, PTL DEF Spec, FinalKept

LEMMA SteppingFollows ==
  ASSUME Inv, Alone, [Next]_vars, NEW c \in Calls,
         call[c].at = "payments", call'[c] = Done, payment # "NONE",
         call[c].order \in Covered, call[c].order \notin overlapped' \cup cut'
  PROVE  payment' = row'[call[c].order].payment
  <1>. DEFINE o == call[c].order
  <1>1. o \in Orders /\ InFlight(c, o) /\ call[c] \notin {Idle, Done}
    BY Flown
  <1>2. UpdatePayments(c)
    <2>1. call'[c] # call[c]
      BY <1>1
    <2>2. call \in [Calls -> Requests]
      BY DEF Inv, TypeOK
    <2>3. ~Fail(c)
      BY DEF Fail
    <2>4. \A d \in Calls, p \in Orders : ~Request(d, p)
      BY <1>1, <2>1, <2>2 DEF Request, CreateOrder, CallUseCase, SellerUpdatesPaymentStatus,
                              CancelOrder, Begin, Goto
    <2>5. \A d \in Calls : d # c => ~(Step(d) \/ Fail(d))
      BY <2>1, <2>2 DEF Step, InsertOrder, ReleaseStock, Execute, Save, Publish, UpdatePayments,
                        Fail, Return, Goto
    <2>6. ~CreatePayment /\ (\A s \in {"SUCCEEDED", "FAILED"} : ~ApplyPaymentStatus(s))
      BY <2>1 DEF CreatePayment, ApplyPaymentStatus
    <2>7. Step(c)
      BY <2>1, <2>3, <2>4, <2>5, <2>6 DEF Next, vars
    <2>. QED BY <2>7 DEF Step, InsertOrder, ReleaseStock, Execute, Save, Publish
  <1>3. row' = row /\ overlapped' = overlapped /\ payment' = call[c].u.to
    BY <1>2 DEF UpdatePayments, PaymentsUpdated
  <1>4. row[o].payment = call[c].u.to
    BY <1>1, <1>3 DEF Alone, Current, Loaded
  <1>. QED BY <1>3, <1>4

(* When the payment status route of a seller is done, the payment and its    *)
(* order say the same, though it writes them on two connections.            *)
THEOREM PaymentFollowsOrder == Spec => PaymentFollows
  <1>1. Inv /\ Alone /\ [Next]_vars
        => [\A c \in Calls :
               LET o == call[c].order
               IN  /\ call[c].at = "payments" /\ call'[c] = Done /\ payment # "NONE"
                   /\ o \in Covered /\ o \notin overlapped' \cup cut'
                   => payment' = row'[o].payment]_vars
    BY SteppingFollows
  <1>. QED BY <1>1, InitInv, NextInv, InitAlone, NextAlone, PTL DEF Spec, PaymentFollows

-----------------------------------------------------------------------------
(* An order of a checkout cannot be loaded, so no request gets past "execute" *)
(* with it, whatever the status of its payment.                             *)

Unmoved(o) ==
    /\ row[o] \in Rows /\ row[o].status = "PENDING" /\ row[o].address = "flat"
    /\ told[o] = {}
    /\ \A c \in Calls : InFlight(c, o) => call[c].at \in {"release", "execute"}

CheckoutUnmoved == \A o \in FromCheckout : Unmoved(o)

LEMMA CheckoutOrder ==
  ASSUME NEW o \in FromCheckout
  PROVE  o \in Orders
  BY OrdersAssumption

LEMMA FlatThrows ==
  ASSUME NEW o \in Orders, row[o].address = "flat", NEW u
  PROVE  UNION {Executed(u, e) : e \in FindById(o)} = {}
  <1>1. FindById(o) = {}
    BY DEF FindById, ToDomain, Deserialized, When, Throws
  <1>. QED BY <1>1

\* A step that leaves the row and the events of o alone.
LEMMA UnmovedStep ==
  ASSUME Inv, NEW o \in Orders, Unmoved(o), NEW c \in Calls, NEW step,
         call' = [call EXCEPT ![c] = step], row'[o] = row[o], told'[o] = told[o],
         step \in {Idle, Done} \/ step.order # o \/ step.at \in {"release", "execute"}
  PROVE  Unmoved(o)'
  <1>1. ASSUME NEW d \in Calls
        PROVE  call'[d] = IF d = c THEN step ELSE call[d]
    BY DEF Inv, TypeOK
  <1>2. ASSUME NEW d \in Calls, InFlight(d, o)'
        PROVE  call'[d].at \in {"release", "execute"}
    BY <1>1, <1>2 DEF InFlight, Unmoved
  <1>. QED BY <1>2 DEF Unmoved

LEMMA InitUnmoved == Init => CheckoutUnmoved
  <1>. SUFFICES ASSUME Init, NEW o \in FromCheckout PROVE Unmoved(o)
    BY DEF CheckoutUnmoved
  <1>1. PICK line \in Lines :
          row = [p \in Orders |-> IF p \in FromCheckout THEN CheckoutRow(line) ELSE NoRow]
    BY DEF Init
  <1>2. o \in Orders /\ row[o] = CheckoutRow(line) /\ told[o] = {}
    BY <1>1, CheckoutOrder DEF Init
  <1>3. row[o] \in Rows /\ row[o].status = "PENDING"
    BY <1>2, CheckoutRowType
  <1>4. row[o].address = "flat"
    BY <1>2 DEF CheckoutRow, Columns
  <1>5. \A c \in Calls : ~InFlight(c, o)
    BY DEF Init, InFlight
  <1>. QED BY <1>2, <1>3, <1>4, <1>5 DEF Unmoved

LEMMA RequestUnmoved ==
  ASSUME Inv, NEW o \in Orders, Unmoved(o), NEW c \in Calls, NEW p \in Orders, Request(c, p)
  PROVE  Unmoved(o)'
  <1>1. Stored(o)
    BY RowIsStored DEF Unmoved, Stored
  <1>2. row' = row /\ told' = told
    BY DEF Request, CreateOrder, CallUseCase, SellerUpdatesPaymentStatus, CancelOrder
  <1>3. CASE \E line \in Lines : CreateOrder(c, p, line)
    <2>1. PICK line \in Lines : CreateOrder(c, p, line)
      BY <1>3
    <2>. DEFINE step == [at |-> "create", order |-> p, entity |-> Create(line)]
    <2>2. call' = [call EXCEPT ![c] = step] /\ step.order # o
      BY <1>1, <2>1 DEF CreateOrder, Begin, Goto
    <2>. HIDE DEF step
    <2>. QED BY <1>2, <2>2, UnmovedStep
  <1>4. CASE \E u \in UseCases : CallUseCase(c, p, u)
    <2>1. PICK u \in UseCases : CallUseCase(c, p, u)
      BY <1>4
    <2>. DEFINE step == [at |-> "execute", order |-> p, u |-> u, rest |-> "tell"]
    <2>2. call' = [call EXCEPT ![c] = step] /\ step.at = "execute"
      BY <2>1 DEF CallUseCase, Begin, Goto
    <2>. HIDE DEF step
    <2>. QED BY <1>2, <2>2, UnmovedStep
  <1>5. CASE \E s \in Outcomes : SellerUpdatesPaymentStatus(c, p, s)
    <2>1. PICK s \in Outcomes : SellerUpdatesPaymentStatus(c, p, s)
      BY <1>5
    <2>. DEFINE step == [at |-> "execute", order |-> p, rest |-> "payments",
                         u |-> [use |-> "updatePaymentStatus", to |-> s, intent |-> FALSE]]
    <2>2. call' = [call EXCEPT ![c] = step] /\ step.at = "execute"
      BY <2>1 DEF SellerUpdatesPaymentStatus, Begin, Goto
    <2>. HIDE DEF step
    <2>. QED BY <1>2, <2>2, UnmovedStep
  <1>6. CASE CancelOrder(c, p)
    <2>. DEFINE step == [at |-> "release", order |-> p]
    <2>1. call' = [call EXCEPT ![c] = step] /\ step.at = "release"
      BY <1>6 DEF CancelOrder, Begin, Goto
    <2>. HIDE DEF step
    <2>. QED BY <1>2, <2>1, UnmovedStep
  <1>. QED BY <1>3, <1>4, <1>5, <1>6 DEF Request

LEMMA StepUnmoved ==
  ASSUME Inv, NEW o \in Orders, Unmoved(o), NEW c \in Calls, Step(c) \/ Fail(c)
  PROVE  Unmoved(o)'
  <1>. DEFINE p == call[c].order
  <1>1. row \in [Orders -> Rows \cup {NoRow}] /\ told \in [Orders -> SUBSET OrderStatus]
    BY DEF Inv, TypeOK
  <1>2. call[c].at \in {"create", "save", "tell", "payments"} => p # o
    BY Flown DEF Unmoved
  <1>3. CASE InsertOrder(c)
    <2>1. call' = [call EXCEPT ![c] = Done] /\ row'[o] = row[o] /\ told' = told
      BY <1>1, <1>2, <1>3 DEF InsertOrder, Return, Goto, Write
    <2>. QED BY <2>1, UnmovedStep
  <1>4. CASE ReleaseStock(c)
    <2>. DEFINE step == [at |-> "execute", order |-> p, rest |-> "tell",
                         u |-> [use |-> "cancel", reason |-> FALSE]]
    <2>1. call' = [call EXCEPT ![c] = step] /\ step.at = "execute" /\ row' = row /\ told' = told
      BY <1>4 DEF ReleaseStock, Goto
    <2>. HIDE DEF step
    <2>. QED BY <2>1, UnmovedStep
  <1>5. CASE Execute(c)
    <2>. DEFINE results == UNION {Executed(call[c].u, e) : e \in FindById(p)}
    <2>1. row' = row /\ told' = told
      BY <1>5 DEF Execute
    <2>2. CASE results = {}
      <3>1. call' = [call EXCEPT ![c] = Done]
        BY <1>5, <2>2 DEF Execute, Throws, Return, Goto
      <3>. QED BY <2>1, <3>1, UnmovedStep
    <2>3. CASE results # {}
      <3>1. p # o
        BY <2>3, FlatThrows DEF Unmoved
      <3>2. PICK f \in results :
               call' = [call EXCEPT ![c] = [at |-> "save", order |-> p, u |-> call[c].u,
                                            rest |-> call[c].rest, entity |-> f]]
        BY <1>5, <2>3 DEF Execute, Throws, Goto
      <3>. DEFINE step == [at |-> "save", order |-> p, u |-> call[c].u,
                           rest |-> call[c].rest, entity |-> f]
      <3>3. call' = [call EXCEPT ![c] = step] /\ step.order # o
        BY <3>1, <3>2
      <3>. HIDE DEF step
      <3>. QED BY <2>1, <3>3, UnmovedStep
    <2>. QED BY <2>2, <2>3
  <1>6. CASE Save(c)
    <2>. DEFINE step == [at |-> call[c].rest, order |-> p, u |-> call[c].u]
    <2>1. call[c].at = "save"
      BY <1>6 DEF Save
    <2>2. /\ call' = [call EXCEPT ![c] = step] /\ step.order # o
          /\ row'[o] = row[o] /\ told' = told
      BY <1>1, <1>2, <1>6, <2>1 DEF Save, Goto, Write
    <2>. HIDE DEF step
    <2>. QED BY <2>2, UnmovedStep
  <1>7. CASE Publish(c)
    <2>1. call' = [call EXCEPT ![c] = Done] /\ row' = row /\ told'[o] = told[o]
      BY <1>1, <1>2, <1>7 DEF Publish, Return, Goto
    <2>. QED BY <2>1, UnmovedStep
  <1>8. CASE UpdatePayments(c) \/ Fail(c)
    <2>1. call' = [call EXCEPT ![c] = Done] /\ row' = row /\ told' = told
      BY <1>8 DEF UpdatePayments, Fail, Return, Goto
    <2>. QED BY <2>1, UnmovedStep
  <1>. QED BY <1>3, <1>4, <1>5, <1>6, <1>7, <1>8 DEF Step

LEMMA SettlementUnmoved ==
  ASSUME NEW o \in Orders, Unmoved(o), NEW s \in {"SUCCEEDED", "FAILED"}, ApplyPaymentStatus(s)
  PROVE  Unmoved(o)'
  <1>1. row'[o] = row[o] \/ row'[o] = [row[o] EXCEPT !.payment = s]
    BY DEF ApplyPaymentStatus
  <1>2. s \in PaymentStatus
    BY DEF PaymentStatus
  <1>3. row'[o] \in Rows /\ row'[o].status = "PENDING" /\ row'[o].address = "flat"
    BY <1>1, <1>2 DEF Unmoved, Rows
  <1>4. call' = call /\ told' = told
    BY DEF ApplyPaymentStatus
  <1>. QED BY <1>3, <1>4 DEF Unmoved, InFlight

LEMMA NextUnmoved == Inv /\ CheckoutUnmoved /\ [Next]_vars => CheckoutUnmoved'
  <1>. SUFFICES ASSUME Inv, CheckoutUnmoved, [Next]_vars, NEW o \in FromCheckout PROVE Unmoved(o)'
    BY DEF CheckoutUnmoved
  <1>1. o \in Orders /\ Unmoved(o)
    BY CheckoutOrder DEF CheckoutUnmoved
  <1>2. CASE UNCHANGED <<row, call, told>>
    BY <1>1, <1>2 DEF Unmoved, InFlight
  <1>3. CreatePayment \/ UNCHANGED vars => UNCHANGED <<row, call, told>>
    BY DEF CreatePayment, vars
  <1>. QED BY <1>1, <1>2, <1>3, RequestUnmoved, StepUnmoved, SettlementUnmoved DEF Next

(* An order that a checkout made is never moved by any route, nor announced  *)
(* to have moved: its address cannot be read back, so every use case throws  *)
(* before it changes anything.                                              *)
THEOREM CheckoutOrdersNeverMove == Spec => []CheckoutOrdersStay
  <1>1. CheckoutUnmoved => CheckoutOrdersStay
    BY DEF CheckoutUnmoved, Unmoved, CheckoutOrdersStay
  <1>. QED BY <1>1, InitInv, NextInv, InitUnmoved, NextUnmoved, PTL DEF Spec

-----------------------------------------------------------------------------
(* The ledger desk.                                                         *)

\* The desk reads and writes the same tables by the same operators.
LEMMA DeskSums ==
  ASSUME NEW S
  PROVE  Desk!SignedSum(S) = SignedSum(S)
  <1>1. \A e : Desk!Signed(e) = Signed(e)
    BY DEF Desk!Signed, Signed
  <1>2. [e \in S |-> Desk!Signed(e)] = [e \in S |-> Signed(e)]
    BY <1>1
  <1>3. ASSUME NEW f
        PROVE  Desk!SumFunction(f) = SumFunction(f)
    BY DEF Desk!SumFunction, Desk!SumFunctionOnSet, Desk!FoldFunctionOnSet, Desk!MapThenFoldSet,
       SumFunction, SumFunctionOnSet, FoldFunctionOnSet, MapThenFoldSet
  <1>. QED BY <1>2, <1>3 DEF Desk!SignedSum, SignedSum

LEMMA SameDesk ==
  /\ Desk!EmptyLedger = EmptyLedger
  /\ \A L : Desk!AllEntries(L) = AllEntries(L)
  /\ \A L, a : Desk!AccountByHand(L, a) = AccountByHand(L, a)
  /\ \A L, e : Desk!EntryByHand(L, e) = EntryByHand(L, e)
  /\ \A e : Desk!Reversal(e) = Reversal(e) /\ Desk!Signed(e) = Signed(e)
  /\ \A L : Desk!Reversible(L) = Reversible(L)
  /\ \A L, legs : Desk!Postable(L, legs) <=> Postable(L, legs)
  BY DEF Desk!EmptyLedger, EmptyLedger, Desk!Accounts, Accounts, Desk!AccountTypes, AccountTypes,
         Desk!AllEntries, AllEntries, Desk!AccountByHand, AccountByHand,
         Desk!EntryByHand, EntryByHand, Desk!Signed, Signed, Desk!Reversal, Reversal,
         Desk!Opposite, Opposite, Desk!Reversible, Reversible,
         Desk!Postable, Postable, Desk!Recorded, Recorded

Bookings ==
    {Desk!Idle, Desk!Done}
        \cup [at : {"open"}, account : Offered]
        \cup [at : {"record"}, entry : HandMade]
        \cup [at : {"reverse"}, entry : Entries]

BooksTyped ==
    /\ ledger \in Ledgers
    /\ FiniteBook(ledger)
    /\ booking \in [Clerks -> Bookings]
    /\ reversed \subseteq Entries \X Entries

\* No key is taken twice, and the balance of every account is the sum of its entries.
BooksKept == Consistent(ledger)

\* What is to be recorded is on an account that was opened, what is to be
\* reversed was recorded, and what was reversed was reversed to the other side.
ReversalsKnown ==
    /\ \A c \in Clerks :
          /\ booking[c].at = "record" => booking[c].entry.account \in ledger.opened
          /\ booking[c].at = "reverse" => booking[c].entry \in Reversible(ledger)
    /\ \A p \in reversed : p[1] \in Reversible(ledger) /\ p[2] = Reversal(p[1])

DeskInv == BooksTyped /\ BooksKept /\ ReversalsKnown

LEMMA ReversalUndoes ==
  ASSUME NEW e \in Entries, e.txn \in DOMAIN ReversalOf
  PROVE  /\ Reversal(e).account = e.account
         /\ Signed(e) + Signed(Reversal(e)) = 0
  <1>1. e.amount \in Int /\ e.type \in {"DEBIT", "CREDIT"}
    BY DEF Entries, EntryTypes
  <1>2. /\ Reversal(e).account = e.account
        /\ Reversal(e).amount = e.amount
        /\ Reversal(e).type = IF e.type = "DEBIT" THEN "CREDIT" ELSE "DEBIT"
    BY DEF Reversal, Opposite, Entries
  <1>3. CASE e.type = "DEBIT"
    BY <1>1, <1>2, <1>3 DEF Signed
  <1>4. CASE e.type = "CREDIT"
    BY <1>1, <1>2, <1>4 DEF Signed
  <1>. QED BY <1>1, <1>2, <1>3, <1>4

LEMMA ReversalUnique ==
  ASSUME NEW e \in Entries, e.txn \in DOMAIN ReversalOf,
         NEW f \in Entries, f.txn \in DOMAIN ReversalOf, Reversal(e) = Reversal(f)
  PROVE  e.txn = f.txn /\ e.account = f.account /\ e.category = f.category
  <1>1. /\ ReversalOf[e.txn] = ReversalOf[f.txn]
        /\ e.account = f.account /\ e.category = f.category
    BY DEF Reversal, Entries
  <1>. QED BY <1>1, DeskAssumption

\* What one transaction of the desk leaves.
LEMMA BooksWritten ==
  ASSUME DeskInv, ledger' \in ByHand(ledger)
  PROVE  /\ ledger' \in Ledgers /\ FiniteBook(ledger') /\ Consistent(ledger')
         /\ ledger.opened \subseteq ledger'.opened
         /\ Reversible(ledger) \subseteq Reversible(ledger')
  <1>. USE DEF DeskInv, BooksTyped, BooksKept
  <1>1. ledger.byHand \subseteq ledger'.byHand
    <2>1. ASSUME NEW a \in Accounts, ledger' = AccountByHand(ledger, a)
          PROVE  ledger'.byHand = ledger.byHand
      BY <2>1, AccountByHandFields
    <2>2. ASSUME NEW e \in Entries, ledger' = EntryByHand(ledger, e)
          PROVE  ledger'.byHand = ledger.byHand \cup {e}
      BY <2>2, EntryByHandFields
    <2>. QED BY <2>1, <2>2, DeskCases
  <1>2. ledger'.entries = ledger.entries /\ ledger.opened \subseteq ledger'.opened
    BY DeskFrame
  <1>3. Reversible(ledger) \subseteq Reversible(ledger')
    BY <1>1, <1>2 DEF Reversible, AllEntries
  <1>. QED BY <1>2, <1>3, DeskFrame, DeskConsistent

\* A request ends with one transaction, and what is kept of reversals with it.
LEMMA RequestEnds ==
  ASSUME DeskInv, NEW c \in Clerks, booking' = [booking EXCEPT ![c] = Desk!Done],
         ledger' \in ByHand(ledger) \cup {ledger},
         reversed' \subseteq Entries \X Entries,
         \A p \in reversed' : p[1] \in Reversible(ledger) /\ p[2] = Reversal(p[1])
  PROVE  DeskInv'
  <1>. USE DEF DeskInv, BooksTyped, BooksKept
  <1>1. Desk!Done \in Bookings /\ Desk!Done.at = "done"
    BY DEF Bookings, Desk!Done
  <1>2. /\ ledger' \in Ledgers /\ FiniteBook(ledger') /\ Consistent(ledger')
        /\ ledger.opened \subseteq ledger'.opened
        /\ Reversible(ledger) \subseteq Reversible(ledger')
    <2>1. CASE ledger' = ledger
      BY <2>1
    <2>. QED BY <2>1, BooksWritten
  <1>3. booking' \in [Clerks -> Bookings]
    BY <1>1
  <1>4. BooksTyped'
    BY <1>2, <1>3 DEF FiniteBook
  <1>5. BooksKept'
    BY <1>2 DEF Consistent, EntrySum, AllEntries
  <1>6. \A d \in Clerks :
           /\ booking'[d].at = "record" => booking'[d].entry.account \in ledger'.opened
           /\ booking'[d].at = "reverse" => booking'[d].entry \in Reversible(ledger')
    BY <1>1, <1>2 DEF ReversalsKnown
  <1>7. ReversalsKnown'
    BY <1>2, <1>6 DEF ReversalsKnown, Reversible, AllEntries
  <1>. QED BY <1>4, <1>5, <1>7

LEMMA DeskStep ==
  ASSUME DeskInv, NEW c \in Clerks, Desk!Request(c) \/ Desk!Step(c)
  PROVE  DeskInv'
  <1>. USE DEF DeskInv, BooksTyped
  <1>0. /\ Desk!Idle = [at |-> "idle"] /\ Desk!Done = [at |-> "done"]
        /\ booking[c] \in Bookings
    BY DEF Desk!Idle, Desk!Done
  <1>a. \A p \in reversed : p[1] \in Reversible(ledger) /\ p[2] = Reversal(p[1])
    BY DEF ReversalsKnown
  <1>1. ASSUME NEW step \in Bookings, Desk!Begin(c, step),
               step.at = "record" => step.entry.account \in ledger.opened,
               step.at = "reverse" => step.entry \in Reversible(ledger)
        PROVE  DeskInv'
    <2>1. booking' = [booking EXCEPT ![c] = step] /\ ledger' = ledger /\ reversed' = reversed
      BY <1>1 DEF Desk!Begin, Desk!Goto
    <2>2. BooksTyped'
      BY <2>1
    <2>3. BooksKept'
      BY <2>1 DEF BooksKept
    <2>4. ReversalsKnown'
      BY <1>1, <2>1 DEF ReversalsKnown
    <2>. QED BY <2>2, <2>3, <2>4
  <1>2. CASE \E a \in Offered : Desk!CreateAccount(c, a)
    <2>1. PICK a \in Offered : Desk!Begin(c, [at |-> "open", account |-> a])
      BY <1>2 DEF Desk!CreateAccount
    <2>. DEFINE step == [at |-> "open", account |-> a]
    <2>2. step \in Bookings /\ step.at = "open"
      BY DEF Bookings
    <2>. HIDE DEF step
    <2>. QED BY <1>1, <2>1, <2>2 DEF step
  <1>3. CASE \E e \in HandMade : Desk!RecordEntry(c, e)
    <2>1. PICK e \in HandMade :
             e.account \in ledger.opened /\ Desk!Begin(c, [at |-> "record", entry |-> e])
      BY <1>3 DEF Desk!RecordEntry, Desk!GetAccount
    <2>. DEFINE step == [at |-> "record", entry |-> e]
    <2>2. step \in Bookings /\ step.at = "record" /\ step.entry = e
      BY DEF Bookings
    <2>3. Desk!Begin(c, step)
      BY <2>1
    <2>. HIDE DEF step
    <2>. QED BY <1>1, <2>1, <2>2, <2>3
  <1>4. CASE \E e \in Desk!AllEntries(ledger) : Desk!ReverseEntry(c, e)
    <2>1. PICK e \in Reversible(ledger) : Desk!Begin(c, [at |-> "reverse", entry |-> e])
      BY <1>4, SameDesk DEF Desk!ReverseEntry
    <2>. DEFINE step == [at |-> "reverse", entry |-> e]
    <2>2. step \in Bookings /\ step.at = "reverse" /\ step.entry = e
      BY ReversalType DEF Bookings
    <2>3. Desk!Begin(c, step)
      BY <2>1
    <2>. HIDE DEF step
    <2>. QED BY <1>1, <2>1, <2>2, <2>3
  <1>5. CASE Desk!InsertAccount(c)
    <2>1. /\ booking[c].at = "open" /\ booking[c].account \notin ledger.opened
          /\ ledger' = AccountByHand(ledger, booking[c].account)
          /\ booking' = [booking EXCEPT ![c] = Desk!Done] /\ reversed' = reversed
      BY <1>5, SameDesk DEF Desk!InsertAccount, Desk!KeyFree, Desk!Goto
    <2>2. booking[c].account \in Offered
      BY <1>0, <2>1 DEF Bookings
    <2>3. ledger' \in ByHand(ledger)
      BY <2>1, <2>2 DEF ByHand
    <2>. QED BY <1>a, <2>1, <2>3, RequestEnds
  <1>6. CASE Desk!PostEntry(c)
    <2>1. /\ booking[c].at = "record" /\ Postable(ledger, {booking[c].entry})
          /\ ledger' = EntryByHand(ledger, booking[c].entry)
          /\ booking' = [booking EXCEPT ![c] = Desk!Done] /\ reversed' = reversed
      BY <1>6, SameDesk DEF Desk!PostEntry, Desk!Goto
    <2>2. booking[c].entry \in HandMade /\ booking[c].entry.account \in ledger.opened
      BY <1>0, <2>1 DEF Bookings, ReversalsKnown
    <2>3. ledger' \in ByHand(ledger)
      BY <2>1, <2>2 DEF ByHand, Recordable
    <2>. QED BY <1>a, <2>1, <2>3, RequestEnds
  <1>7. CASE Desk!PostReversal(c)
    <2>. DEFINE e == booking[c].entry
                r == Reversal(e)
    <2>1. /\ booking[c].at = "reverse" /\ Postable(ledger, {r})
          /\ ledger' = EntryByHand(ledger, r)
          /\ reversed' = reversed \cup {<<e, r>>}
          /\ booking' = [booking EXCEPT ![c] = Desk!Done]
      BY <1>7, SameDesk DEF Desk!PostReversal, Desk!Goto
    <2>2. e \in Reversible(ledger)
      BY <2>1 DEF ReversalsKnown
    <2>3. ledger' \in ByHand(ledger)
      BY <2>1, <2>2 DEF ByHand, Recordable
    <2>4. <<e, r>> \in Entries \X Entries
      BY <2>2, ReversalType
    <2>5. <<e, r>>[1] \in Reversible(ledger) /\ <<e, r>>[2] = Reversal(<<e, r>>[1])
      BY <2>2
    <2>. HIDE DEF e, r
    <2>. QED BY <1>a, <2>1, <2>3, <2>4, <2>5, RequestEnds
  <1>8. CASE Desk!Fail(c)
    BY <1>a, <1>8, RequestEnds DEF Desk!Fail, Desk!Goto
  <1>. QED BY <1>2, <1>3, <1>4, <1>5, <1>6, <1>7, <1>8 DEF Desk!Request, Desk!Step

(* Accounts, entries and reversals of the desk stay as DeskInv says.         *)
THEOREM DeskInvariant == PartsSpec => []DeskInv
  <1>1. PartsInit => DeskInv
    <2>. SUFFICES ASSUME PartsInit PROVE DeskInv
      OBVIOUS
    <2>1. /\ ledger = EmptyLedger
          /\ booking = [c \in Clerks |-> Desk!Idle]
          /\ reversed = {}
      BY SameDesk DEF PartsInit, Desk!Init
    <2>2. BooksTyped
      BY <2>1, EmptyLedgerType, EmptyConsistent DEF BooksTyped, Bookings
    <2>3. ReversalsKnown
      BY <2>1 DEF ReversalsKnown, Desk!Idle
    <2>. QED BY <2>1, <2>2, <2>3, EmptyConsistent DEF DeskInv, BooksKept
  <1>2. DeskInv /\ [PartsNext]_<<part, vars, records, books>> => DeskInv'
    <2>. SUFFICES ASSUME DeskInv, [PartsNext]_<<part, vars, records, books>> PROVE DeskInv'
      OBVIOUS
    <2>1. CASE UNCHANGED books
      BY <2>1 DEF books, DeskInv, BooksTyped, BooksKept, ReversalsKnown
    <2>2. CASE LedgerNext
      BY <2>2, DeskStep DEF LedgerNext, Desk!Next
    <2>. QED BY <2>1, <2>2 DEF PartsNext, OrdersNext, RecordsNext
  <1>. QED BY <1>1, <1>2, PTL DEF PartsSpec

(* Every account that the desk has opened answers the sum of its entries,    *)
(* and an entry and its reversal, of which it has one, come to nothing,       *)
(* for any amounts and however requests overlap and fail: LedgerService.     *)
THEOREM DeskBalances == PartsSpec => []BooksBalance
  <1>1. DeskInv => BooksBalance
    <2>. SUFFICES ASSUME DeskInv PROVE BooksBalance
      OBVIOUS
    <2>1. ASSUME NEW a \in ledger.opened
          PROVE  Desk!GetBalance(a) = Desk!SignedSum(Desk!EntriesByAccount(a))
      <3>1. a \in Accounts
        BY DEF DeskInv, BooksTyped, Ledgers
      <3>2. ledger.balance[a] = SignedSum({e \in AllEntries(ledger) : e.account = a})
        BY <3>1 DEF DeskInv, BooksKept, Consistent, EntrySum
      <3>. QED BY <3>2, DeskSums, SameDesk DEF Desk!GetBalance, Desk!EntriesByAccount
    <2>2. ASSUME NEW p \in reversed
          PROVE  /\ p[1].account = p[2].account /\ Desk!Signed(p[1]) + Desk!Signed(p[2]) = 0
                 /\ \A q \in reversed : p[1] = q[1] \/ p[2] = q[2] => p = q
      <3>1. \A q \in reversed : /\ q[1] \in Entries /\ q[1].txn \in DOMAIN ReversalOf
                               /\ q[1] \in AllEntries(ledger)
                               /\ q[2] = Reversal(q[1]) /\ q = <<q[1], q[2]>>
        BY DEF DeskInv, BooksTyped, ReversalsKnown, Reversible
      <3>2. p[1].account = p[2].account /\ Signed(p[1]) + Signed(p[2]) = 0
        BY <3>1, ReversalUndoes
      <3>3. ASSUME NEW q \in reversed, p[2] = q[2]
            PROVE  p[1] = q[1]
        <4>1. p[1].txn = q[1].txn /\ p[1].account = q[1].account /\ p[1].category = q[1].category
          BY <3>1, <3>3, ReversalUnique
        <4>. QED BY <3>1, <4>1 DEF DeskInv, BooksKept, Consistent
      <3>4. ASSUME NEW q \in reversed, p[1] = q[1] \/ p[2] = q[2]
            PROVE  p = q
        BY <3>1, <3>3, <3>4
      <3>. QED BY <3>2, <3>4, SameDesk
    <2>. QED BY <2>1, <2>2 DEF BooksBalance, Desk!BooksBalance
  <1>. QED BY <1>1, DeskInvariant, PTL

-----------------------------------------------------------------------------
(* Shipments.                                                               *)

ShipmentOk(e) == e \in Repositories!Shipment!Entities /\ Repositories!Shipment!Agrees(e)

ShipmentStatuses == {"PENDING", "ASSIGNED", "PICKED_UP", "IN_TRANSIT", "DELIVERED", "FAILED", "RETURNED"}

LEMMA ShipmentTypes ==
  /\ Repositories!Shipment!Status = ShipmentStatuses
  /\ Repositories!Shipment!Entities =
       [status : ShipmentStatuses, shipper : {"s1", "none"}, tracking : BOOLEAN, eta : {"none", "past"},
        deliveredAt : BOOLEAN, failedAt : BOOLEAN]
  <1>1. Repositories!Shipment!Status = ShipmentStatuses
    BY DEF Repositories!Shipment!Status, Repositories!Shipment!Moves, ShipmentStatuses
  <1>2. {"s1"} \cup {"none"} = {"s1", "none"}
    OBVIOUS
  <1>. QED
    BY <1>1, <1>2, Zenon
    DEF Repositories!Shipment!Entities, Repositories!Shipment!Shippers, Repositories!Shipment!Etas

LEMMA ShipmentMoves ==
  LET moves == Repositories!Shipment!Moves
  IN  /\ moves["PENDING"] = {"ASSIGNED", "FAILED"}
      /\ moves["ASSIGNED"] = {"PICKED_UP", "FAILED"}
      /\ moves["PICKED_UP"] = {"IN_TRANSIT", "FAILED"}
      /\ moves["IN_TRANSIT"] = {"DELIVERED", "FAILED"}
      /\ moves["DELIVERED"] = {"RETURNED"}
      /\ moves["FAILED"] = {}
      /\ moves["RETURNED"] = {}
  BY DEF Repositories!Shipment!Moves

LEMMA ShipmentNew ==
  ASSUME NEW e \in Repositories!Shipment!New
  PROVE  ShipmentOk(e)
  <1>1. PICK eta \in {"none", "past"} :
          e = [status |-> "PENDING", shipper |-> "none", tracking |-> FALSE, eta |-> eta,
               deliveredAt |-> FALSE, failedAt |-> FALSE]
    BY DEF Repositories!Shipment!New, Repositories!Shipment!Etas
  <1>2. e \in Repositories!Shipment!Entities
    BY <1>1, ShipmentTypes DEF ShipmentStatuses
  <1>. QED BY <1>1, <1>2 DEF ShipmentOk, Repositories!Shipment!Agrees

\* A method whose status column is the only one that moves.
LEMMA ShipmentChange ==
  ASSUME NEW e, ShipmentOk(e), NEW f \in Repositories!Shipment!Change(e)
  PROVE  ShipmentOk(f) /\ f.status \in {e.status} \cup Repositories!Shipment!Moves[e.status]
  <1>. DEFINE to == Repositories!Shipment!Moves[e.status]
              Goal == ShipmentOk(f) /\ f.status \in {e.status} \cup to
  <1>1. /\ e \in [status : ShipmentStatuses, shipper : {"s1", "none"}, tracking : BOOLEAN,
                  eta : {"none", "past"}, deliveredAt : BOOLEAN, failedAt : BOOLEAN]
        /\ e.status \in ShipmentStatuses \ {"PENDING", "FAILED"} => e.shipper # "none"
        /\ e.deliveredAt => e.status \in {"DELIVERED", "RETURNED"}
        /\ e.failedAt => e.status = "FAILED"
    BY ShipmentTypes DEF ShipmentOk, Repositories!Shipment!Agrees
  <1>2. \A d : /\ d \in [status : ShipmentStatuses, shipper : {"s1", "none"}, tracking : BOOLEAN,
                         eta : {"none", "past"}, deliveredAt : BOOLEAN, failedAt : BOOLEAN]
               /\ d.status \in ShipmentStatuses \ {"PENDING", "FAILED"} => d.shipper # "none"
               /\ d.deliveredAt => d.status \in {"DELIVERED", "RETURNED"}
               /\ d.failedAt => d.status = "FAILED"
               => ShipmentOk(d)
    BY ShipmentTypes DEF ShipmentOk, Repositories!Shipment!Agrees
  <1>3. ASSUME NEW s \in {"s1"}, NEW tracking \in BOOLEAN,
               f = [e EXCEPT !.status = "ASSIGNED", !.shipper = s, !.tracking = tracking], "ASSIGNED" \in to
        PROVE  Goal
    BY <1>1, <1>2, <1>3, ShipmentMoves DEF ShipmentStatuses
  <1>4. ASSUME NEW s \in {"PICKED_UP", "IN_TRANSIT", "RETURNED"}, f = [e EXCEPT !.status = s], s \in to
        PROVE  Goal
    BY <1>1, <1>2, <1>4, ShipmentMoves DEF ShipmentStatuses
  <1>5. ASSUME f = [e EXCEPT !.status = "DELIVERED", !.deliveredAt = TRUE], "DELIVERED" \in to
        PROVE  Goal
    BY <1>1, <1>2, <1>5, ShipmentMoves DEF ShipmentStatuses
  <1>6. ASSUME f = [e EXCEPT !.status = "FAILED", !.failedAt = TRUE], "FAILED" \in to
        PROVE  Goal
    BY <1>1, <1>2, <1>6, ShipmentMoves DEF ShipmentStatuses
  <1>7. ASSUME NEW eta \in {"none", "past"},
               f = [e EXCEPT !.tracking = TRUE] \/ f = [e EXCEPT !.eta = eta]
        PROVE  Goal
    BY <1>1, <1>2, <1>7
  <1>. DEFINE Assigned == UNION {Repositories!Shipment!AssignShipper(e, s, tracking) :
                                     s \in Repositories!Shipment!Shippers, tracking \in BOOLEAN}
              Estimated == UNION {Repositories!Shipment!UpdateEstimatedDeliveryAt(e, eta) :
                                     eta \in Repositories!Shipment!Etas \ {"none"}}
  <1>8. CASE f \in Assigned
    <2>1. PICK s \in {"s1"}, tracking \in BOOLEAN : f \in Repositories!Shipment!AssignShipper(e, s, tracking)
      BY <1>8 DEF Repositories!Shipment!Shippers
    <2>. QED
      BY <1>3, <2>1 DEF Repositories!Shipment!AssignShipper, Repositories!Shipment!CanMove,
         Repositories!Shipment!When, Repositories!Shipment!Throws
  <1>9. CASE f \in Repositories!Shipment!MarkAsPickedUp(e) \cup Repositories!Shipment!MarkAsInTransit(e)
                    \cup Repositories!Shipment!MarkAsReturned(e)
    BY <1>4, <1>9 DEF Repositories!Shipment!MarkAsPickedUp, Repositories!Shipment!MarkAsInTransit,
       Repositories!Shipment!MarkAsReturned, Repositories!Shipment!CanMove,
       Repositories!Shipment!When, Repositories!Shipment!Throws
  <1>10. CASE f \in Repositories!Shipment!MarkAsDelivered(e)
    BY <1>5, <1>10 DEF Repositories!Shipment!MarkAsDelivered, Repositories!Shipment!CanMove,
       Repositories!Shipment!When, Repositories!Shipment!Throws
  <1>11. CASE f \in Repositories!Shipment!MarkAsFailed(e)
    BY <1>6, <1>11 DEF Repositories!Shipment!MarkAsFailed, Repositories!Shipment!CanMove,
       Repositories!Shipment!When, Repositories!Shipment!Throws
  <1>12. CASE f \in Repositories!Shipment!UpdateTrackingNumber(e)
    BY <1>7, <1>12 DEF Repositories!Shipment!UpdateTrackingNumber,
       Repositories!Shipment!When, Repositories!Shipment!Throws
  <1>13. CASE f \in Estimated
    <2>1. PICK eta \in {"none", "past"} : f \in Repositories!Shipment!UpdateEstimatedDeliveryAt(e, eta)
      BY <1>13 DEF Repositories!Shipment!Etas
    <2>. QED
      BY <1>7, <2>1 DEF Repositories!Shipment!UpdateEstimatedDeliveryAt,
         Repositories!Shipment!When, Repositories!Shipment!Throws
  <1>. QED
    BY <1>8, <1>9, <1>10, <1>11, <1>12, <1>13 DEF Repositories!Shipment!Change

LEMMA ShipmentSaved ==
  ASSUME NEW e, ShipmentOk(e)
  PROVE  LET r == Repositories!Shipment!Columns(e) IN ShipmentOk(r) /\ r.status = e.status
  <1>. DEFINE r == Repositories!Shipment!Columns(e)
  <1>1. r = [e EXCEPT !.deliveredAt = FALSE, !.failedAt = FALSE]
    BY DEF Repositories!Shipment!Columns
  <1>. HIDE DEF r
  <1>2. ShipmentOk(r) /\ r.status = e.status
    BY <1>1, ShipmentTypes DEF ShipmentOk, Repositories!Shipment!Agrees
  <1>. QED BY <1>2 DEF r

-----------------------------------------------------------------------------
(* Payments.                                                                *)

PaymentOk(e) == e \in Repositories!Payment!Entities /\ Repositories!Payment!Agrees(e)
PaymentRowOk(r) == r \in Repositories!Payment!Rows /\ Repositories!Payment!Agrees(r)

PaymentStatuses == {"PENDING", "SUCCEEDED", "FAILED", "REFUNDED"}

LEMMA PaymentTypes ==
  /\ Repositories!Payment!Status = PaymentStatuses
  /\ Repositories!Payment!Entities =
       [status : PaymentStatuses, intent : {"i1", "i2"}, metadata : {"m1"}, paidAt : BOOLEAN,
        refundedAt : BOOLEAN, error : {"e1", "none"}, reason : BOOLEAN]
  /\ Repositories!Payment!Rows =
       [status : PaymentStatuses, provider : BOOLEAN, ref : {"i1", "i2", "none"}, metadata : {"m1"},
        paidAt : BOOLEAN, refundedAt : BOOLEAN, error : {"e1", "none"}, reason : BOOLEAN]
  <1>1. Repositories!Payment!Status = PaymentStatuses
    BY DEF Repositories!Payment!Status, PaymentStatuses
  <1>2. {"e1"} \cup {"none"} = {"e1", "none"} /\ {"i1", "i2"} \cup {"none"} = {"i1", "i2", "none"}
    OBVIOUS
  <1>. QED
    BY <1>1, <1>2, Zenon
    DEF Repositories!Payment!Entities, Repositories!Payment!Rows, Repositories!Payment!Intents,
        Repositories!Payment!Metadata, Repositories!Payment!Errors

LEMMA PaymentMoves ==
  LET moves == Repositories!Payment!Moves
  IN  /\ moves["PENDING"] = {"SUCCEEDED", "FAILED"}
      /\ moves["SUCCEEDED"] = {"REFUNDED"}
      /\ moves["FAILED"] = {}
      /\ moves["REFUNDED"] = {}
  BY DEF Repositories!Payment!Moves

LEMMA PaymentChange ==
  ASSUME NEW e, PaymentOk(e), NEW f \in Repositories!Payment!Change(e)
  PROVE  PaymentOk(f) /\ f.status \in {e.status} \cup Repositories!Payment!Moves[e.status]
  <1>. DEFINE Failed == UNION {Repositories!Payment!MarkAsFailed(e, m) : m \in Repositories!Payment!Errors}
              Refunds == UNION {Repositories!Payment!Refund(e, reason) : reason \in BOOLEAN}
              Intents == UNION {Repositories!Payment!UpdatePaymentIntentId(e, i) :
                                   i \in Repositories!Payment!Intents}
              Metadata == UNION {Repositories!Payment!UpdateMetadata(e, m) :
                                   m \in Repositories!Payment!Metadata}
  <1>1. CASE f \in Repositories!Payment!MarkAsPaid(e)
    <2>1. e.status = "PENDING" /\ f = [e EXCEPT !.status = "SUCCEEDED", !.paidAt = TRUE, !.error = "none"]
      BY <1>1 DEF Repositories!Payment!MarkAsPaid, Repositories!Payment!When, Repositories!Payment!Throws
    <2>. QED
      BY <2>1, PaymentTypes, PaymentMoves DEF PaymentOk, Repositories!Payment!Agrees, PaymentStatuses
  <1>2. CASE f \in Failed
    <2>1. e.status \in {"PENDING", "FAILED"} /\ f = [e EXCEPT !.status = "FAILED", !.error = "e1"]
      BY <1>2 DEF Repositories!Payment!MarkAsFailed, Repositories!Payment!Errors,
         Repositories!Payment!When, Repositories!Payment!Throws
    <2>. QED
      BY <2>1, PaymentTypes, PaymentMoves DEF PaymentOk, Repositories!Payment!Agrees, PaymentStatuses
  <1>3. CASE f \in Refunds
    <2>1. PICK reason \in BOOLEAN : f \in Repositories!Payment!Refund(e, reason)
      BY <1>3
    <2>2. e.status = "SUCCEEDED"
          /\ f = [e EXCEPT !.status = "REFUNDED", !.refundedAt = TRUE, !.reason = reason]
      BY <2>1 DEF Repositories!Payment!Refund, Repositories!Payment!IsRefundable,
         Repositories!Payment!When, Repositories!Payment!Throws
    <2>. QED
      BY <2>2, PaymentTypes, PaymentMoves DEF PaymentOk, Repositories!Payment!Agrees, PaymentStatuses
  <1>4. CASE f \in Intents
    <2>1. PICK i \in {"i1", "i2"} : f = [e EXCEPT !.intent = i]
      BY <1>4 DEF Repositories!Payment!UpdatePaymentIntentId, Repositories!Payment!Intents,
         Repositories!Payment!When, Repositories!Payment!Throws
    <2>. QED
      BY <2>1, PaymentTypes DEF PaymentOk, Repositories!Payment!Agrees
  <1>5. CASE f \in Metadata
    <2>1. f = [e EXCEPT !.metadata = "m1"]
      BY <1>5 DEF Repositories!Payment!UpdateMetadata, Repositories!Payment!Metadata,
         Repositories!Payment!When, Repositories!Payment!Throws
    <2>. QED
      BY <2>1, PaymentTypes DEF PaymentOk, Repositories!Payment!Agrees
  <1>. QED
    BY <1>1, <1>2, <1>3, <1>4, <1>5 DEF Repositories!Payment!Change

\* The row has the columns of the entity, and a gateway.
LEMMA PaymentSaved ==
  ASSUME NEW e, PaymentOk(e)
  PROVE  LET r == Repositories!Payment!Columns(e)
         IN  PaymentRowOk(r) /\ r.status = e.status /\ Repositories!Payment!ToDomain(r) = {e}
  <1>. DEFINE r == Repositories!Payment!Columns(e)
  <1>1. r = [status |-> e.status, provider |-> TRUE, ref |-> e.intent, metadata |-> e.metadata,
             paidAt |-> e.paidAt, refundedAt |-> e.refundedAt, error |-> e.error, reason |-> e.reason]
    BY DEF Repositories!Payment!Columns
  <1>. HIDE DEF r
  <1>2. PaymentRowOk(r) /\ r.status = e.status
    BY <1>1, PaymentTypes DEF PaymentOk, PaymentRowOk, Repositories!Payment!Agrees
  <1>3. e = [status |-> r.status, intent |-> r.ref, metadata |-> r.metadata, paidAt |-> r.paidAt,
             refundedAt |-> r.refundedAt, error |-> r.error, reason |-> r.reason]
    BY <1>1, PaymentTypes DEF PaymentOk
  <1>4. r.provider /\ r.ref # "none"
    BY <1>1, PaymentTypes DEF PaymentOk
  <1>5. Repositories!Payment!ToDomain(r) = {e}
    BY <1>3, <1>4 DEF Repositories!Payment!ToDomain
  <1>. QED BY <1>2, <1>5 DEF r

LEMMA PaymentLoaded ==
  ASSUME NEW r, PaymentRowOk(r), NEW e \in Repositories!Payment!ToDomain(r)
  PROVE  PaymentOk(e) /\ e.status = r.status /\ Repositories!Payment!Columns(e) = r
  <1>1. /\ r.provider /\ r.ref # "none"
        /\ e = [status |-> r.status, intent |-> r.ref, metadata |-> r.metadata, paidAt |-> r.paidAt,
                refundedAt |-> r.refundedAt, error |-> r.error, reason |-> r.reason]
    BY DEF Repositories!Payment!ToDomain, Repositories!Payment!Throws
  <1>2. PaymentOk(e) /\ e.status = r.status
    BY <1>1, PaymentTypes DEF PaymentOk, PaymentRowOk, Repositories!Payment!Agrees
  <1>3. r = [status |-> e.status, provider |-> TRUE, ref |-> e.intent, metadata |-> e.metadata,
             paidAt |-> e.paidAt, refundedAt |-> e.refundedAt, error |-> e.error, reason |-> e.reason]
    BY <1>1, PaymentTypes DEF PaymentRowOk
  <1>. QED BY <1>2, <1>3 DEF Repositories!Payment!Columns

LEMMA PaymentInserted ==
  ASSUME NEW r \in Repositories!Payment!Inserted
  PROVE  PaymentRowOk(r)
  <1>1. PICK online \in BOOLEAN :
          r = [status |-> "PENDING", provider |-> online, ref |-> "none", metadata |-> "m1",
               paidAt |-> FALSE, refundedAt |-> FALSE, error |-> "none", reason |-> FALSE]
    BY DEF Repositories!Payment!Inserted
  <1>. QED
    BY <1>1, PaymentTypes DEF PaymentRowOk, Repositories!Payment!Agrees, PaymentStatuses

LEMMA PaymentDirect ==
  ASSUME NEW r, PaymentRowOk(r), NEW s \in Repositories!Payment!Direct(r)
  PROVE  PaymentRowOk(s) /\ r.status = "PENDING"
  <1>1. CASE s \in Repositories!Payment!SessionOpened(r)
    <2>1. r.status = "PENDING" /\ s = [r EXCEPT !.ref = "i1"]
      BY <1>1 DEF Repositories!Payment!SessionOpened
    <2>. QED
      BY <2>1, PaymentTypes DEF PaymentRowOk, Repositories!Payment!Agrees
  <1>2. CASE s \in Repositories!Payment!ServiceSettles(r)
    <2>1. r.status = "PENDING"
      BY <1>2 DEF Repositories!Payment!ServiceSettles
    <2>2. PICK to \in {"SUCCEEDED", "FAILED"}, ref \in {r.ref, "i2"} :
            s = [r EXCEPT !.status = to, !.ref = ref]
      BY <1>2, <2>1 DEF Repositories!Payment!ServiceSettles
    <2>. QED
      BY <2>1, <2>2, PaymentTypes DEF PaymentRowOk, Repositories!Payment!Agrees, PaymentStatuses
  <1>. QED BY <1>1, <1>2 DEF Repositories!Payment!Direct

-----------------------------------------------------------------------------
(* Payouts.  d says whether setState was called for the id: only without does *)
(* the time of payment fit the status.                                      *)

PayoutOk(d, e) == e \in Repositories!Payout!Entities /\ (~d => Repositories!Payout!Agrees(e))

PayoutStatuses == {"PENDING", "PAID", "FAILED"}

LEMMA PayoutTypes ==
  /\ Repositories!Payout!Status = PayoutStatuses
  /\ Repositories!Payout!Entities =
       [status : PayoutStatuses, method : BOOLEAN, reference : BOOLEAN, paidAt : BOOLEAN]
  <1>1. Repositories!Payout!Status = PayoutStatuses
    BY DEF Repositories!Payout!Status, Repositories!Payout!Moves, PayoutStatuses
  <1>. QED BY <1>1, Zenon DEF Repositories!Payout!Entities

LEMMA PayoutMoves ==
  LET moves == Repositories!Payout!Moves
  IN  moves["PENDING"] = {"PAID", "FAILED"} /\ moves["PAID"] = {} /\ moves["FAILED"] = {"PENDING"}
  BY DEF Repositories!Payout!Moves

LEMMA PayoutNew ==
  ASSUME NEW e \in Repositories!Payout!New, NEW d
  PROVE  PayoutOk(d, e)
  <1>1. PICK m \in BOOLEAN : e = [status |-> "PENDING", method |-> m, reference |-> FALSE, paidAt |-> FALSE]
    BY DEF Repositories!Payout!New
  <1>. QED BY <1>1, PayoutTypes DEF PayoutOk, Repositories!Payout!Agrees, PayoutStatuses

LEMMA PayoutChange ==
  ASSUME NEW d, NEW e, PayoutOk(d, e), NEW f \in Repositories!Payout!Change(e)
  PROVE  PayoutOk(d, f) /\ f.status \in {e.status} \cup Repositories!Payout!Moves[e.status]
  <1>1. CASE f \in Repositories!Payout!MarkPaid(e)
    <2>1. e.status = "PENDING" /\ f = [e EXCEPT !.status = "PAID", !.reference = TRUE, !.paidAt = TRUE]
      BY <1>1 DEF Repositories!Payout!MarkPaid, Repositories!Payout!CanMarkPaid,
         Repositories!Payout!When, Repositories!Payout!Throws
    <2>. QED
      BY <2>1, PayoutTypes, PayoutMoves DEF PayoutOk, Repositories!Payout!Agrees, PayoutStatuses
  <1>2. CASE f \in Repositories!Payout!MarkFailed(e)
    <2>1. e.status = "PENDING" /\ f = [e EXCEPT !.status = "FAILED"]
      BY <1>2 DEF Repositories!Payout!MarkFailed, Repositories!Payout!CanMarkFailed,
         Repositories!Payout!When, Repositories!Payout!Throws
    <2>. QED
      BY <2>1, PayoutTypes, PayoutMoves DEF PayoutOk, Repositories!Payout!Agrees, PayoutStatuses
  <1>. QED BY <1>1, <1>2 DEF Repositories!Payout!Change

LEMMA PayoutForced ==
  ASSUME NEW d, NEW e, PayoutOk(d, e), NEW f \in Repositories!Payout!SetState(e)
  PROVE  PayoutOk(TRUE, f)
  <1>1. PICK s \in PayoutStatuses : f = [e EXCEPT !.status = s]
    BY PayoutTypes DEF Repositories!Payout!SetState
  <1>. QED BY <1>1, PayoutTypes DEF PayoutOk

LEMMA PayoutSaved ==
  ASSUME NEW d, NEW e, PayoutOk(d, e)
  PROVE  LET r == Repositories!Payout!Columns(e) IN PayoutOk(d, r) /\ r.status = e.status
  <1>. DEFINE r == Repositories!Payout!Columns(e)
  <1>1. r = [status |-> e.status, method |-> e.method, reference |-> e.reference, paidAt |-> e.paidAt]
    BY DEF Repositories!Payout!Columns
  <1>. HIDE DEF r
  <1>2. PayoutOk(d, r) /\ r.status = e.status
    BY <1>1, PayoutTypes DEF PayoutOk, Repositories!Payout!Agrees
  <1>. QED BY <1>2 DEF r

LEMMA PayoutLoaded ==
  ASSUME NEW d, NEW r, PayoutOk(d, r), NEW e \in Repositories!Payout!ToDomain(r)
  PROVE  PayoutOk(d, e) /\ e.status = r.status
  <1>1. PICK m \in Repositories!Payout!MethodFromString(r.method) :
          e = [status |-> r.status, method |-> m, reference |-> r.reference, paidAt |-> r.paidAt]
    BY DEF Repositories!Payout!ToDomain
  <1>2. m = r.method
    BY <1>1 DEF Repositories!Payout!MethodFromString, Repositories!Payout!When, Repositories!Payout!Throws
  <1>. QED
    BY <1>1, <1>2, PayoutTypes DEF PayoutOk, Repositories!Payout!Agrees

LEMMA PayoutInserted ==
  ASSUME NEW r \in Repositories!Payout!Inserted, NEW d
  PROVE  PayoutOk(d, r)
  <1>1. r = [status |-> "PENDING", method |-> TRUE, reference |-> TRUE, paidAt |-> FALSE]
    BY DEF Repositories!Payout!Inserted
  <1>. QED BY <1>1, PayoutTypes DEF PayoutOk, Repositories!Payout!Agrees, PayoutStatuses

LEMMA PayoutDirect ==
  ASSUME NEW d, NEW r, PayoutOk(d, r), NEW s \in Repositories!Payout!Direct(r)
  PROVE  PayoutOk(d, s) /\ r.status = "PENDING"
  <1>1. r.status = "PENDING"
    BY DEF Repositories!Payout!Direct
  <1>2. PICK to \in PayoutStatuses, given \in BOOLEAN : s = Repositories!Payout!Updated(r, to, given)
    BY <1>1, PayoutTypes DEF Repositories!Payout!Direct
  <1>3. PICK ref \in BOOLEAN, at \in BOOLEAN :
          /\ s = [r EXCEPT !.status = to, !.reference = ref, !.paidAt = at]
          /\ at <=> r.paidAt \/ to = "PAID"
    BY <1>2, PayoutTypes DEF Repositories!Payout!Updated, PayoutOk
  <1>. QED BY <1>1, <1>3, PayoutTypes DEF PayoutOk, Repositories!Payout!Agrees, PayoutStatuses

-----------------------------------------------------------------------------
(* Notifications.  A row may have no channel; an entity has one.  d says      *)
(* whether setState was called for the id.                                  *)

NotificationOk(d, e) ==
  e \in Repositories!Notification!Entities /\ (~d => Repositories!Notification!Agrees(e))

NotificationStatuses == {"PENDING", "SENT", "READ", "FAILED"}

NotificationRowOk(d, r) ==
  /\ r \in [status : NotificationStatuses, channels : {"internal", "other", "none"}, sentAt : BOOLEAN,
            readAt : BOOLEAN]
  /\ ~d => Repositories!Notification!Agrees(r)

LEMMA NotificationTypes ==
  /\ Repositories!Notification!Status = NotificationStatuses
  /\ Repositories!Notification!Entities =
       [status : NotificationStatuses, channels : {"internal", "other"}, sentAt : BOOLEAN, readAt : BOOLEAN]
  <1>1. Repositories!Notification!Status = NotificationStatuses
    BY DEF Repositories!Notification!Status, Repositories!Notification!Moves, NotificationStatuses
  <1>. QED BY <1>1, Zenon DEF Repositories!Notification!Entities, Repositories!Notification!Channels

LEMMA NotificationMoves ==
  LET moves == Repositories!Notification!Moves
  IN  /\ moves["PENDING"] = {"SENT", "FAILED"}
      /\ moves["SENT"] = {"READ", "FAILED"}
      /\ moves["READ"] = {}
      /\ moves["FAILED"] = {"PENDING", "SENT"}
  BY DEF Repositories!Notification!Moves

LEMMA NotificationNew ==
  ASSUME NEW e \in Repositories!Notification!New, NEW d
  PROVE  NotificationOk(d, e)
  <1>1. PICK c \in {"internal", "other"} :
          e = [status |-> "PENDING", channels |-> c, sentAt |-> FALSE, readAt |-> FALSE]
    BY DEF Repositories!Notification!New, Repositories!Notification!Channels
  <1>. QED
    BY <1>1, NotificationTypes DEF NotificationOk, Repositories!Notification!Agrees, NotificationStatuses

LEMMA NotificationChange ==
  ASSUME NEW d, NEW e, NotificationOk(d, e), NEW f \in Repositories!Notification!Change(e)
  PROVE  NotificationOk(d, f) /\ f.status \in {e.status} \cup Repositories!Notification!Moves[e.status]
  <1>1. CASE f \in Repositories!Notification!MarkAsSent(e)
    <2>1. e.status \in {"PENDING", "FAILED"} /\ f = [e EXCEPT !.status = "SENT", !.sentAt = TRUE]
      BY <1>1 DEF Repositories!Notification!MarkAsSent, Repositories!Notification!CanSend,
         Repositories!Notification!When, Repositories!Notification!Throws
    <2>. QED
      BY <2>1, NotificationTypes, NotificationMoves
      DEF NotificationOk, Repositories!Notification!Agrees, NotificationStatuses
  <1>2. CASE f \in Repositories!Notification!MarkAsRead(e)
    <2>1. e.status = "SENT" /\ f = [e EXCEPT !.status = "READ", !.readAt = TRUE]
      BY <1>2 DEF Repositories!Notification!MarkAsRead, Repositories!Notification!CanRead,
         Repositories!Notification!When, Repositories!Notification!Throws
    <2>. QED
      BY <2>1, NotificationTypes, NotificationMoves
      DEF NotificationOk, Repositories!Notification!Agrees, NotificationStatuses
  <1>3. CASE f \in Repositories!Notification!MarkAsFailed(e)
    <2>1. e.status \in {"PENDING", "SENT"} /\ f = [e EXCEPT !.status = "FAILED"]
      BY <1>3 DEF Repositories!Notification!MarkAsFailed, Repositories!Notification!CanFail,
         Repositories!Notification!When, Repositories!Notification!Throws
    <2>. QED
      BY <2>1, NotificationTypes, NotificationMoves
      DEF NotificationOk, Repositories!Notification!Agrees, NotificationStatuses
  <1>. QED BY <1>1, <1>2, <1>3 DEF Repositories!Notification!Change

LEMMA NotificationForced ==
  ASSUME NEW d, NEW e, NotificationOk(d, e), NEW f \in Repositories!Notification!SetState(e)
  PROVE  NotificationOk(TRUE, f)
  <1>1. PICK s \in NotificationStatuses : f = [e EXCEPT !.status = s]
    BY NotificationTypes DEF Repositories!Notification!SetState
  <1>. QED BY <1>1, NotificationTypes DEF NotificationOk

LEMMA NotificationSaved ==
  ASSUME NEW d, NEW e, NotificationOk(d, e)
  PROVE  LET r == Repositories!Notification!Columns(e)
         IN  NotificationRowOk(d, r) /\ r.status = e.status /\ Repositories!Notification!ToDomain(r) = {e}
  <1>1. Repositories!Notification!Columns(e) = e
    BY DEF Repositories!Notification!Columns
  <1>2. NotificationRowOk(d, e) /\ e.channels \in {"internal", "other"}
    BY NotificationTypes DEF NotificationOk, NotificationRowOk
  <1>3. Repositories!Notification!ToDomain(e) = {e}
    BY <1>2 DEF Repositories!Notification!ToDomain, Repositories!Notification!When,
       Repositories!Notification!Channels
  <1>. QED BY <1>1, <1>2, <1>3

LEMMA NotificationLoaded ==
  ASSUME NEW d, NEW r, NotificationRowOk(d, r), NEW e \in Repositories!Notification!ToDomain(r)
  PROVE  NotificationOk(d, e) /\ e.status = r.status /\ Repositories!Notification!Columns(e) = r
  <1>1. e = r /\ r.channels \in {"internal", "other"}
    BY DEF Repositories!Notification!ToDomain, Repositories!Notification!When,
       Repositories!Notification!Throws, Repositories!Notification!Channels
  <1>2. NotificationOk(d, e)
    BY <1>1, NotificationTypes DEF NotificationOk, NotificationRowOk
  <1>. QED BY <1>1, <1>2 DEF Repositories!Notification!Columns

LEMMA NotificationInserted ==
  ASSUME NEW r \in Repositories!Notification!Inserted, NEW d
  PROVE  NotificationRowOk(d, r)
  <1>1. PICK c \in {"internal", "other", "none"} :
          r = [status |-> "PENDING", channels |-> c, sentAt |-> FALSE, readAt |-> FALSE]
    BY DEF Repositories!Notification!Inserted, Repositories!Notification!Channels
  <1>. QED
    BY <1>1 DEF NotificationRowOk, Repositories!Notification!Agrees, NotificationStatuses

LEMMA NotificationDirect ==
  ASSUME NEW d, NEW r, NotificationRowOk(d, r), NEW s \in Repositories!Notification!Direct(r)
  PROVE  NotificationRowOk(d, s) /\ s.status = "READ"
  <1>1. s = [r EXCEPT !.status = "READ", !.readAt = TRUE]
    BY DEF Repositories!Notification!Direct
  <1>. QED
    BY <1>1 DEF NotificationRowOk, Repositories!Notification!Agrees, NotificationStatuses

-----------------------------------------------------------------------------
(* Inventories.  d says whether a service has written the row: only without *)
(* is no more reserved than there is.                                       *)

InventoryOk(d, e) ==
  e \in Repositories!Inventory!Entities /\ (~d => Repositories!Inventory!Agrees(e))

InventoryRowOk(d, r) ==
  r \in Repositories!Inventory!Rows /\ (~d => r.reserved <= r.stock)

LEMMA InventoryTypes ==
  /\ MaxStock \in Nat
  /\ Repositories!Inventory!Entities = [quantity : 0 .. MaxStock, reserved : 0 .. MaxStock, threshold : {0, 1}]
  /\ Repositories!Inventory!Rows = [stock : 0 .. MaxStock, reserved : -1 .. MaxStock, threshold : {0, 1}]
  BY RecordsAssumption
  DEF Repositories!Inventory!Entities, Repositories!Inventory!Rows, Repositories!Inventory!Quantities

LEMMA InventoryNew ==
  ASSUME NEW e \in Repositories!Inventory!New, NEW d
  PROVE  InventoryOk(d, e)
  <1>1. PICK q \in 0 .. MaxStock : e = [quantity |-> q, reserved |-> 0, threshold |-> 1]
    BY DEF Repositories!Inventory!New, Repositories!Inventory!Quantities
  <1>. QED BY <1>1, InventoryTypes DEF InventoryOk, Repositories!Inventory!Agrees

LEMMA InventoryChange ==
  ASSUME NEW d, NEW e, InventoryOk(d, e), NEW f \in Repositories!Inventory!Change(e)
  PROVE  InventoryOk(d, f)
  <1>. DEFINE Stocked(q) == Repositories!Inventory!Restock(e, q) \cup Repositories!Inventory!Outbound(e, q)
                          \cup Repositories!Inventory!Reserve(e, q) \cup Repositories!Inventory!Unreserve(e, q)
  <1>1. ASSUME NEW q \in 1 .. MaxStock, f \in Stocked(q)
        PROVE  InventoryOk(d, f)
    <2>1. CASE f \in Repositories!Inventory!Restock(e, q)
      <3>1. e.quantity + q <= MaxStock /\ f = [e EXCEPT !.quantity = e.quantity + q]
        BY <2>1, InventoryTypes DEF Repositories!Inventory!Restock, Repositories!Inventory!When,
           Repositories!Inventory!Throws, InventoryOk
      <3>. QED BY <3>1, InventoryTypes DEF InventoryOk, Repositories!Inventory!Agrees
    <2>2. CASE f \in Repositories!Inventory!Outbound(e, q)
      <3>. DEFINE fromReserved == IF e.reserved < q THEN e.reserved ELSE q
      <3>1. /\ e.quantity - e.reserved >= q
            /\ f = [e EXCEPT !.quantity = e.quantity - q, !.reserved = e.reserved - fromReserved]
        BY <2>2, InventoryTypes DEF Repositories!Inventory!Outbound, Repositories!Inventory!When,
           Repositories!Inventory!Throws, Repositories!Inventory!Available, InventoryOk
      <3>2. /\ fromReserved \in 0 .. MaxStock /\ fromReserved <= e.reserved
            /\ e.quantity \in 0 .. MaxStock /\ e.reserved \in 0 .. MaxStock
        BY InventoryTypes DEF InventoryOk
      <3>. HIDE DEF fromReserved
      <3>3. e.quantity - q \in 0 .. MaxStock /\ e.reserved - fromReserved \in 0 .. MaxStock
            /\ e.reserved - fromReserved <= e.quantity - q
        BY <3>1, <3>2, InventoryTypes
      <3>. QED BY <3>1, <3>3, InventoryTypes DEF InventoryOk, Repositories!Inventory!Agrees
    <2>3. CASE f \in Repositories!Inventory!Reserve(e, q)
      <3>1. e.quantity - e.reserved >= q /\ f = [e EXCEPT !.reserved = e.reserved + q]
        BY <2>3, InventoryTypes DEF Repositories!Inventory!Reserve, Repositories!Inventory!When,
           Repositories!Inventory!Throws, Repositories!Inventory!Available, InventoryOk
      <3>. QED BY <3>1, InventoryTypes DEF InventoryOk, Repositories!Inventory!Agrees
    <2>4. CASE f \in Repositories!Inventory!Unreserve(e, q)
      <3>1. e.reserved >= q /\ f = [e EXCEPT !.reserved = e.reserved - q]
        BY <2>4, InventoryTypes DEF Repositories!Inventory!Unreserve, Repositories!Inventory!When,
           Repositories!Inventory!Throws, InventoryOk
      <3>. QED BY <3>1, InventoryTypes DEF InventoryOk, Repositories!Inventory!Agrees
    <2>. QED BY <1>1, <2>1, <2>2, <2>3, <2>4
  <1>2. ASSUME NEW t \in {0, 1}, f \in Repositories!Inventory!UpdateMinThreshold(e, t)
        PROVE  InventoryOk(d, f)
    <2>1. f = [e EXCEPT !.threshold = t]
      BY <1>2 DEF Repositories!Inventory!UpdateMinThreshold, Repositories!Inventory!When,
         Repositories!Inventory!Throws
    <2>. QED BY <2>1, InventoryTypes DEF InventoryOk, Repositories!Inventory!Agrees
  <1>3. Repositories!Inventory!Counts = 1 .. MaxStock
    BY InventoryTypes DEF Repositories!Inventory!Counts
  <1>4. \/ f \in UNION {Stocked(q) : q \in 1 .. MaxStock}
        \/ f \in UNION {Repositories!Inventory!UpdateMinThreshold(e, t) : t \in {0, 1}}
    BY <1>3 DEF Repositories!Inventory!Change
  <1>. HIDE DEF Stocked
  <1>. QED BY <1>1, <1>2, <1>4

\* A Quantity that is not negative, in the entity and in the row.
LEMMA InventorySaved ==
  ASSUME NEW d, NEW e, InventoryOk(d, e)
  PROVE  LET r == Repositories!Inventory!Columns(e)
         IN  InventoryRowOk(d, r) /\ Repositories!Inventory!ToDomain(r) = {e}
  <1>. DEFINE r == Repositories!Inventory!Columns(e)
  <1>1. r = [stock |-> e.quantity, reserved |-> e.reserved, threshold |-> e.threshold]
    BY DEF Repositories!Inventory!Columns
  <1>. HIDE DEF r
  <1>2. InventoryRowOk(d, r)
    BY <1>1, InventoryTypes DEF InventoryOk, InventoryRowOk, Repositories!Inventory!Agrees
  <1>3. e = [quantity |-> r.stock, reserved |-> r.reserved, threshold |-> r.threshold]
    BY <1>1, InventoryTypes DEF InventoryOk
  <1>4. r.stock \in 0 .. MaxStock /\ r.reserved \in 0 .. MaxStock
    BY <1>1, InventoryTypes DEF InventoryOk
  <1>5. Repositories!Inventory!ToDomain(r) = {e}
    BY <1>3, <1>4, InventoryTypes DEF Repositories!Inventory!ToDomain, Repositories!Inventory!When,
       Repositories!Inventory!Quantities
  <1>. QED BY <1>2, <1>5 DEF r

LEMMA InventoryLoaded ==
  ASSUME NEW d, NEW r, InventoryRowOk(d, r), NEW e \in Repositories!Inventory!ToDomain(r)
  PROVE  InventoryOk(d, e) /\ Repositories!Inventory!Columns(e) = r
  <1>1. /\ r.stock \in 0 .. MaxStock /\ r.reserved \in 0 .. MaxStock
        /\ e = [quantity |-> r.stock, reserved |-> r.reserved, threshold |-> r.threshold]
    BY InventoryTypes DEF Repositories!Inventory!ToDomain, Repositories!Inventory!When,
       Repositories!Inventory!Throws, Repositories!Inventory!Quantities
  <1>2. InventoryOk(d, e)
    BY <1>1, InventoryTypes DEF InventoryOk, InventoryRowOk, Repositories!Inventory!Agrees
  <1>3. r = [stock |-> e.quantity, reserved |-> e.reserved, threshold |-> e.threshold]
    BY <1>1, InventoryTypes DEF InventoryRowOk
  <1>. QED BY <1>2, <1>3 DEF Repositories!Inventory!Columns

LEMMA InventoryInserted ==
  ASSUME NEW r \in Repositories!Inventory!Inserted, NEW d
  PROVE  InventoryRowOk(d, r)
  <1>1. PICK q \in 0 .. MaxStock : r = [stock |-> q, reserved |-> 0, threshold |-> 1]
    BY DEF Repositories!Inventory!Inserted, Repositories!Inventory!Quantities
  <1>. QED BY <1>1, InventoryTypes DEF InventoryRowOk

LEMMA InventoryDirect ==
  ASSUME NEW d, NEW r, InventoryRowOk(d, r), NEW s \in Repositories!Inventory!Direct(r)
  PROVE  InventoryRowOk(TRUE, s)
  <1>1. \/ \E n \in -1 .. MaxStock : s = [r EXCEPT !.reserved = n]
        \/ \E q \in 0 .. MaxStock : s = [r EXCEPT !.stock = q]
    BY InventoryTypes DEF Repositories!Inventory!Direct, Repositories!Inventory!Quantities
  <1>. QED BY <1>1, InventoryTypes DEF InventoryRowOk

-----------------------------------------------------------------------------
(* Products.                                                                *)

ProductOk(e) == e \in Repositories!Product!Entities

ProductRowOk(r) ==
  /\ r \in [status : Repositories!Product!Status, retail : Prices \cup {0}, wholesale : {0, 1}, seasonal : BOOLEAN,
            certifications : SUBSET Repositories!Product!Certifications, origin : BOOLEAN]
  /\ Repositories!Product!Fits(r)

LEMMA ProductTypes ==
  Repositories!Product!Entities =
    [status : Repositories!Product!Status, retail : Prices, wholesale : {0, 1}, seasonal : BOOLEAN,
     certifications : SUBSET Repositories!Product!Certifications]
  BY Zenon DEF Repositories!Product!Entities, Repositories!Product!NoWholesale

LEMMA ProductNew ==
  ASSUME NEW e \in Repositories!Product!New
  PROVE  ProductOk(e)
  <1>1. PICK p \in Prices, w \in {0, 1}, s \in BOOLEAN, cs \in SUBSET Repositories!Product!Certifications :
          e = [status |-> "DRAFT", retail |-> p, wholesale |-> w, seasonal |-> s, certifications |-> cs]
    BY DEF Repositories!Product!New, Repositories!Product!Create,
       Repositories!Product!NoWholesale
  <1>. QED BY <1>1, ProductTypes DEF ProductOk, Repositories!Product!Status

LEMMA ProductChange ==
  ASSUME NEW e, ProductOk(e), NEW f \in Repositories!Product!Change(e)
  PROVE  ProductOk(f)
  <1>1. ASSUME NEW s \in Repositories!Product!Status, f = [e EXCEPT !.status = s]
        PROVE  ProductOk(f)
    BY <1>1, ProductTypes DEF ProductOk
  <1>2. CASE f \in Repositories!Product!UpdateInfo(e)
    BY <1>2 DEF Repositories!Product!UpdateInfo
  <1>3. CASE f \in Repositories!Product!UpdatePrice(e)
    <2>1. PICK p \in Prices, w \in {e.wholesale, 0, 1} : f \in Repositories!Product!SetPricing(e, p, w)
      BY <1>3 DEF Repositories!Product!UpdatePrice,
         Repositories!Product!NoWholesale
    <2>2. f = [e EXCEPT !.retail = p, !.wholesale = w]
      BY <2>1 DEF Repositories!Product!SetPricing, Repositories!Product!When, Repositories!Product!Throws
    <2>. QED BY <2>2, ProductTypes DEF ProductOk
  <1>4. CASE f \in Repositories!Product!UpdateStatus(e)
    BY <1>1, <1>4 DEF Repositories!Product!UpdateStatus, Repositories!Product!SetState
  <1>5. CASE f \in Repositories!Product!UpdateSeasonalInfo(e)
    <2>1. PICK s \in BOOLEAN : f = [e EXCEPT !.seasonal = s]
      BY <1>5 DEF Repositories!Product!UpdateSeasonalInfo, Repositories!Product!SetSeason
    <2>. QED BY <2>1, ProductTypes DEF ProductOk
  <1>6. CASE f \in Repositories!Product!AddCertification(e) \cup Repositories!Product!RemoveCertification(e)
    <2>1. PICK cs \in SUBSET Repositories!Product!Certifications : f = [e EXCEPT !.certifications = cs]
      BY <1>6, ProductTypes
      DEF Repositories!Product!AddCertification, Repositories!Product!RemoveCertification,
          Repositories!Product!Certify, Repositories!Product!Decertify, ProductOk
    <2>. QED BY <2>1, ProductTypes DEF ProductOk
  <1>7. CASE f \in Repositories!Product!Publish(e) \cup Repositories!Product!Unpublish(e)
                    \cup Repositories!Product!Approve(e) \cup Repositories!Product!Reject(e)
                    \cup Repositories!Product!MarkOutOfStock(e) \cup Repositories!Product!MarkInStock(e)
    BY <1>1, <1>7
    DEF Repositories!Product!Publish, Repositories!Product!Unpublish, Repositories!Product!Approve,
        Repositories!Product!Reject, Repositories!Product!MarkOutOfStock, Repositories!Product!MarkInStock,
        Repositories!Product!Move, Repositories!Product!When, Repositories!Product!Throws,
        Repositories!Product!Status
  <1>. QED
    BY <1>2, <1>3, <1>4, <1>5, <1>6, <1>7
    DEF Repositories!Product!Change, Repositories!Product!BulkUpdateStatus

LEMMA ProductSaved ==
  ASSUME NEW e, ProductOk(e)
  PROVE  ProductRowOk(Repositories!Product!Columns(e))
  <1>. DEFINE r == Repositories!Product!Columns(e)
  <1>1. r = [status |-> e.status, retail |-> e.retail, wholesale |-> e.wholesale, seasonal |-> e.seasonal,
             certifications |-> e.certifications, origin |-> TRUE]
    BY DEF Repositories!Product!Columns
  <1>. HIDE DEF r
  <1>2. ProductRowOk(r)
    <2>1. e.retail \in Prices
      BY ProductTypes DEF ProductOk
    <2>2. \A p \in Prices : p > 0
      BY RecordsAssumption
    <2>. QED BY <1>1, <2>1, <2>2, ProductTypes DEF ProductOk, ProductRowOk, Repositories!Product!Fits
  <1>. QED BY <1>2 DEF r

LEMMA ProductLoaded ==
  ASSUME NEW r, ProductRowOk(r), NEW e \in Repositories!Product!ToDomain(r)
  PROVE  ProductOk(e)
  <1>1. /\ r.retail > 0
        /\ e = [status |-> r.status, retail |-> r.retail, wholesale |-> r.wholesale, seasonal |-> r.seasonal,
                certifications |-> r.certifications]
    BY DEF Repositories!Product!ToDomain, Repositories!Product!When, Repositories!Product!Throws,
       Repositories!Product!Reconstituted
  <1>. QED BY <1>1, ProductTypes DEF ProductOk, ProductRowOk

LEMMA ProductInserted ==
  ASSUME NEW r \in Repositories!Product!Inserted
  PROVE  ProductRowOk(r)
  <1>1. PICK p \in Prices \cup {0} : r = Repositories!Product!Draft(p)
    BY ProductTypes
    DEF Repositories!Product!Inserted, Repositories!Product!Duplicate, Repositories!Product!Columns
  <1>. QED
    BY <1>1
    DEF Repositories!Product!Draft, ProductRowOk, Repositories!Product!Fits, Repositories!Product!Public,
        Repositories!Product!Status, Repositories!Product!NoWholesale

-----------------------------------------------------------------------------
(* Carts.                                                                   *)

CartOk(e) == e \in Repositories!Cart!Entities

CartItems == [quantity : 1 .. MaxInCart, retail : Prices, wholesale : Prices \cup {0}]
CartOwners == [user : {"none", "u1", "u2"}, session : BOOLEAN]
EmptyCart == [quantity |-> 0]

LEMMA CartTypes ==
  /\ Repositories!Cart!Items = CartItems
  /\ Repositories!Cart!NoItem = EmptyCart
  /\ EmptyCart \notin CartItems
  /\ \A e : CartOk(e) <=> /\ e \in [owner : CartOwners, item : CartItems \cup {EmptyCart}]
                          /\ e.owner.user # "none" \/ e.owner.session
  <1>1. Repositories!Cart!Quantities = 1 .. MaxInCart
    BY DEF Repositories!Cart!Quantities
  <1>2. Repositories!Cart!Items = CartItems
    BY <1>1, Zenon DEF Repositories!Cart!Items, Repositories!Cart!None, CartItems
  <1>3. Repositories!Cart!NoItem = EmptyCart /\ EmptyCart \notin CartItems
    BY DEF Repositories!Cart!NoItem, EmptyCart, CartItems
  <1>4. Repositories!Cart!CartOwners = CartOwners
    BY DEF Repositories!Cart!CartOwners, CartOwners
  <1>. QED
    BY <1>2, <1>3, <1>4 DEF CartOk, Repositories!Cart!Entities, Repositories!Cart!Owned

LEMMA CartNew ==
  ASSUME NEW e \in Repositories!Cart!New
  PROVE  CartOk(e)
  BY DEF Repositories!Cart!New, CartOk

\* The methods about the item leave the owner, who keeps it the cart of somebody.
LEMMA CartChange ==
  ASSUME NEW e, CartOk(e), NEW f \in Repositories!Cart!Change(e)
  PROVE  CartOk(f)
  <1>1. /\ e \in [owner : CartOwners, item : CartItems \cup {EmptyCart}]
        /\ e.owner.user # "none" \/ e.owner.session
    BY CartTypes
  <1>2. ASSUME NEW item \in CartItems \cup {EmptyCart}, f = [e EXCEPT !.item = item]
        PROVE  CartOk(f)
    <2>1. f \in [owner : CartOwners, item : CartItems \cup {EmptyCart}] /\ f.owner = e.owner
      BY <1>1, <1>2
    <2>. QED BY <1>1, <2>1, CartTypes
  <1>3. ASSUME NEW q \in 1 .. MaxInCart, NEW p \in Prices, NEW w \in Prices \cup {0},
               f \in Repositories!Cart!AddItem(e, q, p, w), f.item.quantity <= MaxInCart
        PROVE  CartOk(f)
    <2>1. CASE e.item = EmptyCart
      <3>1. f = [e EXCEPT !.item = [quantity |-> q, retail |-> p, wholesale |-> w]]
        BY <1>3, <2>1, CartTypes DEF Repositories!Cart!AddItem
      <3>2. [quantity |-> q, retail |-> p, wholesale |-> w] \in CartItems
        BY DEF CartItems
      <3>. QED BY <1>2, <3>1, <3>2
    <2>2. CASE e.item # EmptyCart
      <3>. DEFINE item == [e.item EXCEPT !.quantity = e.item.quantity + q,
                                         !.wholesale = IF w = 0 THEN e.item.wholesale ELSE w]
      <3>1. e.item \in CartItems
        BY <1>1, <2>2
      <3>2. f = [e EXCEPT !.item = item]
        BY <1>1, <1>3, <2>2, <3>1, CartTypes
        DEF Repositories!Cart!AddItem, Repositories!Cart!None, CartItems
      <3>3. f.item = item
        BY <1>1, <3>2
      <3>4. item.quantity = e.item.quantity + q
        BY <3>1 DEF CartItems
      <3>5. e.item.quantity + q \in 1 .. MaxInCart
        BY <1>3, <3>1, <3>3, <3>4 DEF CartItems
      <3>6. item \in CartItems
        BY <3>1, <3>5 DEF CartItems
      <3>. QED BY <1>2, <3>2, <3>6
    <2>. QED BY <2>1, <2>2
  <1>4. ASSUME NEW p \in Prices, NEW w \in Prices \cup {0}, f \in Repositories!Cart!RefreshPrices(e, p, w)
        PROVE  CartOk(f)
    <2>1. CASE e.item = EmptyCart
      BY <1>4, <2>1, CartTypes DEF Repositories!Cart!RefreshPrices
    <2>2. CASE e.item # EmptyCart
      <3>. DEFINE item == [e.item EXCEPT !.retail = p, !.wholesale = w]
      <3>1. f = [e EXCEPT !.item = item]
        BY <1>1, <1>4, <2>2, CartTypes DEF Repositories!Cart!RefreshPrices
      <3>2. item \in CartItems
        BY <1>1, <2>2 DEF CartItems
      <3>. QED BY <1>2, <3>1, <3>2
    <2>. QED BY <2>1, <2>2
  <1>5. ASSUME NEW other \in CartItems \cup {EmptyCart}, f \in Repositories!Cart!MergeCart(e, other),
               f.item.quantity <= MaxInCart
        PROVE  CartOk(f)
    <2>1. CASE other = EmptyCart
      BY <1>5, <2>1, CartTypes DEF Repositories!Cart!MergeCart
    <2>2. CASE other # EmptyCart
      <3>1. f \in Repositories!Cart!AddItem(e, other.quantity, other.retail, other.wholesale)
        BY <1>5, <2>2, CartTypes DEF Repositories!Cart!MergeCart
      <3>2. other.quantity \in 1 .. MaxInCart /\ other.retail \in Prices /\ other.wholesale \in Prices \cup {0}
        BY <2>2 DEF CartItems
      <3>. QED BY <1>3, <1>5, <3>1, <3>2
    <2>. QED BY <2>1, <2>2
  <1>6. ASSUME NEW q \in 1 .. MaxInCart, f \in Repositories!Cart!UpdateItemQuantity(e, q)
        PROVE  CartOk(f)
    <2>. DEFINE item == [e.item EXCEPT !.quantity = q]
    <2>1. e.item # EmptyCart /\ f = [e EXCEPT !.item = item]
      BY <1>1, <1>6, CartTypes
      DEF Repositories!Cart!UpdateItemQuantity, Repositories!Cart!When, Repositories!Cart!Throws
    <2>2. item \in CartItems
      BY <1>1, <2>1 DEF CartItems
    <2>. QED BY <1>2, <2>1, <2>2
  <1>7. ASSUME f \in Repositories!Cart!RemoveItem(e) \cup Repositories!Cart!Clear(e)
        PROVE  CartOk(f)
    BY <1>2, <1>7, CartTypes
    DEF Repositories!Cart!RemoveItem, Repositories!Cart!Clear, Repositories!Cart!When, Repositories!Cart!Throws
  <1>8. ASSUME NEW u \in {"u1", "u2"}, f \in Repositories!Cart!AssignUser(e, u)
        PROVE  CartOk(f)
    <2>1. f = [e EXCEPT !.owner = [user |-> u, session |-> FALSE]]
      BY <1>8 DEF Repositories!Cart!AssignUser
    <2>2. f \in [owner : CartOwners, item : CartItems \cup {EmptyCart}] /\ f.owner.user = u
      BY <1>1, <2>1 DEF CartOwners
    <2>. QED BY <2>2, CartTypes
  <1>. DEFINE Priced == UNION {Repositories!Cart!AddItem(e, q, o[1], o[2])
                                 \cup Repositories!Cart!RefreshPrices(e, o[1], o[2]) :
                                 q \in Repositories!Cart!Quantities, o \in Repositories!Cart!Offers}
              Merged == UNION {Repositories!Cart!MergeCart(e, other) :
                                 other \in Repositories!Cart!Items \cup {Repositories!Cart!NoItem}}
              Recounted == UNION {Repositories!Cart!UpdateItemQuantity(e, q) : q \in Repositories!Cart!Quantities}
  <1>9. /\ Repositories!Cart!Quantities = 1 .. MaxInCart
        /\ Repositories!Cart!Offers = Prices \X (Prices \cup {0})
    BY DEF Repositories!Cart!Quantities, Repositories!Cart!Offers,
       Repositories!Cart!None
  <1>10. /\ \/ f \in Priced \/ f \in Merged \/ f \in Recounted
            \/ f \in Repositories!Cart!RemoveItem(e) \cup Repositories!Cart!Clear(e)
            \/ \E u \in {"u1", "u2"} : f \in Repositories!Cart!AssignUser(e, u)
         /\ f.item.quantity <= MaxInCart
    BY <1>9 DEF Repositories!Cart!Change
  <1>11. CASE f \in Priced
    <2>1. PICK q \in 1 .. MaxInCart, o \in Prices \X (Prices \cup {0}) :
            f \in Repositories!Cart!AddItem(e, q, o[1], o[2]) \cup Repositories!Cart!RefreshPrices(e, o[1], o[2])
      BY <1>9, <1>11
    <2>2. o[1] \in Prices /\ o[2] \in Prices \cup {0}
      OBVIOUS
    <2>. QED BY <1>3, <1>4, <1>10, <2>1, <2>2
  <1>12. CASE f \in Merged
    BY <1>5, <1>10, <1>12, CartTypes
  <1>13. CASE f \in Recounted
    BY <1>6, <1>9, <1>13
  <1>. QED BY <1>7, <1>8, <1>10, <1>11, <1>12, <1>13

LEMMA CartStored ==
  ASSUME NEW e
  PROVE  /\ Repositories!Cart!Columns(e) = e
         /\ CartOk(e) => Repositories!Cart!ToDomain(e) = {e}
         /\ \A f \in Repositories!Cart!ToDomain(e) : f = e
  BY DEF Repositories!Cart!Columns, Repositories!Cart!ToDomain, Repositories!Cart!When,
     Repositories!Cart!Throws, CartOk, Repositories!Cart!Entities

LEMMA CartInserted ==
  ASSUME NEW r \in Repositories!Cart!Inserted
  PROVE  CartOk(r)
  <1>1. PICK u \in {"u1", "u2"} : r = [owner |-> [user |-> u, session |-> FALSE], item |-> EmptyCart]
    BY CartTypes DEF Repositories!Cart!Inserted
  <1>2. r \in [owner : CartOwners, item : CartItems \cup {EmptyCart}] /\ r.owner.user = u
    BY <1>1 DEF CartOwners
  <1>. QED BY <1>2, CartTypes

\* The routes leave the owner, too.
LEMMA CartDirect ==
  ASSUME NEW r, CartOk(r), NEW s \in Repositories!Cart!Direct(r)
  PROVE  CartOk(s)
  <1>1. /\ r \in [owner : CartOwners, item : CartItems \cup {EmptyCart}]
        /\ r.owner.user # "none" \/ r.owner.session
    BY CartTypes
  <1>2. ASSUME NEW item \in CartItems \cup {EmptyCart}, s = [r EXCEPT !.item = item]
        PROVE  CartOk(s)
    <2>1. s \in [owner : CartOwners, item : CartItems \cup {EmptyCart}] /\ s.owner = r.owner
      BY <1>1, <1>2
    <2>. QED BY <1>1, <2>1, CartTypes
  <1>3. ASSUME NEW q \in 1 .. MaxInCart, NEW p \in Prices,
               s = Repositories!Cart!AddRow(r, q, p), s.item.quantity <= MaxInCart
        PROVE  CartOk(s)
    <2>1. CASE r.item = EmptyCart
      <3>1. s = [r EXCEPT !.item = [quantity |-> q, retail |-> p, wholesale |-> 0]]
        BY <1>3, <2>1, CartTypes DEF Repositories!Cart!AddRow, Repositories!Cart!None
      <3>2. [quantity |-> q, retail |-> p, wholesale |-> 0] \in CartItems
        BY DEF CartItems
      <3>. QED BY <1>2, <3>1, <3>2
    <2>2. CASE r.item # EmptyCart
      <3>. DEFINE item == [r.item EXCEPT !.quantity = r.item.quantity + q, !.retail = p]
      <3>1. r.item \in CartItems
        BY <1>1, <2>2
      <3>2. s = [r EXCEPT !.item = item]
        BY <1>1, <1>3, <2>2, <3>1, CartTypes DEF Repositories!Cart!AddRow, CartItems
      <3>3. s.item = item
        BY <1>1, <3>2
      <3>4. item.quantity = r.item.quantity + q
        BY <3>1 DEF CartItems
      <3>5. r.item.quantity + q \in 1 .. MaxInCart
        BY <1>3, <3>1, <3>3, <3>4 DEF CartItems
      <3>6. item \in CartItems
        BY <3>1, <3>5 DEF CartItems
      <3>. QED BY <1>2, <3>2, <3>6
    <2>. QED BY <2>1, <2>2
  <1>4. ASSUME NEW q \in 1 .. MaxInCart, s \in Repositories!Cart!UpdateItemQuantity(r, q)
        PROVE  CartOk(s)
    <2>. DEFINE item == [r.item EXCEPT !.quantity = q]
    <2>1. r.item # EmptyCart /\ s = [r EXCEPT !.item = item]
      BY <1>1, <1>4, CartTypes
      DEF Repositories!Cart!UpdateItemQuantity, Repositories!Cart!When, Repositories!Cart!Throws
    <2>2. item \in CartItems
      BY <1>1, <2>1 DEF CartItems
    <2>. QED BY <1>2, <2>1, <2>2
  <1>5. ASSUME s \in Repositories!Cart!Clear(r)
        PROVE  CartOk(s)
    BY <1>2, <1>5, CartTypes DEF Repositories!Cart!Clear
  <1>6. Repositories!Cart!Quantities = 1 .. MaxInCart
    BY DEF Repositories!Cart!Quantities
  <1>7. /\ \/ \E q \in 1 .. MaxInCart, p \in Prices : s = Repositories!Cart!AddRow(r, q, p)
           \/ \E q \in 1 .. MaxInCart : s \in Repositories!Cart!UpdateItemQuantity(r, q)
           \/ s \in Repositories!Cart!Clear(r)
        /\ s.item.quantity <= MaxInCart
    BY <1>6 DEF Repositories!Cart!Direct
  <1>. QED BY <1>3, <1>4, <1>5, <1>7

\* An item has a quantity and a price, by its type.
LEMMA CartAgrees ==
  ASSUME NEW e, CartOk(e)
  PROVE  Repositories!Cart!Agrees(e)
  <1>1. /\ e \in [owner : CartOwners, item : CartItems \cup {EmptyCart}]
        /\ e.owner.user # "none" \/ e.owner.session
    BY CartTypes
  <1>2. ASSUME e.item \in CartItems
        PROVE  e.item.quantity > 0 /\ Repositories!Cart!EffectivePrice(e.item) > 0
    <2>. DEFINE item == e.item
    <2>1. item.quantity \in 1 .. MaxInCart /\ item.retail \in Prices /\ item.wholesale \in Prices \cup {0}
      BY <1>2 DEF CartItems
    <2>2. \A p \in Prices : p \in Nat /\ p > 0
      BY RecordsAssumption
    <2>3. item.quantity > 0
      BY <2>1, RecordsAssumption
    <2>4. Repositories!Cart!EffectivePrice(item) \in Prices
      BY <2>1 DEF Repositories!Cart!EffectivePrice, Repositories!Cart!None
    <2>. QED BY <2>2, <2>3, <2>4
  <1>. QED BY <1>1, <1>2, CartTypes DEF Repositories!Cart!Agrees, Repositories!Cart!Owned

-----------------------------------------------------------------------------
(* What is loaded, left by a method and saved, of every kind.  d says whether *)
(* its columns may not fit: Loose.                                          *)

EntityOk(k, d, e) ==
  CASE k = "shipment"     -> ShipmentOk(e)
    [] k = "payment"      -> PaymentOk(e)
    [] k = "payout"       -> PayoutOk(d, e)
    [] k = "notification" -> NotificationOk(d, e)
    [] k = "inventory"    -> InventoryOk(d, e)
    [] k = "cart"         -> CartOk(e)
    [] k = "product"      -> ProductOk(e)
    [] OTHER              -> TRUE

RowOk(k, d, r) ==
  CASE k = "shipment"     -> ShipmentOk(r)
    [] k = "payment"      -> PaymentRowOk(r)
    [] k = "payout"       -> PayoutOk(d, r)
    [] k = "notification" -> NotificationRowOk(d, r)
    [] k = "inventory"    -> InventoryRowOk(d, r)
    [] k = "cart"         -> CartOk(r)
    [] k = "product"      -> ProductRowOk(r)
    [] OTHER              -> TRUE

\* A new entity is one of its kind.
LEMMA KindNew ==
  ASSUME NEW k \in Repositories!AllKinds, NEW d, NEW e \in Repositories!New(k)
  PROVE  EntityOk(k, d, e)
  <1>1. CASE k = "shipment"
    BY <1>1, ShipmentNew DEF EntityOk, Repositories!New
  <1>2. CASE k = "payment"
    BY <1>2 DEF EntityOk, Repositories!New
  <1>3. CASE k = "payout"
    BY <1>3, PayoutNew DEF EntityOk, Repositories!New
  <1>4. CASE k = "notification"
    BY <1>4, NotificationNew DEF EntityOk, Repositories!New
  <1>5. CASE k = "inventory"
    BY <1>5, InventoryNew DEF EntityOk, Repositories!New
  <1>6. CASE k = "cart"
    BY <1>6, CartNew DEF EntityOk, Repositories!New
  <1>7. CASE k = "product"
    BY <1>7, ProductNew DEF EntityOk, Repositories!New
  <1>8. CASE k \in {"user", "shop"}
    BY <1>8 DEF EntityOk, Repositories!New
  <1>. QED BY <1>1, <1>2, <1>3, <1>4, <1>5, <1>6, <1>7, <1>8 DEF Repositories!AllKinds

\* So is a row that a service inserts.
LEMMA KindInserted ==
  ASSUME NEW k \in Repositories!AllKinds, NEW d, NEW r \in Repositories!Inserted(k)
  PROVE  RowOk(k, d, r)
  <1>1. CASE k = "shipment"
    BY <1>1 DEF RowOk, Repositories!Inserted
  <1>2. CASE k = "payment"
    BY <1>2, PaymentInserted DEF RowOk, Repositories!Inserted
  <1>3. CASE k = "payout"
    BY <1>3, PayoutInserted DEF RowOk, Repositories!Inserted
  <1>4. CASE k = "notification"
    BY <1>4, NotificationInserted DEF RowOk, Repositories!Inserted
  <1>5. CASE k = "product"
    BY <1>5, ProductInserted DEF RowOk, Repositories!Inserted
  <1>6. CASE k = "inventory"
    BY <1>6, InventoryInserted DEF RowOk, Repositories!Inserted
  <1>7. CASE k = "cart"
    BY <1>7, CartInserted DEF RowOk, Repositories!Inserted
  <1>8. CASE k \in {"user", "shop"}
    BY <1>8 DEF RowOk, Repositories!Inserted
  <1>. QED BY <1>1, <1>2, <1>3, <1>4, <1>5, <1>6, <1>7, <1>8 DEF Repositories!AllKinds

\* A method leaves an entity, and moves its status along the table.
LEMMA KindChange ==
  ASSUME NEW k \in Repositories!AllKinds, NEW d, NEW e, EntityOk(k, d, e), NEW f \in Repositories!Change(k, e)
  PROVE  /\ EntityOk(k, d, f)
         /\ k \in Repositories!WithStatus => f.status \in {e.status} \cup Repositories!Moves(k)[e.status]
  <1>1. CASE k = "shipment"
    BY <1>1, ShipmentChange DEF EntityOk, Repositories!Change, Repositories!WithStatus, Repositories!Moves
  <1>2. CASE k = "payment"
    BY <1>2, PaymentChange DEF EntityOk, Repositories!Change, Repositories!WithStatus, Repositories!Moves
  <1>3. CASE k = "payout"
    BY <1>3, PayoutChange DEF EntityOk, Repositories!Change, Repositories!WithStatus, Repositories!Moves
  <1>4. CASE k = "notification"
    BY <1>4, NotificationChange DEF EntityOk, Repositories!Change, Repositories!WithStatus, Repositories!Moves
  <1>5. CASE k = "inventory"
    BY <1>5, InventoryChange DEF EntityOk, Repositories!Change, Repositories!WithStatus
  <1>6. CASE k = "cart"
    BY <1>6, CartChange DEF EntityOk, Repositories!Change, Repositories!WithStatus
  <1>7. CASE k = "product"
    BY <1>7, ProductChange DEF EntityOk, Repositories!Change, Repositories!WithStatus
  <1>8. CASE k \in {"user", "shop"}
    BY <1>8 DEF EntityOk, Repositories!Change, Repositories!WithStatus
  <1>. QED BY <1>1, <1>2, <1>3, <1>4, <1>5, <1>6, <1>7, <1>8 DEF Repositories!AllKinds

\* setState leaves one whose columns may not fit.
LEMMA KindForced ==
  ASSUME NEW k \in Repositories!AllKinds, NEW d, NEW e, EntityOk(k, d, e), NEW f \in Repositories!Force(k, e)
  PROVE  EntityOk(k, TRUE, f)
  <1>1. CASE k = "payout"
    BY <1>1, PayoutForced DEF EntityOk, Repositories!Force
  <1>2. CASE k = "notification"
    BY <1>2, NotificationForced DEF EntityOk, Repositories!Force
  <1>3. CASE k \notin {"payout", "notification"}
    BY <1>3 DEF Repositories!Force
  <1>. QED BY <1>1, <1>2, <1>3

\* No method leaves a settled status.
LEMMA KindSettled ==
  ASSUME NEW k \in Repositories!AllKinds, k \in Repositories!WithStatus, NEW s \in Repositories!SettledOf(k)
  PROVE  Repositories!Moves(k)[s] = {}
  <1>1. CASE k = "shipment"
    BY <1>1, ShipmentMoves
    DEF Repositories!WithStatus, Repositories!SettledOf, Repositories!Moves, Repositories!Shipment!Settled
  <1>2. CASE k = "payment"
    BY <1>2, PaymentMoves
    DEF Repositories!WithStatus, Repositories!SettledOf, Repositories!Moves, Repositories!Payment!Settled
  <1>3. CASE k = "payout"
    BY <1>3, PayoutMoves
    DEF Repositories!WithStatus, Repositories!SettledOf, Repositories!Moves, Repositories!Payout!Settled
  <1>4. CASE k = "notification"
    BY <1>4, NotificationMoves
    DEF Repositories!WithStatus, Repositories!SettledOf, Repositories!Moves, Repositories!Notification!Settled
  <1>5. CASE k \in {"inventory", "cart", "product", "user", "shop"}
    BY <1>5 DEF Repositories!WithStatus, Repositories!SettledOf, Repositories!Moves
  <1>. QED BY <1>1, <1>2, <1>3, <1>4, <1>5 DEF Repositories!AllKinds

\* A service leaves a row of the kind, and a settled one settled.
LEMMA KindDirect ==
  ASSUME NEW k \in Repositories!AllKinds, NEW d, NEW r, RowOk(k, d, r), NEW s \in Repositories!Direct(k, r)
  PROVE  /\ RowOk(k, d, s) \/ (k = "inventory" /\ RowOk(k, TRUE, s))
         /\ k \in Repositories!WithStatus /\ r.status \in Repositories!SettledOf(k) => s.status = r.status
  <1>1. CASE k = "shipment"
    BY <1>1 DEF RowOk, Repositories!Direct, Repositories!WithStatus
  <1>2. CASE k = "payment"
    BY <1>2, PaymentDirect
    DEF RowOk, Repositories!Direct, Repositories!WithStatus, Repositories!SettledOf,
        Repositories!Payment!Settled
  <1>3. CASE k = "payout"
    BY <1>3, PayoutDirect
    DEF RowOk, Repositories!Direct, Repositories!WithStatus, Repositories!SettledOf,
        Repositories!Payout!Settled
  <1>4. CASE k = "notification"
    BY <1>4, NotificationDirect
    DEF RowOk, Repositories!Direct, Repositories!WithStatus, Repositories!SettledOf,
        Repositories!Notification!Settled
  <1>5. CASE k = "inventory"
    BY <1>5, InventoryDirect DEF RowOk, Repositories!Direct, Repositories!WithStatus
  <1>6. CASE k = "cart"
    BY <1>6, CartDirect DEF RowOk, Repositories!Direct, Repositories!WithStatus
  <1>7. CASE k = "product"
    BY <1>7 DEF RowOk, Repositories!Direct, Repositories!WithStatus, Repositories!Product!Direct
  <1>8. CASE k \in {"user", "shop"}
    BY <1>8 DEF RowOk, Repositories!Direct, Repositories!WithStatus
  <1>. QED BY <1>1, <1>2, <1>3, <1>4, <1>5, <1>6, <1>7, <1>8 DEF Repositories!AllKinds

\* What is saved fits the columns, and is loaded again as it was.
LEMMA KindSaved ==
  ASSUME NEW k \in Repositories!AllKinds, NEW d, NEW e, EntityOk(k, d, e)
  PROVE  /\ RowOk(k, d, Repositories!Columns(k, e))
         /\ k \in Repositories!WithStatus => Repositories!Columns(k, e).status = e.status
         /\ k \in Repositories!Lossless => Repositories!ToDomain(k, Repositories!Columns(k, e)) = {e}
  <1>1. CASE k = "shipment"
    BY <1>1, ShipmentSaved
    DEF EntityOk, RowOk, Repositories!Columns, Repositories!WithStatus, Repositories!Lossless
  <1>2. CASE k = "payment"
    BY <1>2, PaymentSaved
    DEF EntityOk, RowOk, Repositories!Columns, Repositories!WithStatus, Repositories!Lossless,
        Repositories!ToDomain
  <1>3. CASE k = "payout"
    BY <1>3, PayoutSaved
    DEF EntityOk, RowOk, Repositories!Columns, Repositories!WithStatus, Repositories!Lossless
  <1>4. CASE k = "notification"
    BY <1>4, NotificationSaved
    DEF EntityOk, RowOk, Repositories!Columns, Repositories!WithStatus, Repositories!Lossless,
        Repositories!ToDomain
  <1>5. CASE k = "inventory"
    BY <1>5, InventorySaved
    DEF EntityOk, RowOk, Repositories!Columns, Repositories!WithStatus, Repositories!Lossless,
        Repositories!ToDomain
  <1>6. CASE k = "cart"
    BY <1>6, CartStored
    DEF EntityOk, RowOk, Repositories!Columns, Repositories!WithStatus, Repositories!Lossless,
        Repositories!ToDomain
  <1>7. CASE k = "product"
    BY <1>7, ProductSaved
    DEF EntityOk, RowOk, Repositories!Columns, Repositories!WithStatus, Repositories!Lossless
  <1>8. CASE k \in {"user", "shop"}
    BY <1>8 DEF EntityOk, RowOk, Repositories!Columns, Repositories!WithStatus, Repositories!Lossless
  <1>. QED BY <1>1, <1>2, <1>3, <1>4, <1>5, <1>6, <1>7, <1>8 DEF Repositories!AllKinds

\* What is loaded is an entity, and saving it writes the row as it was.
LEMMA KindLoaded ==
  ASSUME NEW k \in Repositories!AllKinds, NEW d, NEW r, RowOk(k, d, r), NEW e \in Repositories!ToDomain(k, r)
  PROVE  /\ EntityOk(k, d, e)
         /\ k \in Repositories!WithStatus => e.status = r.status
         /\ k \in Repositories!Lossless => Repositories!Columns(k, e) = r
  <1>1. CASE k = "shipment"
    BY <1>1
    DEF EntityOk, RowOk, Repositories!ToDomain, Repositories!WithStatus, Repositories!Lossless,
        Repositories!Shipment!ToDomain
  <1>2. CASE k = "payment"
    BY <1>2, PaymentLoaded
    DEF EntityOk, RowOk, Repositories!ToDomain, Repositories!WithStatus, Repositories!Lossless,
        Repositories!Columns
  <1>3. CASE k = "payout"
    BY <1>3, PayoutLoaded
    DEF EntityOk, RowOk, Repositories!ToDomain, Repositories!WithStatus, Repositories!Lossless
  <1>4. CASE k = "notification"
    BY <1>4, NotificationLoaded
    DEF EntityOk, RowOk, Repositories!ToDomain, Repositories!WithStatus, Repositories!Lossless,
        Repositories!Columns
  <1>5. CASE k = "inventory"
    BY <1>5, InventoryLoaded
    DEF EntityOk, RowOk, Repositories!ToDomain, Repositories!WithStatus, Repositories!Lossless,
        Repositories!Columns
  <1>6. CASE k = "cart"
    BY <1>6, CartStored
    DEF EntityOk, RowOk, Repositories!ToDomain, Repositories!WithStatus, Repositories!Lossless,
        Repositories!Columns
  <1>7. CASE k = "product"
    BY <1>7, ProductLoaded
    DEF EntityOk, RowOk, Repositories!ToDomain, Repositories!WithStatus, Repositories!Lossless
  <1>8. CASE k \in {"user", "shop"}
    BY <1>8 DEF EntityOk, RowOk, Repositories!ToDomain, Repositories!WithStatus, Repositories!Lossless
  <1>. QED BY <1>1, <1>2, <1>3, <1>4, <1>5, <1>6, <1>7, <1>8 DEF Repositories!AllKinds

\* Its columns fit its status, unless it is loose.
LEMMA KindAgrees ==
  ASSUME NEW k \in Repositories!AllKinds, NEW d, ~d, NEW e, EntityOk(k, d, e)
  PROVE  Repositories!Agrees(k, e)
  <1>1. CASE k = "shipment"
    BY <1>1 DEF EntityOk, Repositories!Agrees, ShipmentOk
  <1>2. CASE k = "payment"
    BY <1>2 DEF EntityOk, Repositories!Agrees, PaymentOk
  <1>3. CASE k = "payout"
    BY <1>3 DEF EntityOk, Repositories!Agrees, PayoutOk
  <1>4. CASE k = "notification"
    BY <1>4 DEF EntityOk, Repositories!Agrees, NotificationOk
  <1>5. CASE k = "inventory"
    BY <1>5 DEF EntityOk, Repositories!Agrees, InventoryOk
  <1>6. CASE k = "cart"
    BY <1>6, CartAgrees DEF EntityOk, Repositories!Agrees
  <1>7. CASE k \in {"product", "user", "shop"}
    BY <1>7 DEF EntityOk, Repositories!Agrees
  <1>. QED BY <1>1, <1>2, <1>3, <1>4, <1>5, <1>6, <1>7 DEF Repositories!AllKinds

\* What holds of a row that is not loose holds of any other.
LEMMA KindWritten ==
  ASSUME NEW k, NEW d, NEW b, d => b, NEW x
  PROVE  (EntityOk(k, d, x) => EntityOk(k, b, x)) /\ (RowOk(k, d, x) => RowOk(k, b, x))
  BY DEF EntityOk, RowOk, InventoryOk, InventoryRowOk, PayoutOk, NotificationOk, NotificationRowOk

-----------------------------------------------------------------------------
(* The inductive invariant.  A row and what a caller holds of it are of the  *)
(* kind; and who works alone on a settled row holds the status of the row.   *)

UpToDate(i, e) ==
  /\ kind \in Repositories!WithStatus
  /\ Repositories!Stored(i)
  /\ i \notin written \cup forced
  /\ record[i].status \in Repositories!SettledOf(kind)
  => e.status = record[i].status

RowInv(i) == Repositories!Stored(i) => RowOk(kind, Repositories!Loose(i), record[i])

HeldInv(c) ==
  held[c] # Repositories!Nothing =>
    /\ held[c] = [id |-> held[c].id, entity |-> held[c].entity]
    /\ held[c].id \in DOMAIN record
    /\ EntityOk(kind, Repositories!Loose(held[c].id), held[c].entity)
    /\ UpToDate(held[c].id, held[c].entity)

RecordsInv ==
  /\ kind \in Repositories!AllKinds
  /\ DOMAIN held = Callers
  /\ \A i \in DOMAIN record : RowInv(i)
  /\ \A c \in Callers : HeldInv(c)

LEMMA RecordsInit ==
  ASSUME PartsInit
  PROVE  RecordsInv
  BY RecordsAssumption
  DEF PartsInit, Repositories!Init, RecordsInv, RowInv, HeldInv, Repositories!Stored

LEMMA TakeStep ==
  ASSUME RecordsInv, NEW c \in Callers, NEW i \in DOMAIN record, NEW e,
         EntityOk(kind, Repositories!Loose(i), e), UpToDate(i, e),
         Repositories!Take(c, i, e), UNCHANGED <<kind, record, deleted, direct, forced>>
  PROVE  RecordsInv'
  <1>1. /\ held' = [held EXCEPT ![c] = [id |-> i, entity |-> e]]
        /\ written \subseteq written'
    BY DEF Repositories!Take
  <1>2. DOMAIN held' = Callers
    BY <1>1 DEF RecordsInv
  <1>3. \A j \in DOMAIN record' : RowInv(j)'
    BY DEF RecordsInv, RowInv, Repositories!Stored, Repositories!Loose
  <1>4. ASSUME NEW j, NEW d, UpToDate(j, d)
        PROVE  UpToDate(j, d)'
    BY <1>1, <1>4 DEF UpToDate, Repositories!Stored
  <1>5. ASSUME NEW d \in Callers
        PROVE  HeldInv(d)'
    <2>1. CASE d = c
      <3>1. held'[d] = [id |-> i, entity |-> e]
        BY <1>1, <2>1 DEF RecordsInv
      <3>. QED BY <1>4, <3>1 DEF HeldInv, Repositories!Loose
    <2>2. CASE d # c
      <3>1. held'[d] = held[d] /\ HeldInv(d)
        BY <1>1, <2>2 DEF RecordsInv
      <3>. QED BY <1>4, <3>1 DEF HeldInv, Repositories!Loose
    <2>. QED BY <2>1, <2>2
  <1>. QED BY <1>2, <1>3, <1>5 DEF RecordsInv

LEMMA MethodStep ==
  ASSUME RecordsInv, NEW c \in Callers, Repositories!Call(c)
  PROVE  /\ RecordsInv'
         /\ held'[c].entity.status
              \in {held[c].entity.status} \cup Repositories!Moves(kind)[held[c].entity.status]
            \/ kind \notin Repositories!WithStatus
  <1>. DEFINE i == held[c].id
              e == held[c].entity
  <1>1. /\ held[c] # Repositories!Nothing
        /\ UNCHANGED <<kind, record, deleted, written, direct, forced>>
    BY DEF Repositories!Call
  <1>2. PICK f \in Repositories!Change(kind, e) : held' = [held EXCEPT ![c].entity = f]
    BY DEF Repositories!Call
  <1>3. HeldInv(c) /\ kind \in Repositories!AllKinds /\ DOMAIN held = Callers
    BY DEF RecordsInv
  <1>4. held[c] = [id |-> i, entity |-> e] /\ EntityOk(kind, Repositories!Loose(i), e) /\ UpToDate(i, e)
        /\ i \in DOMAIN record
    BY <1>1, <1>3 DEF HeldInv
  <1>5. /\ EntityOk(kind, Repositories!Loose(i), f)
        /\ kind \in Repositories!WithStatus => f.status \in {e.status} \cup Repositories!Moves(kind)[e.status]
    BY <1>3, <1>4, KindChange
  <1>6. held'[c] = [id |-> i, entity |-> f]
    BY <1>2, <1>3, <1>4
  <1>7. UpToDate(i, f)
    BY <1>3, <1>4, <1>5, KindSettled DEF UpToDate
  <1>8. ASSUME NEW d \in Callers
        PROVE  HeldInv(d)'
    <2>1. CASE d = c
      BY <1>1, <1>4, <1>5, <1>6, <1>7, <2>1 DEF HeldInv, UpToDate, Repositories!Stored, Repositories!Loose
    <2>2. CASE d # c
      <3>1. held'[d] = held[d] /\ HeldInv(d)
        BY <1>2, <1>3, <2>2 DEF RecordsInv
      <3>. QED BY <1>1, <3>1 DEF HeldInv, UpToDate, Repositories!Stored, Repositories!Loose
    <2>. QED BY <2>1, <2>2
  <1>9. \A j \in DOMAIN record' : RowInv(j)'
    BY <1>1 DEF RecordsInv, RowInv, Repositories!Stored, Repositories!Loose
  <1>10. DOMAIN held' = Callers
    BY <1>2, <1>3
  <1>. QED BY <1>1, <1>3, <1>5, <1>6, <1>8, <1>9, <1>10 DEF RecordsInv

LEMMA RowSaveStep ==
  ASSUME RecordsInv, NEW c \in Callers, Repositories!Save(c)
  PROVE  RecordsInv'
  <1>. DEFINE i == held[c].id
              e == held[c].entity
              r == Repositories!Columns(kind, e)
  <1>1. /\ held[c] # Repositories!Nothing
        /\ record' = [record EXCEPT ![i] = r]
        /\ written' = written \cup Repositories!HeldElsewhere(c, i)
        /\ held' = [held EXCEPT ![c] = Repositories!Nothing]
        /\ UNCHANGED <<kind, deleted, direct, forced>>
    BY DEF Repositories!Save
  <1>2. HeldInv(c) /\ kind \in Repositories!AllKinds /\ DOMAIN held = Callers
    BY DEF RecordsInv
  <1>3. EntityOk(kind, Repositories!Loose(i), e) /\ i \in DOMAIN record
    BY <1>1, <1>2 DEF HeldInv
  <1>4. RowOk(kind, Repositories!Loose(i), r)
    BY <1>2, <1>3, KindSaved
  <1>. HIDE DEF r
  <1>5. ASSUME NEW j \in DOMAIN record'
        PROVE  RowInv(j)'
    <2>1. CASE j = i
      BY <1>1, <1>3, <1>4, <2>1 DEF RowInv, Repositories!Loose
    <2>2. CASE j # i
      <3>1. record'[j] = record[j] /\ RowInv(j)
        BY <1>1, <2>2 DEF RecordsInv
      <3>. QED BY <1>1, <3>1 DEF RowInv, Repositories!Stored, Repositories!Loose
    <2>. QED BY <2>1, <2>2
  <1>6. ASSUME NEW d \in Callers
        PROVE  HeldInv(d)'
    <2>1. CASE d = c
      BY <1>1, <1>2, <2>1 DEF HeldInv
    <2>2. CASE d # c /\ held[d] # Repositories!Nothing
      <3>1. held'[d] = held[d] /\ HeldInv(d) /\ DOMAIN record' = DOMAIN record
        BY <1>1, <1>2, <2>2 DEF RecordsInv
      <3>2. CASE held[d].id = i
        <4>1. i \in written'
          BY <1>1, <2>2, <3>2 DEF Repositories!HeldElsewhere, Repositories!Holds
        <4>. QED BY <1>1, <2>2, <3>1, <3>2, <4>1 DEF HeldInv, UpToDate, Repositories!Loose
      <3>3. CASE held[d].id # i
        <4>1. record'[held[d].id] = record[held[d].id]
          BY <1>1, <2>2, <3>1, <3>3 DEF HeldInv
        <4>. QED BY <1>1, <2>2, <3>1, <4>1 DEF HeldInv, UpToDate, Repositories!Stored, Repositories!Loose
      <3>. QED BY <3>2, <3>3
    <2>3. CASE held[d] = Repositories!Nothing
      BY <1>1, <1>2, <2>3 DEF HeldInv
    <2>. QED BY <2>1, <2>2, <2>3
  <1>7. DOMAIN held' = Callers
    BY <1>1, <1>2
  <1>. QED BY <1>1, <1>2, <1>5, <1>6, <1>7 DEF RecordsInv

\* What a service writes, and whoever holds the row then has not seen it.
LEMMA DirectWriteStep ==
  ASSUME RecordsInv, NEW i \in DOMAIN record, NEW r,
         RowOk(kind, Repositories!Loose(i), r) \/ (kind = "inventory" /\ RowOk(kind, TRUE, r)),
         record' = [record EXCEPT ![i] = r], direct' = direct \cup {i}, written \subseteq written',
         \A d \in Callers : Repositories!Holds(d, i) => i \in written',
         UNCHANGED <<kind, deleted, held, forced>>
  PROVE  RecordsInv'
  <1>1. /\ \A j : Repositories!Loose(j) => Repositories!Loose(j)'
        /\ kind = "inventory" => Repositories!Loose(i)'
    BY DEF Repositories!Loose
  <1>2. ASSUME NEW j \in DOMAIN record'
        PROVE  RowInv(j)'
    <2>1. CASE j = i
      <3>1. record'[j] = r /\ RowOk(kind, Repositories!Loose(i)', r)
        BY <1>1, <2>1, KindWritten
      <3>. QED BY <2>1, <3>1 DEF RowInv, Repositories!Loose
    <2>2. CASE j # i
      <3>1. record'[j] = record[j] /\ RowInv(j)
        BY <2>2 DEF RecordsInv
      <3>2. Repositories!Stored(j) => RowOk(kind, Repositories!Loose(j)', record[j])
        BY <1>1, <3>1, KindWritten DEF RowInv
      <3>. QED BY <3>1, <3>2 DEF RowInv, Repositories!Stored
    <2>. QED BY <2>1, <2>2
  <1>3. ASSUME NEW d \in Callers, held[d] # Repositories!Nothing
        PROVE  HeldInv(d)'
    <2>1. HeldInv(d) /\ DOMAIN record' = DOMAIN record
      BY DEF RecordsInv
    <2>2. EntityOk(kind, Repositories!Loose(held[d].id)', held[d].entity)
      BY <1>1, <1>3, <2>1, KindWritten DEF HeldInv
    <2>3. CASE held[d].id = i
      <3>1. i \in written'
        BY <1>3, <2>3 DEF Repositories!Holds
      <3>. QED BY <1>3, <2>1, <2>2, <2>3, <3>1 DEF HeldInv, UpToDate
    <2>4. CASE held[d].id # i
      <3>1. record'[held[d].id] = record[held[d].id]
        BY <1>3, <2>1, <2>4 DEF HeldInv
      <3>. QED BY <1>3, <2>1, <2>2, <3>1 DEF HeldInv, UpToDate, Repositories!Stored
    <2>. QED BY <2>3, <2>4
  <1>. QED BY <1>2, <1>3 DEF RecordsInv, HeldInv

\* After setState nothing is said of the id any more but its types.
LEMMA ForcedStep ==
  ASSUME RecordsInv, NEW c \in Callers, Repositories!SetState(c)
  PROVE  RecordsInv' /\ Repositories!KeepsSettled
  <1>. DEFINE i == held[c].id
  <1>1. /\ held[c] # Repositories!Nothing
        /\ forced' = forced \cup {i}
        /\ UNCHANGED <<kind, record, deleted, written, direct>>
    BY DEF Repositories!SetState
  <1>2. PICK f \in Repositories!Force(kind, held[c].entity) : held' = [held EXCEPT ![c].entity = f]
    BY DEF Repositories!SetState
  <1>3. HeldInv(c) /\ kind \in Repositories!AllKinds /\ DOMAIN held = Callers
    BY DEF RecordsInv
  <1>4. held[c] = [id |-> i, entity |-> held[c].entity] /\ i \in DOMAIN record
    BY <1>1, <1>3 DEF HeldInv
  <1>5. EntityOk(kind, TRUE, f)
    BY <1>1, <1>3, KindForced DEF HeldInv
  <1>6. held'[c] = [id |-> i, entity |-> f]
    BY <1>2, <1>3, <1>4
  <1>7. \A j : Repositories!Loose(j) => Repositories!Loose(j)'
    BY <1>1 DEF Repositories!Loose
  <1>8. Repositories!Loose(held[c].id)' /\ i \in forced'
    BY <1>1, <1>6 DEF Repositories!Loose
  <1>9. ASSUME NEW j \in DOMAIN record'
        PROVE  RowInv(j)'
    <2>1. RowInv(j)
      BY <1>1, <1>9 DEF RecordsInv
    <2>2. Repositories!Stored(j) => RowOk(kind, Repositories!Loose(j)', record[j])
      BY <1>7, <2>1, KindWritten DEF RowInv
    <2>. QED BY <1>1, <2>2 DEF RowInv, Repositories!Stored
  <1>10. ASSUME NEW d \in Callers
        PROVE  HeldInv(d)'
    <2>1. CASE d = c
      <3>1. EntityOk(kind, Repositories!Loose(held[c].id)', f)
        BY <1>5, <1>8, KindWritten
      <3>. QED BY <1>1, <1>4, <1>6, <1>8, <2>1, <3>1 DEF HeldInv, UpToDate
    <2>2. CASE d # c
      <3>1. held'[d] = held[d] /\ HeldInv(d)
        BY <1>2, <1>3, <2>2 DEF RecordsInv
      <3>2. held[d] # Repositories!Nothing
            => EntityOk(kind, Repositories!Loose(held[d].id)', held[d].entity)
        BY <1>7, <3>1, KindWritten DEF HeldInv
      <3>. QED BY <1>1, <3>1, <3>2 DEF HeldInv, UpToDate, Repositories!Stored
    <2>. QED BY <2>1, <2>2
  <1>11. DOMAIN held' = Callers
    BY <1>2, <1>3
  <1>12. Repositories!MovesAlong
    <2>1. \A d \in Callers \ {c} : held'[d] = held[d]
      BY <1>2, <1>3
    <2>. QED BY <1>8, <2>1 DEF Repositories!MovesAlong
  <1>13. Repositories!SettledKept
    BY <1>1 DEF Repositories!SettledKept
  <1>. QED BY <1>1, <1>3, <1>9, <1>10, <1>11, <1>12, <1>13 DEF RecordsInv, Repositories!KeepsSettled

\* Every action of a caller that loads or makes an entity.
LEMMA Loads ==
  ASSUME RecordsInv, NEW c \in Callers, NEW i \in DOMAIN record,
         Repositories!Create(c, i) \/ Repositories!FindById(c, i) \/ Repositories!FindInList(c, i)
  PROVE  RecordsInv' /\ Repositories!Idle(c) /\ UNCHANGED <<kind, record>>
         /\ \E e : Repositories!Take(c, i, e)
  <1>1. kind \in Repositories!AllKinds /\ RowInv(i)
    BY DEF RecordsInv
  <1>2. CASE Repositories!Create(c, i)
    <2>1. PICK e \in Repositories!New(kind) : Repositories!Take(c, i, e)
      BY <1>2 DEF Repositories!Create
    <2>2. UNCHANGED <<kind, record, deleted, direct, forced>> /\ ~Repositories!Stored(i) /\ Repositories!Idle(c)
      BY <1>2 DEF Repositories!Create
    <2>3. EntityOk(kind, Repositories!Loose(i), e)
      BY <1>1, KindNew
    <2>4. UpToDate(i, e)
      BY <2>2 DEF UpToDate
    <2>5. RecordsInv'
      BY <2>1, <2>2, <2>3, <2>4, TakeStep
    <2>. QED BY <2>1, <2>2, <2>5
  <1>3. CASE Repositories!FindById(c, i) \/ Repositories!FindInList(c, i)
    <2>1. PICK e \in Repositories!ToDomain(kind, record[i]) : Repositories!Take(c, i, e)
      BY <1>3 DEF Repositories!FindById, Repositories!FindInList
    <2>2. UNCHANGED <<kind, record, deleted, direct, forced>> /\ Repositories!Stored(i) /\ Repositories!Idle(c)
      BY <1>3 DEF Repositories!FindById, Repositories!FindInList, Repositories!Live
    <2>3. /\ EntityOk(kind, Repositories!Loose(i), e)
          /\ kind \in Repositories!WithStatus => e.status = record[i].status
      BY <1>1, <2>2, KindLoaded DEF RowInv
    <2>4. UpToDate(i, e)
      BY <2>3 DEF UpToDate
    <2>5. RecordsInv'
      BY <2>1, <2>2, <2>3, <2>4, TakeStep
    <2>. QED BY <2>1, <2>2, <2>5
  <1>. QED BY <1>2, <1>3

\* Nothing is held any more, or only which rows are deleted changes.
LEMMA RowsQuietStep ==
  ASSUME RecordsInv, UNCHANGED <<kind, record, written, direct, forced>>,
         \/ UNCHANGED held
         \/ \E c \in Callers : held' = [held EXCEPT ![c] = Repositories!Nothing]
  PROVE  RecordsInv' /\ Repositories!KeepsSettled
  <1>1. DOMAIN held' = Callers
    BY DEF RecordsInv
  <1>2. \A d \in Callers : held'[d] = held[d] \/ held'[d] = Repositories!Nothing
    BY DEF RecordsInv
  <1>3. \A i \in DOMAIN record' : RowInv(i)'
    BY DEF RecordsInv, RowInv, Repositories!Stored, Repositories!Loose
  <1>4. ASSUME NEW d \in Callers
        PROVE  HeldInv(d)'
    <2>1. HeldInv(d)
      BY DEF RecordsInv
    <2>. QED BY <1>2, <2>1 DEF HeldInv, UpToDate, Repositories!Stored, Repositories!Loose
  <1>5. Repositories!KeepsSettled
    BY <1>2 DEF Repositories!KeepsSettled, Repositories!MovesAlong, Repositories!SettledKept
  <1>. QED BY <1>1, <1>3, <1>4, <1>5 DEF RecordsInv

\* A service writes a row; a caller who holds it has not seen that.
LEMMA ServiceStep ==
  ASSUME RecordsInv, NEW i \in DOMAIN record,
         Repositories!ServiceInserts(i) \/ Repositories!ServiceWrites(i)
  PROVE  RecordsInv' /\ Repositories!KeepsSettled
  <1>1. kind \in Repositories!AllKinds /\ RowInv(i) /\ DOMAIN held = Callers
    BY DEF RecordsInv
  <1>2. PICK r : /\ RowOk(kind, Repositories!Loose(i), r) \/ (kind = "inventory" /\ RowOk(kind, TRUE, r))
                 /\ record' = [record EXCEPT ![i] = r]
                 /\ kind \in Repositories!WithStatus /\ Repositories!Stored(i)
                      /\ record[i].status \in Repositories!SettledOf(kind)
                    => r.status = record[i].status
    <2>1. CASE Repositories!ServiceInserts(i)
      BY <1>1, <2>1, KindInserted DEF Repositories!ServiceInserts
    <2>2. CASE Repositories!ServiceWrites(i)
      <3>1. PICK r \in Repositories!Direct(kind, record[i]) : record' = [record EXCEPT ![i] = r]
        BY <2>2 DEF Repositories!ServiceWrites
      <3>2. RowOk(kind, Repositories!Loose(i), record[i])
        BY <1>1, <2>2 DEF RowInv, Repositories!ServiceWrites
      <3>. QED BY <1>1, <3>1, <3>2, KindDirect
    <2>. QED BY <2>1, <2>2
  <1>3. /\ direct' = direct \cup {i}
        /\ written \subseteq written'
        /\ \A d \in Callers : Repositories!Holds(d, i) => i \in written'
        /\ UNCHANGED <<kind, deleted, held, forced>>
    BY DEF Repositories!ServiceInserts, Repositories!ServiceWrites
  <1>4. RecordsInv'
    BY <1>2, <1>3, DirectWriteStep
  <1>5. Repositories!MovesAlong
    BY <1>3 DEF Repositories!MovesAlong
  <1>6. kind \in Repositories!WithStatus => Repositories!SettledKept
    BY <1>2 DEF Repositories!SettledKept
  <1>. QED BY <1>4, <1>5, <1>6 DEF Repositories!KeepsSettled

LEMMA LoadKeeps ==
  ASSUME RecordsInv, NEW c \in Callers, NEW i, NEW e, Repositories!Idle(c),
         Repositories!Take(c, i, e), UNCHANGED <<kind, record>>
  PROVE  Repositories!KeepsSettled
  <1>1. held' = [held EXCEPT ![c] = [id |-> i, entity |-> e]] /\ DOMAIN held = Callers
    BY DEF Repositories!Take, RecordsInv
  <1>2. \A d \in Callers : held[d] = Repositories!Nothing \/ held'[d] = held[d]
    BY <1>1 DEF Repositories!Idle
  <1>3. Repositories!MovesAlong
    BY <1>2 DEF Repositories!MovesAlong
  <1>4. Repositories!SettledKept
    BY DEF Repositories!SettledKept
  <1>. QED BY <1>3, <1>4 DEF Repositories!KeepsSettled

LEMMA MethodKeeps ==
  ASSUME RecordsInv, NEW c \in Callers, Repositories!Call(c)
  PROVE  Repositories!KeepsSettled
  <1>1. DOMAIN held = Callers /\ UNCHANGED <<kind, record>>
    BY DEF RecordsInv, Repositories!Call
  <1>2. \A d \in Callers \ {c} : held'[d] = held[d]
    BY <1>1 DEF Repositories!Call
  <1>3. kind \in Repositories!WithStatus => Repositories!MovesAlong
    BY <1>2, MethodStep DEF Repositories!MovesAlong
  <1>4. Repositories!SettledKept
    BY <1>1 DEF Repositories!SettledKept
  <1>. QED BY <1>3, <1>4 DEF Repositories!KeepsSettled

\* Who saves a settled row holds its status, if nobody wrote in between.
LEMMA RowSaveKeeps ==
  ASSUME RecordsInv, NEW c \in Callers, Repositories!Save(c)
  PROVE  Repositories!KeepsSettled
  <1>. DEFINE i == held[c].id
              e == held[c].entity
              r == Repositories!Columns(kind, e)
  <1>1. /\ held[c] # Repositories!Nothing
        /\ record' = [record EXCEPT ![i] = r]
        /\ written \subseteq written'
        /\ held' = [held EXCEPT ![c] = Repositories!Nothing]
        /\ kind' = kind /\ forced' = forced
    BY DEF Repositories!Save
  <1>2. HeldInv(c) /\ kind \in Repositories!AllKinds /\ DOMAIN held = Callers
    BY DEF RecordsInv
  <1>3. EntityOk(kind, Repositories!Loose(i), e) /\ i \in DOMAIN record /\ UpToDate(i, e)
    BY <1>1, <1>2 DEF HeldInv
  <1>4. kind \in Repositories!WithStatus => r.status = e.status
    BY <1>2, <1>3, KindSaved
  <1>5. \A d \in Callers : held'[d] = held[d] \/ held'[d] = Repositories!Nothing
    BY <1>1, <1>2
  <1>6. Repositories!MovesAlong
    BY <1>5 DEF Repositories!MovesAlong
  <1>. HIDE DEF r
  <1>7. kind \in Repositories!WithStatus => Repositories!SettledKept
    BY <1>1, <1>3, <1>4 DEF Repositories!SettledKept, UpToDate
  <1>. QED BY <1>6, <1>7 DEF Repositories!KeepsSettled

LEMMA RecordsStep ==
  ASSUME RecordsInv, Repositories!Next
  PROVE  RecordsInv' /\ Repositories!KeepsSettled
  <1>1. CASE \E c \in Callers, i \in DOMAIN record :
               Repositories!Create(c, i) \/ Repositories!FindById(c, i) \/ Repositories!FindInList(c, i)
    BY <1>1, Loads, LoadKeeps
  <1>2. CASE \E c \in Callers : Repositories!Call(c)
    BY <1>2, MethodStep, MethodKeeps
  <1>3. CASE \E c \in Callers : Repositories!Save(c)
    BY <1>3, RowSaveStep, RowSaveKeeps
  <1>4. CASE \E c \in Callers : Repositories!GiveUp(c)
    BY <1>4, RowsQuietStep DEF Repositories!GiveUp
  <1>5. CASE \E i \in DOMAIN record :
               Repositories!Delete(i) \/ Repositories!SuspendShop(i) \/ Repositories!Restore(i)
    BY <1>5, RowsQuietStep DEF Repositories!Delete, Repositories!SuspendShop, Repositories!Restore
  <1>6. CASE \E i \in DOMAIN record : Repositories!ServiceInserts(i) \/ Repositories!ServiceWrites(i)
    BY <1>6, ServiceStep
  <1>7. CASE \E c \in Callers : Repositories!SetState(c)
    BY <1>7, ForcedStep
  <1>. QED
    BY <1>1, <1>2, <1>3, <1>4, <1>5, <1>6, <1>7 DEF Repositories!Next

LEMMA RecordsPartsStep ==
  ASSUME RecordsInv, [PartsNext]_<<part, vars, records, books>>
  PROVE  RecordsInv' /\ [Repositories!KeepsSettled]_records
  <1>1. CASE RecordsNext
    BY <1>1, RecordsStep DEF RecordsNext
  <1>2. CASE UNCHANGED records
    <2>1. UNCHANGED <<kind, record, written, direct, forced>> /\ UNCHANGED held
      BY <1>2 DEF records
    <2>. QED BY <1>2, <2>1, RowsQuietStep
  <1>. QED
    BY <1>1, <1>2 DEF PartsNext, OrdersNext, LedgerNext

LEMMA RecordsAgree ==
  ASSUME RecordsInv
  PROVE  RowsAgree
  <1>1. kind \in Repositories!AllKinds
    BY DEF RecordsInv
  <1>2. ASSUME NEW i \in DOMAIN record, Repositories!Stored(i)
        PROVE  RowOk(kind, Repositories!Loose(i), record[i])
    BY <1>2 DEF RecordsInv, RowInv
  <1>3. Repositories!ColumnsFit
    <2>1. ASSUME NEW i \in DOMAIN record, Repositories!Stored(i), ~Repositories!Loose(i)
          PROVE  /\ \A e \in Repositories!ToDomain(kind, record[i]) : Repositories!Agrees(kind, e)
                 /\ kind = "product" => Repositories!Product!Fits(record[i])
      <3>1. \A e \in Repositories!ToDomain(kind, record[i]) : Repositories!Agrees(kind, e)
        BY <1>1, <1>2, <2>1, KindLoaded, KindAgrees
      <3>2. kind = "product" => Repositories!Product!Fits(record[i])
        BY <1>2, <2>1 DEF RowOk, ProductRowOk
      <3>. QED BY <3>1, <3>2
    <2>. QED BY <2>1 DEF Repositories!ColumnsFit
  <1>4. Repositories!RoundTrip
    <2>1. ASSUME NEW c \in Callers, held[c] # Repositories!Nothing, kind \in Repositories!Lossless
          PROVE  Repositories!ToDomain(kind, Repositories!Columns(kind, held[c].entity)) = {held[c].entity}
      <3>1. EntityOk(kind, Repositories!Loose(held[c].id), held[c].entity)
        BY <2>1 DEF RecordsInv, HeldInv
      <3>. QED BY <1>1, <2>1, <3>1, KindSaved
    <2>2. ASSUME NEW i \in DOMAIN record, Repositories!Stored(i), kind \in Repositories!Lossless,
                 NEW e \in Repositories!ToDomain(kind, record[i])
          PROVE  Repositories!Columns(kind, e) = record[i]
      BY <1>1, <1>2, <2>2, KindLoaded
    <2>. QED BY <2>1, <2>2 DEF Repositories!RoundTrip
  <1>. QED BY <1>3, <1>4 DEF RowsAgree, Repositories!RowsAgree

(* However many callers load rows, call methods of the entities and save      *)
(* them, while services write the same rows: every row has the columns that  *)
(* fit its status, unless it is loose, and what is saved is loaded again as   *)
(* it was.                                                                  *)
THEOREM RowsAlwaysAgree == PartsSpec => []RowsAgree
  <1>1. PartsInit => RecordsInv
    BY RecordsInit
  <1>2. RecordsInv /\ [PartsNext]_<<part, vars, records, books>> => RecordsInv'
    BY RecordsPartsStep
  <1>3. RecordsInv => RowsAgree
    BY RecordsAgree
  <1>. QED BY <1>1, <1>2, <1>3, PTL DEF PartsSpec

(* And a status moves along the table of its value object, in memory and in  *)
(* the row, and a settled row keeps its status, as long as nobody else wrote *)
(* it while a caller worked on its entity and nobody called setState.        *)
THEOREM SettledAlwaysStays == PartsSpec => SettledStays
  <1>1. PartsInit => RecordsInv
    BY RecordsInit
  <1>2. RecordsInv /\ [PartsNext]_<<part, vars, records, books>>
        => RecordsInv' /\ [Repositories!KeepsSettled]_records
    BY RecordsPartsStep
  <1>. QED BY <1>1, <1>2, PTL DEF PartsSpec, SettledStays
=============================================================================
