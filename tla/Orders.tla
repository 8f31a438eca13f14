------------------------------- MODULE Orders -------------------------------
(***************************************************************************)
(* What happens to an order after it was created: the Order entity, the     *)
(* OrderPrismaRepository, the use cases of the order module, and the routes *)
(* of OrdersService that call them.                                         *)
(*                                                                         *)
(* A use case loads the entity, calls a method of it and saves every column *)
(* again, without a lock or a version.  PaymentsService writes the payment  *)
(* status of an order as well, in one transaction; of it only what it does  *)
(* to these two columns is here.                                            *)
(*                                                                         *)
(* The orders are those of CreateOrderUseCase and those of a checkout       *)
(* (FromCheckout), whose address has another form.                          *)
(***************************************************************************)
EXTENDS Integers, Aggregate

CONSTANTS
    Orders,      \* ids of the orders
    Calls,       \* requests; each is made at most once (a bound)
    Goals,       \* statuses asked of updateOrderStatus
    Outcomes,    \* payment statuses asked of updatePaymentStatus
    Lines,       \* the item of a new order
    FromCheckout, \* orders that a checkout made
    Covered      \* orders that are items of the payment

OrderStatus == {"PENDING", "CONFIRMED", "PROCESSING", "SHIPPED", "DELIVERED",
                "CANCELLED", "REFUNDED"}
PaymentStatus == {"PENDING", "SUCCEEDED", "FAILED", "REFUNDED"}
LineRecords == [quantity : Nat \ {0}, retail : Nat, wholesale : Nat]

ASSUME OrdersAssumption ==
    /\ Goals \subseteq OrderStatus
    /\ Outcomes \subseteq PaymentStatus
    /\ Lines \subseteq LineRecords
    /\ FromCheckout \subseteq Orders
    /\ Covered \subseteq Orders

VARIABLES
    row,         \* the order rows, with their item
    payment,     \* status of the payment whose items are Covered
    call,        \* the requests
    was,         \* history: the statuses an order has had in its row
    paid,        \* history: the orders that have been SUCCEEDED in their row
    told,        \* history: the statuses the events of an order announced
    overlapped,  \* history: the orders on which two requests have overlapped
    cut          \* history: the orders on which a request failed halfway

vars == <<row, payment, call, was, paid, told, overlapped, cut>>

-----------------------------------------------------------------------------
(* The Order entity.                                                        *)

\* Order.create, with what CreateOrderUseCase gives it: no shipping fee.
Create(line) ==
    LET sub == line.quantity * line.retail
    IN  [status |-> "PENDING", payment |-> "PENDING", intent |-> FALSE,
         address |-> "given", noted |-> FALSE, line |-> line,
         sub |-> sub, fee |-> 0, total |-> sub + 0]

CanBeCancelled(e) == e.status \in {"PENDING", "CONFIRMED"}

Final == {"CANCELLED", "DELIVERED", "REFUNDED"}

\* Mutated: the payment is not looked at.
MovesUnpaid(e, s) == e.status \notin Final /\ (s = "CANCELLED" => CanBeCancelled(e))

\* Mutated: a delivered order is not final.
MovesDelivered(e, s) ==
    /\ e.status \notin Final \ {"DELIVERED"}
    /\ s \in {"SHIPPED", "DELIVERED"} => e.payment = "SUCCEEDED"
    /\ s = "CANCELLED" => CanBeCancelled(e)

MayMove(e, s) ==
    /\ e.status \notin Final
    /\ s \in {"SHIPPED", "DELIVERED"} => e.payment = "SUCCEEDED"
    /\ s = "CANCELLED" => CanBeCancelled(e)

\* The three times it sets are no columns that save writes.
UpdateOrderStatus(e, s) == When(s = e.status \/ MayMove(e, s), [e EXCEPT !.status = s])

UpdatePaymentStatus(e, s) == When(e.status # "CANCELLED", [e EXCEPT !.payment = s])

SetPaymentIntent(e) == When(TRUE, [e EXCEPT !.intent = TRUE])

MarkPaymentSucceeded(e) ==
    When(e.payment = "PENDING", [e EXCEPT !.payment = "SUCCEEDED", !.intent = TRUE])

Ship(e) ==
    IF e.status \notin {"CANCELLED", "SHIPPED", "DELIVERED"} /\ e.payment = "SUCCEEDED"
    THEN UpdateOrderStatus(e, "SHIPPED")
    ELSE Throws

Deliver(e) == IF e.status = "SHIPPED" THEN UpdateOrderStatus(e, "DELIVERED") ELSE Throws

\* Mutated: an order that is on its way is left as it is, without an error.
CancelQuietly(e, reason) ==
    IF e.status \in {"CANCELLED", "DELIVERED", "SHIPPED"}
    THEN {e}
    ELSE {[f EXCEPT !.noted = @ \/ reason] : f \in UpdateOrderStatus(e, "CANCELLED")}

\* The reason is appended to the notes, unless the order was cancelled already.
Cancel(e, reason) ==
    CASE e.status = "CANCELLED" -> {e}
      [] e.status \in {"DELIVERED", "SHIPPED"} -> Throws
      [] OTHER -> {[f EXCEPT !.noted = @ \/ reason] : f \in UpdateOrderStatus(e, "CANCELLED")}

UpdateShippingAddress(e) ==
    When(e.status \notin {"SHIPPED", "DELIVERED", "CANCELLED"}, [e EXCEPT !.address = "changed"])

AddNote(e) == When(TRUE, [e EXCEPT !.noted = TRUE])

-----------------------------------------------------------------------------
(* OrderPrismaRepository.                                                   *)

NoRow == [status |-> "NONE"]

Rows == [status : OrderStatus, payment : PaymentStatus, intent : BOOLEAN,
         address : {"given", "changed", "flat"}, noted : BOOLEAN, line : LineRecords, total : Nat]

\* save: of the sums only the grand total, of the prices only the retail price.
Columns(e) ==
    [status |-> e.status, payment |-> e.payment, intent |-> e.intent,
     address |-> e.address, noted |-> e.noted,
     line |-> [e.line EXCEPT !.wholesale = 0], total |-> e.total]

\* Mutated: the address is taken as it is stored.
AsStored(a) == {a}

\* The address of a checkout has no stateProvince to read the code of.
Deserialized(a) == When(a # "flat", a)

\* mapToDomain: totalPrice is taken for the subtotal and the fee as well.
ToDomain(r) ==
    {[status |-> r.status, payment |-> r.payment, intent |-> r.intent,
      address |-> a, noted |-> r.noted, line |-> r.line,
      sub |-> r.total, fee |-> r.total, total |-> r.total] : a \in Deserialized(r.address)}

Stored(o) == row[o] # NoRow

FindById(o) == IF Stored(o) THEN ToDomain(row[o]) ELSE {}

-----------------------------------------------------------------------------
(* The use cases: what each does to the entity it has loaded.               *)

UseCases ==
    [use : {"updateOrderStatus"}, to : Goals]
    \cup [use : {"updatePaymentStatus"}, to : Outcomes, intent : BOOLEAN]
    \cup [use : {"cancel"}, reason : BOOLEAN]
    \cup [use : {"ship", "deliver", "updateShippingAddress", "markAsPaid", "addNote"}]

UpdatePaymentStatusUseCase(u, e) ==
    IF u.intent
    THEN Then(UpdatePaymentStatus(e, u.to), SetPaymentIntent)
    ELSE UpdatePaymentStatus(e, u.to)

Executed(u, e) ==
    CASE u.use = "updateOrderStatus"     -> UpdateOrderStatus(e, u.to)
      [] u.use = "updatePaymentStatus"   -> UpdatePaymentStatusUseCase(u, e)
      [] u.use = "ship"                  -> Ship(e)
      [] u.use = "deliver"               -> Deliver(e)
      [] u.use = "cancel"                -> Cancel(e, u.reason)
      [] u.use = "updateShippingAddress" -> UpdateShippingAddress(e)
      [] u.use = "markAsPaid"            -> MarkPaymentSucceeded(e)
      [] u.use = "addNote"               -> AddNote(e)

\* The statuses the events of a use case announce: they go by what was asked,
\* not by what changed.
Announced(u) ==
    CASE u.use = "updateOrderStatus" -> {u.to} \cap {"SHIPPED", "DELIVERED", "CANCELLED"}
      [] u.use = "ship"              -> {"SHIPPED"}
      [] u.use = "deliver"           -> {"DELIVERED"}
      [] u.use = "cancel"            -> {"CANCELLED"}
      [] OTHER                       -> {}

-----------------------------------------------------------------------------
(* A request: idle, then at the statement it is about to run, then done.    *)

Idle == [at |-> "idle"]
Done == [at |-> "done"]

Entities ==
    [status : OrderStatus, payment : PaymentStatus, intent : BOOLEAN,
     address : {"given", "changed"}, noted : BOOLEAN, line : LineRecords,
     sub : Nat, fee : Nat, total : Nat]

Requests ==
    {Idle, Done}
    \cup [at : {"create"}, order : Orders, entity : Entities]
    \cup [at : {"release"}, order : Orders]
    \cup [at : {"execute"}, order : Orders, u : UseCases, rest : {"tell", "payments"}]
    \cup [at : {"save"}, order : Orders, u : UseCases, rest : {"tell", "payments"}, entity : Entities]
    \cup [at : {"tell", "payments"}, order : Orders, u : UseCases]

TypeOK ==
    /\ row \in [Orders -> Rows \cup {NoRow}]
    /\ payment \in PaymentStatus \cup {"NONE"}
    /\ call \in [Calls -> Requests]
    /\ was \in [Orders -> SUBSET OrderStatus]
    /\ told \in [Orders -> SUBSET OrderStatus]
    /\ paid \subseteq Orders
    /\ overlapped \subseteq Orders
    /\ cut \subseteq Orders

\* The row a checkout inserts.
CheckoutRow(line) == [Columns(Create(line)) EXCEPT !.address = "flat"]

Init ==
    /\ \E line \in Lines :
          row = [o \in Orders |-> IF o \in FromCheckout THEN CheckoutRow(line) ELSE NoRow]
    /\ payment = "NONE"
    /\ call = [c \in Calls |-> Idle]
    /\ was = [o \in Orders |-> IF o \in FromCheckout THEN {"PENDING"} ELSE {}]
    /\ told = [o \in Orders |-> {}]
    /\ paid = {}
    /\ overlapped = {}
    /\ cut = {}

InFlight(c, o) == call[c] \notin {Idle, Done} /\ call[c].order = o
Busy(o) == \E c \in Calls : InFlight(c, o)

Goto(c, step) == call' = [call EXCEPT ![c] = step]
Return(c) == Goto(c, Done)

Begin(c, o, step) ==
    /\ call[c] = Idle
    /\ Goto(c, step)
    /\ overlapped' = overlapped \cup {p \in {o} : Busy(p)}

\* The row of o becomes r, for all to see.
Write(o, r) ==
    /\ row' = [row EXCEPT ![o] = r]
    /\ was' = [was EXCEPT ![o] = @ \cup {r.status}]
    /\ paid' = paid \cup {p \in {o} : r.payment = "SUCCEEDED"}

-----------------------------------------------------------------------------
CreateOrder(c, o, line) ==
    /\ ~Stored(o)
    /\ Begin(c, o, [at |-> "create", order |-> o, entity |-> Create(line)])
    /\ UNCHANGED <<row, payment, was, paid, told, cut>>

\* The OrderCreated event that follows changes nothing.
InsertOrder(c) ==
    /\ call[c].at = "create"
    /\ ~Stored(call[c].order)
    /\ Write(call[c].order, Columns(call[c].entity))
    /\ Return(c)
    /\ UNCHANGED <<payment, told, overlapped, cut>>

\* A use case is called by the code that holds it, or by the status route of a
\* seller, which adds no check of the status.
CallUseCase(c, o, u) ==
    /\ Stored(o)
    /\ Begin(c, o, [at |-> "execute", order |-> o, u |-> u, rest |-> "tell"])
    /\ UNCHANGED <<row, payment, was, paid, told, cut>>

\* The payment status route of a seller opens a transaction around the use case.
SellerUpdatesPaymentStatus(c, o, s) ==
    /\ Stored(o)
    /\ Begin(c, o, [at |-> "execute", order |-> o, rest |-> "payments",
                    u |-> [use |-> "updatePaymentStatus", to |-> s, intent |-> FALSE]])
    /\ UNCHANGED <<row, payment, was, paid, told, cut>>

\* cancelOrder: the check, and then a transaction that gives the stock back.
CancelOrder(c, o) ==
    /\ Stored(o)
    /\ row[o].status = "PENDING"
    /\ Begin(c, o, [at |-> "release", order |-> o])
    /\ UNCHANGED <<row, payment, was, paid, told, cut>>

\* The stock is not among these rows: what is given back is in Checkout.
ReleaseStock(c) ==
    LET o == call[c].order
    IN  /\ call[c].at = "release"
        /\ Goto(c, [at |-> "execute", order |-> o, rest |-> "tell",
                    u |-> [use |-> "cancel", reason |-> FALSE]])
        /\ UNCHANGED <<row, payment, was, paid, told, overlapped, cut>>

\* findById and the method of the entity.
Execute(c) ==
    LET o == call[c].order
        results == UNION {Executed(call[c].u, e) : e \in FindById(o)}
    IN  /\ call[c].at = "execute"
        /\ IF results = Throws
           THEN Return(c)
           ELSE \E e \in results :
                   Goto(c, [at |-> "save", order |-> o, u |-> call[c].u,
                            rest |-> call[c].rest, entity |-> e])
        /\ UNCHANGED <<row, payment, was, paid, told, overlapped, cut>>

\* save: the columns and the item rows in one transaction.
Save(c) ==
    /\ call[c].at = "save"
    /\ Write(call[c].order, Columns(call[c].entity))
    /\ Goto(c, [at |-> call[c].rest, order |-> call[c].order, u |-> call[c].u])
    /\ UNCHANGED <<payment, told, overlapped, cut>>

Publish(c) ==
    /\ call[c].at = "tell"
    /\ told' = [told EXCEPT ![call[c].order] = @ \cup Announced(call[c].u)]
    /\ Return(c)
    /\ UNCHANGED <<row, payment, was, paid, overlapped, cut>>

\* Mutated: the payments are left alone.
PaymentsLeft(o, s) == payment

\* updateMany takes every payment that has the order as an item, whatever its
\* status and whatever its other items.
PaymentsUpdated(o, s) == IF o \in Covered /\ payment # "NONE" THEN s ELSE payment

\* The other statement of the transaction of SellerUpdatesPaymentStatus.
UpdatePayments(c) ==
    /\ call[c].at = "payments"
    /\ payment' = PaymentsUpdated(call[c].order, call[c].u.to)
    /\ Return(c)
    /\ UNCHANGED <<row, was, paid, told, overlapped, cut>>

\* A statement fails or the process dies; what was committed stays.
Fail(c) ==
    /\ call[c] \notin {Idle, Done}
    /\ Return(c)
    /\ cut' = cut \cup {call[c].order}
    /\ UNCHANGED <<row, payment, was, paid, told, overlapped>>

-----------------------------------------------------------------------------
(* What PaymentsService does to these columns (see Payments).               *)

CreatePayment ==
    /\ payment = "NONE"
    /\ \A o \in Covered : Stored(o) /\ row[o].payment = "PENDING"
    /\ payment' = "PENDING"
    /\ UNCHANGED <<row, call, was, paid, told, overlapped, cut>>

\* One transaction; a request in flight may have loaded the order before it.
ApplyPaymentStatus(s) ==
    /\ payment = "PENDING"
    /\ payment' = s
    /\ row' = [o \in Orders |-> IF o \in Covered THEN [row[o] EXCEPT !.payment = s] ELSE row[o]]
    /\ paid' = paid \cup {o \in Covered : s = "SUCCEEDED"}
    /\ overlapped' = overlapped \cup {o \in Covered : Busy(o)}
    /\ UNCHANGED <<call, was, told, cut>>

Request(c, o) ==
    \/ \E line \in Lines : CreateOrder(c, o, line)
    \/ \E u \in UseCases : CallUseCase(c, o, u)
    \/ \E s \in Outcomes : SellerUpdatesPaymentStatus(c, o, s)
    \/ CancelOrder(c, o)

Step(c) ==
    \/ InsertOrder(c)
    \/ ReleaseStock(c)
    \/ Execute(c)
    \/ Save(c)
    \/ Publish(c)
    \/ UpdatePayments(c)

Next ==
    \/ \E c \in Calls, o \in Orders : Request(c, o)
    \/ \E c \in Calls : Step(c) \/ Fail(c)
    \/ CreatePayment
    \/ \E s \in {"SUCCEEDED", "FAILED"} : ApplyPaymentStatus(s)

Spec == Init /\ [][Next]_vars

-----------------------------------------------------------------------------
(* Order.updateOrderStatus and Order.cancel refuse to change a cancelled, a *)
(* delivered and a refunded order.  The rows keep to that as long as no two *)
(* requests on one order overlap.                                           *)
FinalKept ==
    [][\A o \in Orders :
          row[o].status \in Final /\ o \notin overlapped' => row'[o].status = row[o].status]_vars

(* Nothing is shipped or delivered that was never paid: the status was      *)
(* SUCCEEDED in the row that the method saw, whatever was saved since.      *)
ShippedWasPaid ==
    \A o \in Orders : was[o] \cap {"SHIPPED", "DELIVERED"} # {} => o \in paid

(* An event is published after the save: what it announces was true.        *)
NewsIsTrue == \A o \in Orders : told[o] \subseteq was[o]

(* updatePaymentStatus writes the order on one connection and the payments  *)
(* on another.  When its last statement has run, both say the same, unless  *)
(* another request was at work on the order.                                *)
PaymentFollows ==
    [][\A c \in Calls :
          LET o == call[c].order
          IN  /\ call[c].at = "payments" /\ call'[c] = Done /\ payment # "NONE"
              /\ o \in Covered /\ o \notin overlapped' \cup cut'
              => payment' = row'[o].payment]_vars

(* No request ever moves an order that a checkout made, or announces that    *)
(* it did: every use case throws where it loads the order, be the request a  *)
(* status of the seller, a shipment or a cancellation, and whatever other     *)
(* requests and payments do meanwhile.  So Checkout may leave these out.      *)
CheckoutOrdersStay ==
    \A o \in FromCheckout : row[o].status = "PENDING" /\ told[o] = {}
=============================================================================
