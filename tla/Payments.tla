------------------------------ MODULE Payments ------------------------------
(***************************************************************************)
(* PaymentsService: payments of orders, their settlement into the sellers'  *)
(* ledger accounts, and refunds.                                            *)
(*                                                                         *)
(* A handler is a slot of "request" that moves from one await to the next:  *)
(* every database call is a step of its own, what the call returned is kept *)
(* in the slot, and other handlers run in between.  A Prisma transaction is *)
(* one step when all it decides by is under its own row locks; the approval *)
(* of a refund decides by a balance it reads without a lock, so it is two   *)
(* steps that hold the row locks of the refund and of its order.            *)
(*                                                                         *)
(* A handler that fails (a database error, the process exiting) goes back   *)
(* to Idle from wherever it is; PostgreSQL drops its open transaction.      *)
(*                                                                         *)
(* The ledger desk writes to the same tables at any time, also under the    *)
(* ids of payments and refunds.                                             *)
(***************************************************************************)
EXTENDS LedgerBook

CONSTANTS
    Requests,   \* handlers that may be in flight at the same time
    Orders,     \* orders, each of one shop
    Payments,   \* ids of payment rows
    Refunds,    \* ids of refund rows
    Methods,    \* payment methods in use
    Seller,     \* owner of the shop of an order's items
    Buyer,      \* buyer of an order
    Price,      \* totalPrice of an order
    Basket      \* orders of the payment the checkout created with them, or {}

ASSUME PaymentsAssumption ==
    /\ IsFiniteSet(Orders)
    /\ Seller \in [Orders -> Owners]
    /\ Buyer \in [Orders -> Owners]
    /\ Price \in [Orders -> Nat \ {0}]
    /\ Basket \in [Payments -> SUBSET Orders]
    /\ \A p, q \in Payments : p # q => Basket[p] \cap Basket[q] = {}
    /\ Payments \cup Refunds \subseteq Txns
    /\ Payments \cap Refunds = {}

VARIABLES
    ledger,     \* the ledger tables
    order,      \* paymentStatus of every order
    payment,    \* payment rows
    refund,     \* refund rows
    request     \* handlers in flight

vars == <<ledger, order, payment, refund, request>>

PaymentStatus == {"PENDING", "SUCCEEDED", "FAILED", "REFUNDED"}
RefundStatus == {"REQUESTED", "APPROVED", "REJECTED", "REFUNDED"}

\* A row that has not been inserted has status NONE.
PaymentRows ==
    [status : PaymentStatus \cup {"NONE"}, items : SUBSET Orders,
     method : Methods, provider : {"STRIPE", "null"}]

NoRefund == [status |-> "NONE"]
RefundRows == [status : RefundStatus, order : Orders, amount : Nat]

Idle == [at |-> "idle"]
Handlers ==
    {Idle}
    \cup [at : {"create_check", "create_insert"}, orders : SUBSET Orders, method : Methods]
    \cup [at : {"settle"}, payment : Payments, status : PaymentStatus]
    \cup [at : {"refund_check", "refund_insert"}, order : Orders, amount : Nat]
    \cup [at : {"approve", "approve_commit", "reject"}, refund : Refunds]

TypeOK ==
    /\ ledger \in Ledgers
    /\ order \in [Orders -> PaymentStatus]
    /\ payment \in [Payments -> PaymentRows]
    /\ refund \in [Refunds -> RefundRows \cup {NoRefund}]
    /\ request \in [Requests -> Handlers]

\* The checkout has created the orders and, for those of one cart, a PENDING
\* payment: without a provider, whatever the method.
Init ==
    /\ ledger = EmptyLedger
    /\ order = [o \in Orders |-> "PENDING"]
    /\ \E m \in Methods :
          payment = [p \in Payments |->
                       [status   |-> IF Basket[p] = {} THEN "NONE" ELSE "PENDING",
                        items    |-> Basket[p],
                        method   |-> m,
                        provider |-> "null"]]
    /\ refund = [f \in Refunds |-> NoRefund]
    /\ request = [r \in Requests |-> Idle]

Goto(r, step) == request' = [request EXCEPT ![r] = step]
Return(r) == Goto(r, Idle)

-----------------------------------------------------------------------------
(* createPayment, also behind initiatePayment.                              *)

\* The orders are the caller's and none is paid or failed.
CreatePayment(r, os, m) ==
    /\ request[r] = Idle
    /\ os # {}
    /\ \A o, q \in os : Buyer[o] = Buyer[q]
    /\ \A o \in os : order[o] = "PENDING"
    /\ Goto(r, [at |-> "create_check", orders |-> os, method |-> m])
    /\ UNCHANGED <<ledger, order, payment, refund>>

\* Mutated: only a payment of exactly these orders is looked for.
ExactPayments(os) ==
    {p \in Payments : payment[p].status = "PENDING" /\ payment[p].items = os}

OpenPayments(os) ==
    {p \in Payments : payment[p].status = "PENDING" /\ payment[p].items \cap os # {}}

\* A pending payment of exactly these orders is returned, one of some of them
\* is an error; either way the handler ends and writes nothing.
FindPendingPayments(r) ==
    /\ request[r].at = "create_check"
    /\ Goto(r, IF OpenPayments(request[r].orders) = {}
               THEN [request[r] EXCEPT !.at = "create_insert"]
               ELSE Idle)
    /\ UNCHANGED <<ledger, order, payment, refund>>

InsertPayment(r, p) ==
    /\ request[r].at = "create_insert"
    /\ payment[p].status = "NONE"
    /\ payment' = [payment EXCEPT ![p] =
          [status   |-> "PENDING",
           items    |-> request[r].orders,
           method   |-> request[r].method,
           provider |-> IF request[r].method = "ONLINE" THEN "STRIPE" ELSE "null"]]
    /\ Return(r)
    /\ UNCHANGED <<ledger, order, refund>>

-----------------------------------------------------------------------------
(* The entry points of applyPaymentStatus, and applyPaymentStatus itself.   *)

UpdatePaymentStatus(p, s) == s \in PaymentStatus
ProcessPayment(p, s) == payment[p].method # "COD" /\ s = "SUCCEEDED"
CollectCodPayment(p, s) == payment[p].method = "COD" /\ s = "SUCCEEDED"
CancelPayment(p, s) == s = "FAILED"

\* stripeStatusToPaymentStatus: an event type it does not know is PENDING.
StripeStatuses == {"SUCCEEDED", "FAILED", "PENDING"}

HandleProviderWebhook(p, s) == payment[p].provider = "STRIPE" /\ s \in StripeStatuses

\* Someone may ask for status s of payment p: an admin, the seller, the buyer, Stripe.
MaySettle(p, s) ==
    \/ UpdatePaymentStatus(p, s) \/ ProcessPayment(p, s)
    \/ CollectCodPayment(p, s)
    \/ CancelPayment(p, s)
    \/ HandleProviderWebhook(p, s)

\* The first read of applyPaymentStatus; a payment that is not PENDING is
\* returned as it is.
ReadPayment(r, p, s) ==
    /\ request[r] = Idle
    /\ payment[p].status = "PENDING"
    /\ MaySettle(p, s)
    /\ Goto(r, [at |-> "settle", payment |-> p, status |-> s])
    /\ UNCHANGED <<ledger, order, payment, refund>>

Credit(p, o, t) ==
    [account |-> <<Seller[o], t>>, txn |-> p, category |-> "PAYMENT",
     type |-> "CREDIT", amount |-> Price[o]]

\* creditSellerBalance for every item of the payment.
CreditLegs(p) ==
    {Credit(p, o, "SELLER_BALANCE") : o \in payment[p].items}
    \cup {Credit(p, o, "SELLER_AVAILABLE") : o \in payment[p].items}

\* Two orders of one seller give the second credit the key of the first.
KeysCollide(p) ==
    \E o, q \in payment[p].items : o # q /\ Seller[o] = Seller[q]

\* Mutated: the update does not repeat the status condition.
ClaimedAnyway(p) == payment[p].status # "NONE"

\* updateMany claims the row only while it is still PENDING.
Claimed(p) == payment[p].status = "PENDING"

\* Mutated: the update of the orders has no where clause, or is missing.
EveryOrderStatus(o, p, s) == s
OrderNotSynced(o, p, s) == order[o]

\* The status of an order once s is copied to the orders of the payment.
SyncedOrderStatus(o, p, s) == IF o \in payment[p].items THEN s ELSE order[o]

\* Mutated: the refund is locked when it is read, before the transaction.
HoldsRefundEarly(f) ==
    \E q \in Requests : request[q].at \in {"approve", "approve_commit"} /\ request[q].refund = f

\* The approval transactions that hold the row lock of a refund or an order.
HoldsRefund(f) ==
    \E q \in Requests : request[q].at = "approve_commit" /\ request[q].refund = f
HoldsOrder(o) ==
    \E q \in Requests :
        request[q].at = "approve_commit" /\ refund[request[q].refund].order = o

\* The transaction: claim the payment, copy the status to its orders, credit
\* the sellers of a successful one.  Without the claim nothing is written; a
\* taken ledger key aborts all of it.
ApplyPaymentStatus(r) ==
    LET p == request[r].payment
        s == request[r].status
        credits == s = "SUCCEEDED"
        commits == credits => ~KeysCollide(p) /\ Postable(ledger, CreditLegs(p))
    IN  /\ request[r].at = "settle"
        /\ Claimed(p) => \A o \in payment[p].items : ~HoldsOrder(o)
        /\ IF Claimed(p) /\ commits
           THEN /\ payment' = [payment EXCEPT ![p].status = s]
                /\ order' = [o \in Orders |-> SyncedOrderStatus(o, p, s)]
                /\ ledger' = IF credits THEN Posted(ledger, CreditLegs(p)) ELSE ledger
           ELSE UNCHANGED <<payment, order, ledger>>
        /\ Return(r)
        /\ UNCHANGED refund

-----------------------------------------------------------------------------
(* requestRefund.                                                           *)

RequestRefund(r, o, amount) ==
    /\ request[r] = Idle
    /\ order[o] = "SUCCEEDED"
    /\ amount \in 1..Price[o]
    /\ Goto(r, [at |-> "refund_check", order |-> o, amount |-> amount])
    /\ UNCHANGED <<ledger, order, payment, refund>>

\* Mutated: a refund that is still only requested does not count.
PaidRefunds(o) ==
    {f \in Refunds :
        refund[f].status \in {"APPROVED", "REFUNDED"} /\ refund[f].order = o}

ActiveRefunds(o) ==
    {f \in Refunds :
        refund[f].status \in {"REQUESTED", "APPROVED", "REFUNDED"} /\ refund[f].order = o}

FindExistingRefund(r) ==
    /\ request[r].at = "refund_check"
    /\ Goto(r, IF ActiveRefunds(request[r].order) = {}
               THEN [request[r] EXCEPT !.at = "refund_insert"]
               ELSE Idle)
    /\ UNCHANGED <<ledger, order, payment, refund>>

InsertRefund(r, f) ==
    /\ request[r].at = "refund_insert"
    /\ refund[f] = NoRefund
    /\ refund' = [refund EXCEPT ![f] =
          [status |-> "REQUESTED", order |-> request[r].order, amount |-> request[r].amount]]
    /\ Return(r)
    /\ UNCHANGED <<ledger, order, payment>>

-----------------------------------------------------------------------------
(* approveSellerRefund and rejectSellerRefund.                              *)

\* Mutated: any refund can be approved or rejected.
ReadAnyRefund(r, f, step) ==
    /\ request[r] = Idle
    /\ refund[f] # NoRefund
    /\ step \in {"approve", "reject"}
    /\ Goto(r, [at |-> step, refund |-> f])
    /\ UNCHANGED <<ledger, order, payment, refund>>

ReadRefund(r, f, step) ==
    /\ request[r] = Idle
    /\ refund[f].status = "REQUESTED"
    /\ step \in {"approve", "reject"}
    /\ Goto(r, [at |-> step, refund |-> f])
    /\ UNCHANGED <<ledger, order, payment, refund>>

AvailableOf(f) == ledger.balance[<<Seller[refund[f].order], "SELLER_AVAILABLE">>]

\* Mutated: the status is committed before the ledger transaction.
BeginApprovalEagerly(r) ==
    LET f == request[r].refund
    IN  /\ request[r].at = "approve"
        /\ ~HoldsRefund(f)
        /\ ~HoldsOrder(refund[f].order)
        /\ AvailableOf(f) >= refund[f].amount
        /\ Goto(r, [request[r] EXCEPT !.at = "approve_commit"])
        /\ refund' = [refund EXCEPT ![f].status = "REFUNDED"]
        /\ UNCHANGED <<ledger, order, payment>>

\* The transaction writes the refund and the order, which locks both rows, and
\* then reads the seller's available balance; too little rolls it back.
BeginApproval(r) ==
    LET f == request[r].refund
    IN  /\ request[r].at = "approve"
        /\ ~HoldsRefund(f)
        /\ ~HoldsOrder(refund[f].order)
        /\ Goto(r, IF AvailableOf(f) >= refund[f].amount
                   THEN [request[r] EXCEPT !.at = "approve_commit"]
                   ELSE Idle)
        /\ UNCHANGED <<ledger, order, payment, refund>>

\* recordRefundLedgerEntries.
RefundLegs(f) ==
    LET leg(account, type) ==
            [account |-> account, txn |-> f, category |-> "REFUND",
             type |-> type, amount |-> refund[f].amount]
        o == refund[f].order
    IN  {leg(<<Seller[o], "SELLER_BALANCE">>, "DEBIT"),
         leg(<<Seller[o], "SELLER_AVAILABLE">>, "DEBIT"),
         leg(<<Buyer[o], "BUYER_WALLET">>, "CREDIT")}

\* The rest of the transaction.  Its status writes do not look at the status
\* the rows have by now; the ledger keys of the refund do the refusing.
CommitApproval(r) ==
    LET f == request[r].refund
    IN  /\ request[r].at = "approve_commit"
        /\ IF Postable(ledger, RefundLegs(f))
           THEN /\ refund' = [refund EXCEPT ![f].status = "REFUNDED"]
                /\ order' = [order EXCEPT ![refund[f].order] = "FAILED"]
                /\ ledger' = Posted(ledger, RefundLegs(f))
           ELSE UNCHANGED <<refund, order, ledger>>
        /\ Return(r)
        /\ UNCHANGED payment

\* The rejection is one unconditional update.
RejectRefund(r) ==
    /\ request[r].at = "reject"
    /\ ~HoldsRefund(request[r].refund)
    /\ refund' = [refund EXCEPT ![request[r].refund].status = "REJECTED"]
    /\ Return(r)
    /\ UNCHANGED <<ledger, order, payment>>

-----------------------------------------------------------------------------
Fail(r) ==
    /\ request[r] # Idle
    /\ Return(r)
    /\ UNCHANGED <<ledger, order, payment, refund>>

\* The bounds: a handler that will insert a row starts only while an id is left.
PaymentIdLeft ==
    Cardinality({q \in Requests : request[q].at \in {"create_check", "create_insert"}})
        < Cardinality({p \in Payments : payment[p].status = "NONE"})
RefundIdLeft ==
    Cardinality({q \in Requests : request[q].at \in {"refund_check", "refund_insert"}})
        < Cardinality({f \in Refunds : refund[f] = NoRefund})

Call(r) ==
    \/ PaymentIdLeft /\ \E os \in SUBSET Orders, m \in Methods : CreatePayment(r, os, m)
    \/ \E p \in Payments, s \in PaymentStatus : ReadPayment(r, p, s)
    \/ RefundIdLeft /\ \E o \in Orders : \E amount \in 1..Price[o] : RequestRefund(r, o, amount)
    \/ \E f \in Refunds, step \in {"approve", "reject"} : ReadRefund(r, f, step)

Advance(r) ==
    \/ FindPendingPayments(r)
    \/ \E p \in Payments : InsertPayment(r, p)
    \/ ApplyPaymentStatus(r)
    \/ FindExistingRefund(r)
    \/ \E f \in Refunds : InsertRefund(r, f)
    \/ BeginApproval(r)
    \/ CommitApproval(r)
    \/ RejectRefund(r)

\* LedgerService opens an account, records an entry or reverses one.
Desk ==
    /\ ledger' \in ByHand(ledger)
    /\ UNCHANGED <<order, payment, refund, request>>

Next == Desk \/ \E r \in Requests : Call(r) \/ Advance(r) \/ Fail(r)

Spec == Init /\ [][Next]_vars

\* A handler whose database call can complete does complete: the event loop
\* runs every continuation, and a row lock goes to its waiters in turn.
FairSpec == Spec /\ \A r \in Requests : SF_vars(Advance(r))

-----------------------------------------------------------------------------
(* What holds whatever handlers overlap.                                    *)

\* The entries that PaymentsService itself has made under an id.
EntriesOf(txn) == {e \in ledger.entries : e.txn = txn}

\* A seller is credited for a payment exactly when the payment has succeeded:
\* both accounts, every order of it, once, however many admins, webhooks and
\* sellers settle it at the same time and wherever the server stops.
SettledIffCredited ==
    \A p \in Payments :
        EntriesOf(p) = IF payment[p].status = "SUCCEEDED" THEN CreditLegs(p) ELSE {}

\* The three entries of a refund are posted together or not at all, and a
\* refund that reads REFUNDED has them.
RefundPostedWhole ==
    \A f \in Refunds :
        /\ EntriesOf(f) # {} => refund[f] # NoRefund /\ EntriesOf(f) = RefundLegs(f)
        /\ refund[f].status = "REFUNDED" => EntriesOf(f) # {}

\* An order that reads SUCCEEDED is covered by a payment that succeeded, so a
\* refund is only ever requested for money that came in.
PaidOrderWasPaid ==
    \A o \in Orders :
        order[o] = "SUCCEEDED" =>
            \E p \in Payments : payment[p].status = "SUCCEEDED" /\ o \in payment[p].items

\* A payment is decided once: no later webhook, cancellation or admin call
\* changes a payment that has left PENDING, or takes it back there.
SettleOnce ==
    [][\A p \in Payments :
          payment[p].status \notin {"NONE", "PENDING"} => payment'[p] = payment[p]]_vars

\* Every handler ends: none waits for ever for a row lock.
HandlersEnd == \A r \in Requests : request[r] # Idle ~> request[r] = Idle

-----------------------------------------------------------------------------
(* What holds when handlers run one at a time, and what overlapping handlers *)
(* break.                                                                   *)

\* No order is in two payments that are pending or successful.
OnePaymentPerOrder ==
    \A p, q \in Payments :
        p # q /\ {payment[p].status, payment[q].status} \subseteq {"PENDING", "SUCCEEDED"}
            => payment[p].items \cap payment[q].items = {}

\* An order carries the status of its decided payment, and FAILED once its
\* refund has been paid.
OrderMirrorsPayment ==
    \A p \in Payments, o \in Orders :
        o \in payment[p].items =>
            order[o] = IF \E f \in Refunds : refund[f].status = "REFUNDED" /\ refund[f].order = o
                       THEN "FAILED" ELSE payment[p].status

\* Money left the seller for a refund exactly when the refund reads REFUNDED.
RefundedIffPosted ==
    \A f \in Refunds : refund[f].status = "REFUNDED" <=> EntriesOf(f) # {}

\* A buyer gets back at most what the order cost.
RefundWithinPrice ==
    \A o \in Orders :
        SumFunction([f \in {g \in Refunds : EntriesOf(g) # {} /\ refund[g].order = o} |->
                        refund[f].amount]) <= Price[o]

-----------------------------------------------------------------------------
\* Payments keep the promise of settlement: opened, decided once, credited at
\* the step that makes them SUCCEEDED and at no other.
Promise == INSTANCE SettlementPromise
    WITH phase <- [p \in Payments |-> payment[p].status],
         credited <- {p \in Payments : EntriesOf(p) # {}}

KeepsPromise == Promise!Spec

=============================================================================
