--------------------------- MODULE Payments_proofs --------------------------
(* Proofs about Payments, for every set of orders, payments, refunds and    *)
(* handlers.                                                                *)
EXTENDS Payments, LedgerBook_proofs

\* What the type of a step needs beyond TypeOK: a handler that decides a refund
\* names an inserted one, and payments and their requests name some order.
NamesRefund ==
    \A r \in Requests :
        request[r].at \in {"approve", "approve_commit", "reject"} =>
            refund[request[r].refund] # NoRefund
NamesOrders ==
    /\ \A p \in Payments : payment[p].status # "NONE" => payment[p].items # {}
    /\ \A r \in Requests :
          request[r].at \in {"create_check", "create_insert"} => request[r].orders # {}

Typed == TypeOK /\ NamesRefund /\ NamesOrders

-----------------------------------------------------------------------------
(* What is posted.                                                          *)

LEMMA SellerAccounts ==
  ASSUME NEW o \in Orders, NEW t \in AccountTypes
  PROVE  <<Seller[o], t>> \in Accounts /\ <<Buyer[o], t>> \in Accounts
  BY PaymentsAssumption DEF Accounts

LEMMA CreditLegsType ==
  ASSUME payment \in [Payments -> PaymentRows], NEW p \in Payments
  PROVE  CreditLegs(p) \subseteq Entries
  <1>1. payment[p].items \subseteq Orders
    BY DEF PaymentRows
  <1>2. \A o \in payment[p].items : Price[o] \in Nat
    BY <1>1, PaymentsAssumption
  <1>3. p \in Txns
    BY PaymentsAssumption
  <1>4. ASSUME NEW o \in payment[p].items, NEW t \in {"SELLER_BALANCE", "SELLER_AVAILABLE"}
        PROVE  Credit(p, o, t) \in Entries
    <2>1. <<Seller[o], t>> \in Accounts
      BY <1>1, SellerAccounts DEF AccountTypes
    <2>. QED BY <1>2, <1>3, <2>1 DEF Credit, Entries, Categories, EntryTypes
  <1>. QED BY <1>4 DEF CreditLegs

LEMMA RefundLegsType ==
  ASSUME NEW f \in Refunds, refund[f] \in RefundRows
  PROVE  RefundLegs(f) \subseteq Entries
  <1>1. refund[f].order \in Orders /\ refund[f].amount \in Nat
    BY DEF RefundRows
  <1>2. /\ <<Seller[refund[f].order], "SELLER_BALANCE">> \in Accounts
        /\ <<Seller[refund[f].order], "SELLER_AVAILABLE">> \in Accounts
        /\ <<Buyer[refund[f].order], "BUYER_WALLET">> \in Accounts
    BY <1>1, SellerAccounts DEF AccountTypes
  <1>3. f \in Txns
    BY PaymentsAssumption
  <1>. QED BY <1>1, <1>2, <1>3 DEF RefundLegs, Entries, Categories, EntryTypes

\* What a transaction on the ledger is made of: finitely many entries, one for
\* each account it moves.
Transaction(legs) ==
    legs \in SUBSET Entries /\ IsFiniteSet(legs) /\ OneLegEach(legs)

\* The two accounts of a seller move together.
MovesBoth(legs) ==
    \A u \in Owners :
        /\ (\E e \in legs : e.account = <<u, "SELLER_AVAILABLE">>)
             <=> (\E e \in legs : e.account = <<u, "SELLER_BALANCE">>)
        /\ Delta(legs, <<u, "SELLER_AVAILABLE">>) = Delta(legs, <<u, "SELLER_BALANCE">>)

\* A transaction moves an account by its one leg there.
LEMMA DeltaOfLeg ==
  ASSUME NEW legs, OneLegEach(legs), NEW e \in legs
  PROVE  Delta(legs, e.account) = Signed(e)
  <1>1. (CHOOSE f \in legs : f.account = e.account) = e
    BY DEF OneLegEach
  <1>. QED BY <1>1 DEF Delta

LEMMA CreditLegsMembers ==
  ASSUME NEW p, NEW e
  PROVE  e \in CreditLegs(p) <=>
            \E o \in payment[p].items, t \in {"SELLER_BALANCE", "SELLER_AVAILABLE"} :
               e = Credit(p, o, t)
  BY DEF CreditLegs

\* The credit of an order to one of the accounts of its seller.
LEMMA CreditFields ==
  ASSUME NEW p, NEW o, NEW t
  PROVE  /\ Credit(p, o, t).account = <<Seller[o], t>>
         /\ Credit(p, o, t).txn = p
         /\ Credit(p, o, t).category = "PAYMENT"
         /\ Signed(Credit(p, o, t)) = Price[o]
  BY DEF Credit, Signed

LEMMA CreditsAreTransaction ==
  ASSUME payment \in [Payments -> PaymentRows], NEW p \in Payments, ~KeysCollide(p)
  PROVE  Transaction(CreditLegs(p)) /\ MovesBoth(CreditLegs(p))
  <1> DEFINE items == payment[p].items
             credit(t) == [o \in items |-> Credit(p, o, t)]
  <1>1. IsFiniteSet(items)
    BY PaymentsAssumption, FS_Subset DEF PaymentRows
  <1>2. IsFiniteSet(CreditLegs(p))
    <2>1. \A t : IsFiniteSet({credit(t)[o] : o \in DOMAIN credit(t)})
      BY <1>1, FiniteImage
    <2>2. CreditLegs(p) = {credit("SELLER_BALANCE")[o] : o \in items}
                           \cup {credit("SELLER_AVAILABLE")[o] : o \in items}
      BY DEF CreditLegs
    <2>3. \A t : DOMAIN credit(t) = items
      OBVIOUS
    <2> HIDE DEF credit, items
    <2>. QED BY <2>1, <2>2, <2>3, FS_Union
  <1>3. OneLegEach(CreditLegs(p))
    BY CreditLegsMembers, CreditFields DEF KeysCollide, OneLegEach
  <1>4. ASSUME NEW u \in Owners
        PROVE  /\ (\E e \in CreditLegs(p) : e.account = <<u, "SELLER_AVAILABLE">>)
                    <=> (\E e \in CreditLegs(p) : e.account = <<u, "SELLER_BALANCE">>)
               /\ Delta(CreditLegs(p), <<u, "SELLER_AVAILABLE">>)
                    = Delta(CreditLegs(p), <<u, "SELLER_BALANCE">>)
    <2>1. CASE \E o \in items : Seller[o] = u
      <3>1. PICK o \in items : Seller[o] = u
        BY <2>1
      <3>2. /\ Credit(p, o, "SELLER_AVAILABLE") \in CreditLegs(p)
            /\ Credit(p, o, "SELLER_BALANCE") \in CreditLegs(p)
        BY CreditLegsMembers
      <3>3. /\ Delta(CreditLegs(p), <<u, "SELLER_AVAILABLE">>) = Price[o]
            /\ Delta(CreditLegs(p), <<u, "SELLER_BALANCE">>) = Price[o]
        BY <1>3, <3>1, <3>2, DeltaOfLeg, CreditFields
      <3>. QED BY <3>1, <3>2, <3>3, CreditFields
    <2>2. CASE ~\E o \in items : Seller[o] = u
      <3>1. \A e \in CreditLegs(p) : \A t : e.account # <<u, t>>
        BY <2>2, CreditLegsMembers, CreditFields
      <3>. QED BY <3>1 DEF Delta
    <2>. QED BY <2>1, <2>2
  <1>5. CreditLegs(p) \subseteq Entries
    BY CreditLegsType
  <1>. QED BY <1>2, <1>3, <1>4, <1>5 DEF Transaction, MovesBoth

LEMMA RefundIsTransaction ==
  ASSUME NEW f \in Refunds, refund[f] \in RefundRows
  PROVE  Transaction(RefundLegs(f)) /\ MovesBoth(RefundLegs(f))
  <1> DEFINE leg(account, type) ==
                [account |-> account, txn |-> f, category |-> "REFUND",
                 type |-> type, amount |-> refund[f].amount]
             o == refund[f].order
             a == leg(<<Seller[o], "SELLER_BALANCE">>, "DEBIT")
             b == leg(<<Seller[o], "SELLER_AVAILABLE">>, "DEBIT")
             c == leg(<<Buyer[o], "BUYER_WALLET">>, "CREDIT")
  <1>1. RefundLegs(f) = {a, b, c}
    BY DEF RefundLegs
  <1>2. IsFiniteSet(RefundLegs(f))
    <2> HIDE DEF a, b, c
    <2>1. IsFiniteSet({a})
      BY FS_Singleton
    <2>2. IsFiniteSet({a} \cup {b})
      BY <2>1, FS_AddElement
    <2>3. IsFiniteSet(({a} \cup {b}) \cup {c})
      BY <2>2, FS_AddElement
    <2>4. {a, b, c} = ({a} \cup {b}) \cup {c}
      OBVIOUS
    <2>. QED BY <1>1, <2>3, <2>4
  <1>3. /\ a.account = <<Seller[o], "SELLER_BALANCE">>
        /\ b.account = <<Seller[o], "SELLER_AVAILABLE">>
        /\ c.account = <<Buyer[o], "BUYER_WALLET">>
        /\ Signed(a) = Signed(b)
    BY DEF Signed
  <1> HIDE DEF a, b, c, o
  <1>4. OneLegEach(RefundLegs(f))
    BY <1>1, <1>3 DEF OneLegEach
  <1>5. ASSUME NEW u \in Owners
        PROVE  /\ (\E e \in RefundLegs(f) : e.account = <<u, "SELLER_AVAILABLE">>)
                    <=> (\E e \in RefundLegs(f) : e.account = <<u, "SELLER_BALANCE">>)
               /\ Delta(RefundLegs(f), <<u, "SELLER_AVAILABLE">>)
                    = Delta(RefundLegs(f), <<u, "SELLER_BALANCE">>)
    <2>1. CASE Seller[o] = u
      <3>1. /\ Delta(RefundLegs(f), <<u, "SELLER_AVAILABLE">>) = Signed(b)
            /\ Delta(RefundLegs(f), <<u, "SELLER_BALANCE">>) = Signed(a)
        BY <1>1, <1>3, <1>4, <2>1, DeltaOfLeg
      <3>. QED BY <1>1, <1>3, <2>1, <3>1
    <2>2. CASE Seller[o] # u
      <3>1. \A e \in RefundLegs(f) :
               e.account # <<u, "SELLER_AVAILABLE">> /\ e.account # <<u, "SELLER_BALANCE">>
        BY <1>1, <1>3, <2>2
      <3>. QED BY <3>1 DEF Delta
    <2>. QED BY <2>1, <2>2
  <1>6. RefundLegs(f) \subseteq Entries
    BY RefundLegsType
  <1>. QED BY <1>2, <1>4, <1>5, <1>6 DEF Transaction, MovesBoth

-----------------------------------------------------------------------------
(* Type correctness.                                                        *)

\* What a handler holds at each of its steps.
LEMMA HandlerFields ==
  ASSUME NEW h \in Handlers
  PROVE  /\ h.at \in {"create_check", "create_insert"} =>
               h.orders \in SUBSET Orders /\ h.method \in Methods
         /\ h.at = "settle" => h.payment \in Payments /\ h.status \in PaymentStatus
         /\ h.at \in {"refund_check", "refund_insert"} =>
               h.order \in Orders /\ h.amount \in Nat
         /\ h.at \in {"approve", "approve_commit", "reject"} => h.refund \in Refunds
  BY DEF Handlers, Idle

\* A refund that has a status has been inserted.
LEMMA InsertedRefund ==
  ASSUME TypeOK, NEW f \in Refunds, refund[f] # NoRefund
  PROVE  refund[f] \in RefundRows
  BY DEF TypeOK

LEMMA InitTyped == Init => Typed
  <1> SUFFICES ASSUME Init PROVE Typed
    OBVIOUS
  <1>1. ledger \in Ledgers
    BY EmptyLedgerType DEF Init
  <1>2. order \in [Orders -> PaymentStatus]
    BY DEF Init, PaymentStatus
  <1>3. payment \in [Payments -> PaymentRows]
    BY PaymentsAssumption DEF Init, PaymentRows, PaymentStatus
  <1>4. refund \in [Refunds -> RefundRows \cup {NoRefund}]
    BY DEF Init
  <1>5. request \in [Requests -> Handlers]
    BY DEF Init, Handlers
  <1>6. NamesRefund
    BY DEF Init, NamesRefund, Idle
  <1>7. NamesOrders
    <2>1. PICK m \in Methods :
            payment = [p \in Payments |->
                         [status   |-> IF Basket[p] = {} THEN "NONE" ELSE "PENDING",
                          items    |-> Basket[p],
                          method   |-> m,
                          provider |-> "null"]]
      BY DEF Init
    <2>2. \A p \in Payments : payment[p].status # "NONE" => payment[p].items # {}
      BY <2>1
    <2>. QED BY <2>2 DEF Init, NamesOrders, Idle
  <1>. QED BY <1>1, <1>2, <1>3, <1>4, <1>5, <1>6, <1>7 DEF Typed, TypeOK

\* A handler that only moves on keeps the types.
LEMMA GotoTyped ==
  ASSUME Typed, NEW r \in Requests, NEW h \in Handlers, Goto(r, h),
         UNCHANGED <<ledger, order, payment, refund>>,
         h.at \in {"approve", "approve_commit", "reject"} => refund[h.refund] # NoRefund,
         h.at \in {"create_check", "create_insert"} => h.orders # {}
  PROVE  Typed'
  <1>1. request' = [request EXCEPT ![r] = h] /\ request' \in [Requests -> Handlers]
    BY DEF Typed, TypeOK, Goto
  <1>2. TypeOK'
    BY <1>1 DEF Typed, TypeOK
  <1>3. NamesRefund'
    BY <1>1 DEF Typed, TypeOK, NamesRefund
  <1>4. NamesOrders'
    BY <1>1 DEF Typed, TypeOK, NamesOrders
  <1>. QED BY <1>2, <1>3, <1>4 DEF Typed

\* A step that ends its handler keeps the types when the tables it writes do,
\* no refund is taken away and no inserted payment is without orders.
LEMMA ReturnTyped ==
  ASSUME Typed, NEW r \in Requests, Return(r),
         ledger' \in Ledgers,
         order' \in [Orders -> PaymentStatus],
         payment' \in [Payments -> PaymentRows],
         refund' \in [Refunds -> RefundRows \cup {NoRefund}],
         \A f \in Refunds : refund[f] # NoRefund => refund'[f] # NoRefund,
         \A p \in Payments : payment'[p].status # "NONE" => payment'[p].items # {}
  PROVE  Typed'
  <1>1. request' = [request EXCEPT ![r] = Idle] /\ request' \in [Requests -> Handlers]
    BY DEF Typed, TypeOK, Goto, Return, Handlers
  <1>2. TypeOK'
    BY <1>1 DEF TypeOK
  <1>3. NamesRefund'
    <2> SUFFICES ASSUME NEW q \in Requests,
                        request'[q].at \in {"approve", "approve_commit", "reject"}
                 PROVE  refund'[request'[q].refund] # NoRefund
      BY DEF NamesRefund
    <2>1. q # r /\ request'[q] = request[q]
      BY <1>1 DEF Typed, TypeOK, Idle
    <2>2. request[q].refund \in Refunds /\ refund[request[q].refund] # NoRefund
      BY <2>1, HandlerFields DEF Typed, TypeOK, NamesRefund
    <2>. QED BY <2>1, <2>2
  <1>4. NamesOrders'
    BY <1>1 DEF Typed, TypeOK, NamesOrders, Idle
  <1>. QED BY <1>2, <1>3, <1>4 DEF Typed

LEMMA CallTyped ==
  ASSUME Typed, NEW r \in Requests, Call(r)
  PROVE  Typed'
  <1>1. ASSUME NEW os \in SUBSET Orders, NEW m \in Methods, CreatePayment(r, os, m)
        PROVE  Typed'
    <2>1. [at |-> "create_check", orders |-> os, method |-> m] \in Handlers
      BY DEF Handlers
    <2>. QED BY <1>1, <2>1, GotoTyped DEF CreatePayment
  <1>2. ASSUME NEW p \in Payments, NEW s \in PaymentStatus, ReadPayment(r, p, s)
        PROVE  Typed'
    <2>1. [at |-> "settle", payment |-> p, status |-> s] \in Handlers
      BY DEF Handlers
    <2>. QED BY <1>2, <2>1, GotoTyped DEF ReadPayment
  <1>3. ASSUME NEW o \in Orders, NEW amount \in 1..Price[o], RequestRefund(r, o, amount)
        PROVE  Typed'
    <2>1. [at |-> "refund_check", order |-> o, amount |-> amount] \in Handlers
      BY DEF Handlers
    <2>. QED BY <1>3, <2>1, GotoTyped DEF RequestRefund
  <1>4. ASSUME NEW f \in Refunds, NEW step \in {"approve", "reject"}, ReadRefund(r, f, step)
        PROVE  Typed'
    <2>1. [at |-> step, refund |-> f] \in Handlers
      BY DEF Handlers
    <2>2. refund[f] # NoRefund
      BY <1>4 DEF ReadRefund, NoRefund
    <2>. QED BY <1>4, <2>1, <2>2, GotoTyped DEF ReadRefund
  <1>. QED BY <1>1, <1>2, <1>3, <1>4 DEF Call

LEMMA FailTyped ==
  ASSUME Typed, NEW r \in Requests, Fail(r)
  PROVE  Typed'
  BY ReturnTyped DEF Fail, Typed, TypeOK, NamesOrders

LEMMA CreateTyped ==
  ASSUME Typed, NEW r \in Requests,
         FindPendingPayments(r) \/ \E p \in Payments : InsertPayment(r, p)
  PROVE  Typed'
  <1>1. CASE FindPendingPayments(r)
    <2>1. request[r] \in Handlers /\ Idle \in Handlers
      BY DEF Typed, TypeOK, Handlers
    <2>2. request[r].orders \in SUBSET Orders /\ request[r].method \in Methods
          /\ request[r].orders # {}
      BY <1>1, <2>1, HandlerFields DEF FindPendingPayments, Typed, NamesOrders
    <2>3. request[r] = [at |-> "create_check", orders |-> request[r].orders,
                        method |-> request[r].method]
      BY <1>1, <2>1 DEF FindPendingPayments, Handlers, Idle
    <2> DEFINE next == [request[r] EXCEPT !.at = "create_insert"]
    <2>4. next = [at |-> "create_insert", orders |-> request[r].orders,
                  method |-> request[r].method]
      BY <2>3
    <2>5. next \in Handlers
      BY <2>2, <2>4 DEF Handlers
    <2> HIDE DEF next
    <2>6. CASE Goto(r, next)
      BY <1>1, <2>2, <2>4, <2>5, <2>6, GotoTyped DEF FindPendingPayments
    <2>7. CASE Goto(r, Idle)
      BY <1>1, <2>1, <2>7, GotoTyped DEF FindPendingPayments, Idle
    <2>. QED BY <1>1, <2>6, <2>7 DEF FindPendingPayments, next
  <1>2. ASSUME NEW p \in Payments, InsertPayment(r, p)
        PROVE  Typed'
    <2>1. request[r].orders \in SUBSET Orders /\ request[r].method \in Methods
          /\ request[r].orders # {}
      BY <1>2, HandlerFields DEF InsertPayment, Typed, TypeOK, NamesOrders
    <2> DEFINE row == [status   |-> "PENDING",
                       items    |-> request[r].orders,
                       method   |-> request[r].method,
                       provider |-> IF request[r].method = "ONLINE" THEN "STRIPE" ELSE "null"]
    <2>2. row \in PaymentRows
      BY <2>1 DEF PaymentRows, PaymentStatus
    <2>3. payment' = [payment EXCEPT ![p] = row]
      BY <1>2 DEF InsertPayment
    <2>4. row.items # {}
      BY <2>1
    <2> HIDE DEF row
    <2>5. payment' \in [Payments -> PaymentRows]
      BY <2>2, <2>3 DEF Typed, TypeOK
    <2>6. \A q \in Payments : payment'[q].status # "NONE" => payment'[q].items # {}
      BY <2>3, <2>4 DEF Typed, TypeOK, NamesOrders
    <2>. QED BY <1>2, <2>5, <2>6, ReturnTyped DEF InsertPayment, Typed, TypeOK
  <1>. QED BY <1>1, <1>2

LEMMA ApplyTyped ==
  ASSUME Typed, NEW r \in Requests, ApplyPaymentStatus(r)
  PROVE  Typed'
  <1> DEFINE p == request[r].payment
             s == request[r].status
  <1>1. p \in Payments /\ s \in PaymentStatus
    BY HandlerFields DEF ApplyPaymentStatus, Typed, TypeOK
  <1>2. CASE UNCHANGED <<payment, order, ledger>>
    BY <1>2, ReturnTyped DEF ApplyPaymentStatus, Typed, TypeOK, NamesOrders
  <1>3. CASE /\ Claimed(p)
             /\ payment' = [payment EXCEPT ![p].status = s]
             /\ order' = [o \in Orders |-> SyncedOrderStatus(o, p, s)]
             /\ ledger' = IF s = "SUCCEEDED" THEN Posted(ledger, CreditLegs(p)) ELSE ledger
    <2>1. ledger' \in Ledgers
      BY <1>1, <1>3, CreditLegsType, PostedType DEF Typed, TypeOK
    <2>2. order' \in [Orders -> PaymentStatus]
      BY <1>1, <1>3 DEF Typed, TypeOK, SyncedOrderStatus
    <2>3. [payment[p] EXCEPT !.status = s] \in PaymentRows
      BY <1>1 DEF Typed, TypeOK, PaymentRows
    <2>4. payment' \in [Payments -> PaymentRows]
      BY <1>1, <1>3, <2>3 DEF Typed, TypeOK
    <2>5. \A q \in Payments : payment'[q].status # "NONE" => payment'[q].items # {}
      BY <1>1, <1>3 DEF Typed, TypeOK, NamesOrders, Claimed, PaymentRows
    <2>. QED BY <2>1, <2>2, <2>4, <2>5, ReturnTyped DEF ApplyPaymentStatus, Typed, TypeOK
  <1>. QED BY <1>2, <1>3 DEF ApplyPaymentStatus

LEMMA RefundTyped ==
  ASSUME Typed, NEW r \in Requests,
         FindExistingRefund(r) \/ \E f \in Refunds : InsertRefund(r, f)
  PROVE  Typed'
  <1>1. CASE FindExistingRefund(r)
    <2>1. request[r] \in Handlers /\ Idle \in Handlers
      BY DEF Typed, TypeOK, Handlers
    <2>2. request[r].order \in Orders /\ request[r].amount \in Nat
      BY <1>1, <2>1, HandlerFields DEF FindExistingRefund
    <2>3. request[r] = [at |-> "refund_check", order |-> request[r].order,
                        amount |-> request[r].amount]
      BY <1>1, <2>1 DEF FindExistingRefund, Handlers, Idle
    <2> DEFINE next == [request[r] EXCEPT !.at = "refund_insert"]
    <2>4. next = [at |-> "refund_insert", order |-> request[r].order,
                  amount |-> request[r].amount]
      BY <2>3
    <2>5. next \in Handlers
      BY <2>2, <2>4 DEF Handlers
    <2> HIDE DEF next
    <2>6. CASE Goto(r, next)
      BY <1>1, <2>4, <2>5, <2>6, GotoTyped DEF FindExistingRefund
    <2>7. CASE Goto(r, Idle)
      BY <1>1, <2>1, <2>7, GotoTyped DEF FindExistingRefund, Idle
    <2>. QED BY <1>1, <2>6, <2>7 DEF FindExistingRefund, next
  <1>2. ASSUME NEW f \in Refunds, InsertRefund(r, f)
        PROVE  Typed'
    <2> DEFINE row == [status |-> "REQUESTED", order |-> request[r].order,
                       amount |-> request[r].amount]
    <2>1. row \in RefundRows
      BY <1>2, HandlerFields DEF InsertRefund, Typed, TypeOK, RefundRows, RefundStatus
    <2>2. refund' = [refund EXCEPT ![f] = row] /\ row # NoRefund
      BY <1>2 DEF InsertRefund, NoRefund
    <2> HIDE DEF row
    <2>3. refund' \in [Refunds -> RefundRows \cup {NoRefund}]
      BY <2>1, <2>2 DEF Typed, TypeOK
    <2>4. \A g \in Refunds : refund[g] # NoRefund => refund'[g] # NoRefund
      BY <2>2 DEF Typed, TypeOK
    <2>. QED BY <1>2, <2>3, <2>4, ReturnTyped DEF InsertRefund, Typed, TypeOK, NamesOrders
  <1>. QED BY <1>1, <1>2

LEMMA ApproveTyped ==
  ASSUME Typed, NEW r \in Requests, BeginApproval(r) \/ CommitApproval(r) \/ RejectRefund(r)
  PROVE  Typed'
  <1> DEFINE f == request[r].refund
  <1>1. request[r] \in Handlers /\ Idle \in Handlers
    BY DEF Typed, TypeOK, Handlers
  <1>2. f \in Refunds /\ refund[f] # NoRefund
    BY <1>1, HandlerFields
       DEF BeginApproval, CommitApproval, RejectRefund, Typed, NamesRefund
  <1>3. refund[f] \in RefundRows
    BY <1>2, InsertedRefund DEF Typed
  <1>4. ASSUME NEW s \in RefundStatus, refund' = [refund EXCEPT ![f].status = s]
        PROVE  /\ refund' \in [Refunds -> RefundRows \cup {NoRefund}]
               /\ \A g \in Refunds : refund[g] # NoRefund => refund'[g] # NoRefund
    <2> DEFINE row == [status |-> s, order |-> refund[f].order, amount |-> refund[f].amount]
    <2>1. [refund[f] EXCEPT !.status = s] = row
      BY <1>3 DEF RefundRows
    <2>2. refund' = [refund EXCEPT ![f] = row]
      BY <1>4, <2>1
    <2>3. row \in RefundRows /\ row # NoRefund
      BY <1>3 DEF RefundRows, NoRefund, RefundStatus
    <2> HIDE DEF row
    <2>. QED BY <1>2, <2>2, <2>3 DEF Typed, TypeOK
  <1>5. CASE BeginApproval(r)
    <2>1. request[r] = [at |-> "approve", refund |-> f]
      BY <1>1, <1>5 DEF BeginApproval, Handlers, Idle
    <2> DEFINE next == [request[r] EXCEPT !.at = "approve_commit"]
    <2>2. next = [at |-> "approve_commit", refund |-> f]
      BY <2>1
    <2>3. next \in Handlers
      BY <1>2, <2>2 DEF Handlers
    <2>4. Goto(r, next) \/ Goto(r, Idle)
      BY <1>5 DEF BeginApproval
    <2> HIDE DEF next
    <2>5. UNCHANGED <<ledger, order, payment, refund>>
      BY <1>5 DEF BeginApproval
    <2>6. CASE Goto(r, next)
      BY <1>2, <2>2, <2>3, <2>5, <2>6, GotoTyped
    <2>7. CASE Goto(r, Idle)
      BY <1>1, <2>5, <2>7, GotoTyped DEF Idle
    <2>. QED BY <2>4, <2>6, <2>7
  <1>6. CASE CommitApproval(r)
    <2>1. CASE UNCHANGED <<refund, order, ledger>>
      BY <1>6, <2>1, ReturnTyped DEF CommitApproval, Typed, TypeOK, NamesOrders
    <2>2. CASE /\ refund' = [refund EXCEPT ![f].status = "REFUNDED"]
               /\ order' = [order EXCEPT ![refund[f].order] = "FAILED"]
               /\ ledger' = Posted(ledger, RefundLegs(f))
      <3>1. ledger' \in Ledgers
        BY <1>2, <1>3, <2>2, RefundLegsType, PostedType DEF Typed, TypeOK
      <3>2. order' \in [Orders -> PaymentStatus]
        BY <1>3, <2>2 DEF Typed, TypeOK, RefundRows, PaymentStatus
      <3>3. "REFUNDED" \in RefundStatus
        BY DEF RefundStatus
      <3>. QED BY <1>4, <1>6, <2>2, <3>1, <3>2, <3>3, ReturnTyped
               DEF CommitApproval, Typed, TypeOK, NamesOrders
    <2>. QED BY <1>6, <2>1, <2>2 DEF CommitApproval
  <1>7. CASE RejectRefund(r)
    <2>1. "REJECTED" \in RefundStatus
      BY DEF RefundStatus
    <2>. QED BY <1>4, <1>7, <2>1, ReturnTyped DEF RejectRefund, Typed, TypeOK, NamesOrders
  <1>. QED BY <1>5, <1>6, <1>7

LEMMA NextTyped == Typed /\ [Next]_vars => Typed'
  <1> SUFFICES ASSUME Typed, [Next]_vars PROVE Typed'
    OBVIOUS
  <1>1. ASSUME NEW r \in Requests, Call(r) \/ Advance(r) \/ Fail(r)
        PROVE  Typed'
    <2>1. CASE Call(r)
      BY <2>1, CallTyped
    <2>2. CASE Advance(r)
      BY <2>2, CreateTyped, ApplyTyped, RefundTyped, ApproveTyped DEF Advance
    <2>3. CASE Fail(r)
      BY <2>3, FailTyped
    <2>. QED BY <1>1, <2>1, <2>2, <2>3
  <1>2. CASE UNCHANGED vars
    BY <1>2 DEF vars, Typed, TypeOK, NamesRefund, NamesOrders
  <1>3. CASE Desk
    <2>1. ledger' \in Ledgers /\ UNCHANGED <<order, payment, refund, request>>
      BY <1>3, DeskFrame DEF Desk, Typed, TypeOK
    <2>. QED BY <2>1 DEF Typed, TypeOK, NamesRefund, NamesOrders
  <1>. QED BY <1>1, <1>2, <1>3 DEF Next

LEMMA AlwaysTyped == Spec => []Typed
  BY InitTyped, NextTyped, PTL DEF Spec

\* The tables and the handlers always have their types.
THEOREM TypeCorrect == Spec => []TypeOK
  <1>1. Typed => TypeOK
    BY DEF Typed
  <1>. QED BY <1>1, AlwaysTyped, PTL

-----------------------------------------------------------------------------
(* Settlement.                                                              *)

\* A handler decides payment p with status s in one transaction.
Decides(p, s) ==
    /\ payment[p].status = "PENDING"
    /\ payment' = [payment EXCEPT ![p].status = s]
    /\ ledger' = IF s = "SUCCEEDED" THEN Posted(ledger, CreditLegs(p)) ELSE ledger
    /\ s = "SUCCEEDED" => ~KeysCollide(p) /\ Postable(ledger, CreditLegs(p))

\* A payment row is inserted for some orders.
Inserts(p) ==
    /\ payment[p].status = "NONE"
    /\ payment'[p].status = "PENDING"
    /\ \A q \in Payments : q # p => payment'[q] = payment[q]
    /\ ledger' = ledger

\* The approval of refund f posts its entries.
PaysBack(f) ==
    /\ refund[f] \in RefundRows
    /\ payment' = payment
    /\ ledger' = Posted(ledger, RefundLegs(f))
    /\ Postable(ledger, RefundLegs(f))

\* What any step of any handler does to payments and ledger.
LEMMA MoneySteps ==
  ASSUME Typed, [Next]_vars
  PROVE  \/ UNCHANGED <<payment, ledger>>
         \/ Desk
         \/ \E p \in Payments : Inserts(p)
         \/ \E p \in Payments, s \in PaymentStatus : Decides(p, s)
         \/ \E f \in Refunds : PaysBack(f)
  <1>1. CASE UNCHANGED vars
    BY <1>1 DEF vars
  <1>2. ASSUME NEW r \in Requests, Call(r) \/ Fail(r)
        PROVE  UNCHANGED <<payment, ledger>>
    BY <1>2 DEF Call, Fail, CreatePayment, ReadPayment, RequestRefund, ReadRefund
  <1>3. ASSUME NEW r \in Requests,
               \/ FindPendingPayments(r) \/ FindExistingRefund(r)
               \/ \E f \in Refunds : InsertRefund(r, f)
               \/ BeginApproval(r) \/ RejectRefund(r)
        PROVE  UNCHANGED <<payment, ledger>>
    BY <1>3 DEF FindPendingPayments, FindExistingRefund, InsertRefund, BeginApproval, RejectRefund
  <1>4. ASSUME NEW r \in Requests, NEW p \in Payments, InsertPayment(r, p)
        PROVE  Inserts(p)
    BY <1>4 DEF InsertPayment, Inserts, Typed, TypeOK
  <1>5. ASSUME NEW r \in Requests, ApplyPaymentStatus(r)
        PROVE  \/ UNCHANGED <<payment, ledger>>
               \/ \E p \in Payments, s \in PaymentStatus : Decides(p, s)
    <2>1. request[r].payment \in Payments /\ request[r].status \in PaymentStatus
      BY <1>5, HandlerFields DEF ApplyPaymentStatus, Typed, TypeOK
    <2>2. CASE UNCHANGED <<payment, order, ledger>>
      BY <2>2
    <2>3. CASE ~UNCHANGED <<payment, order, ledger>>
      <3>1. Decides(request[r].payment, request[r].status)
        BY <1>5, <2>3 DEF ApplyPaymentStatus, Decides, Claimed
      <3>. QED BY <2>1, <3>1
    <2>. QED BY <2>2, <2>3
  <1>6. ASSUME NEW r \in Requests, CommitApproval(r)
        PROVE  UNCHANGED <<payment, ledger>> \/ \E f \in Refunds : PaysBack(f)
    <2>1. request[r].refund \in Refunds /\ refund[request[r].refund] \in RefundRows
      BY <1>6, HandlerFields, InsertedRefund DEF CommitApproval, Typed, TypeOK, NamesRefund
    <2>. QED BY <1>6, <2>1 DEF CommitApproval, PaysBack
  <1>. QED BY <1>1, <1>2, <1>3, <1>4, <1>5, <1>6 DEF Next, Advance

\* The desk changes no entry of a service.
LEMMA DeskEntries ==
  ASSUME Typed, Desk
  PROVE  /\ ledger'.entries = ledger.entries /\ UNCHANGED <<order, payment, refund, request>>
         /\ \A txn : EntriesOf(txn)' = EntriesOf(txn)
  <1>1. ledger'.entries = ledger.entries /\ UNCHANGED <<order, payment, refund, request>>
    BY DeskFrame DEF Desk, Typed, TypeOK
  <1>. QED BY <1>1 DEF EntriesOf

\* Posting changes the entries of the transaction posted and of no other.
LEMMA PostedEntries ==
  ASSUME NEW legs, ledger' = Posted(ledger, legs), NEW txn
  PROVE  EntriesOf(txn)' = EntriesOf(txn) \cup {e \in legs : e.txn = txn}
  BY DEF Posted, EntriesOf

LEMMA CreditLegsTxn ==
  ASSUME NEW p, NEW e \in CreditLegs(p)
  PROVE  e.txn = p
  BY DEF CreditLegs, Credit

LEMMA RefundLegsTxn ==
  ASSUME NEW f, NEW e \in RefundLegs(f)
  PROVE  e.txn = f
  BY DEF RefundLegs

LEMMA InitSettled == Init => SettledIffCredited
  <1> SUFFICES ASSUME Init, NEW p \in Payments
               PROVE  payment[p].status # "SUCCEEDED" /\ EntriesOf(p) = {}
    BY DEF SettledIffCredited
  <1>1. payment[p].status # "SUCCEEDED"
    BY DEF Init
  <1>2. EntriesOf(p) = {}
    BY DEF Init, EmptyLedger, EntriesOf
  <1>. QED BY <1>1, <1>2

\* The items of a payment, hence its credits, stay as they were inserted.
LEMMA SameCredits ==
  ASSUME NEW p, payment'[p].items = payment[p].items
  PROVE  CreditLegs(p)' = CreditLegs(p)
  BY DEF CreditLegs, Credit

LEMMA NextSettled ==
  ASSUME Typed, SettledIffCredited, [Next]_vars
  PROVE  SettledIffCredited'
  <1> SUFFICES ASSUME NEW p \in Payments
               PROVE  EntriesOf(p)' = IF payment'[p].status = "SUCCEEDED"
                                      THEN CreditLegs(p)' ELSE {}
    BY DEF SettledIffCredited
  <1>0. EntriesOf(p) = IF payment[p].status = "SUCCEEDED" THEN CreditLegs(p) ELSE {}
    BY DEF SettledIffCredited
  <1>1. CASE UNCHANGED <<payment, ledger>>
    BY <1>0, <1>1, SameCredits DEF EntriesOf
  <1>2. ASSUME NEW q \in Payments, Inserts(q)
        PROVE  EntriesOf(p)' = IF payment'[p].status = "SUCCEEDED" THEN CreditLegs(p)' ELSE {}
    <2>1. EntriesOf(p)' = EntriesOf(p)
      BY <1>2 DEF Inserts, EntriesOf
    <2>2. CASE p = q
      BY <1>0, <1>2, <2>1, <2>2 DEF Inserts
    <2>3. CASE p # q
      <3>1. payment'[p] = payment[p]
        BY <1>2, <2>3 DEF Inserts
      <3>. QED BY <1>0, <2>1, <3>1, SameCredits
    <2>. QED BY <2>2, <2>3
  <1>3. ASSUME NEW q \in Payments, NEW s \in PaymentStatus, Decides(q, s)
        PROVE  EntriesOf(p)' = IF payment'[p].status = "SUCCEEDED" THEN CreditLegs(p)' ELSE {}
    <2>1. /\ payment'[p].items = payment[p].items
          /\ payment'[p].status = IF p = q THEN s ELSE payment[p].status
      BY <1>3 DEF Decides, Typed, TypeOK, PaymentRows
    <2>2. CreditLegs(p)' = CreditLegs(p)
      BY <2>1, SameCredits
    <2>3. CASE s = "SUCCEEDED"
      <3>1. EntriesOf(p)' = EntriesOf(p) \cup {e \in CreditLegs(q) : e.txn = p}
        BY <1>3, <2>3, PostedEntries DEF Decides
      <3>2. {e \in CreditLegs(q) : e.txn = p} = IF p = q THEN CreditLegs(p) ELSE {}
        BY CreditLegsTxn
      <3>. QED BY <1>0, <1>3, <2>1, <2>2, <2>3, <3>1, <3>2 DEF Decides
    <2>4. CASE s # "SUCCEEDED"
      <3>1. EntriesOf(p)' = EntriesOf(p)
        BY <1>3, <2>4 DEF Decides, EntriesOf
      <3>. QED BY <1>0, <1>3, <2>1, <2>2, <2>4, <3>1 DEF Decides
    <2>. QED BY <2>3, <2>4
  <1>4. ASSUME NEW f \in Refunds, PaysBack(f)
        PROVE  EntriesOf(p)' = IF payment'[p].status = "SUCCEEDED" THEN CreditLegs(p)' ELSE {}
    <2>1. EntriesOf(p)' = EntriesOf(p) \cup {e \in RefundLegs(f) : e.txn = p}
      BY <1>4, PostedEntries DEF PaysBack
    <2>2. {e \in RefundLegs(f) : e.txn = p} = {}
      BY RefundLegsTxn, PaymentsAssumption
    <2>3. payment' = payment
      BY <1>4 DEF PaysBack
    <2>. QED BY <1>0, <2>1, <2>2, <2>3, SameCredits
  <1>5. CASE Desk
    BY <1>0, <1>5, DeskEntries, SameCredits
  <1>. QED BY <1>1, <1>2, <1>3, <1>4, <1>5, MoneySteps

\* A seller is credited for a payment exactly when it has succeeded: for any
\* number of handlers, orders and payments, whatever fails.
THEOREM CreditedExactly == Spec => []SettledIffCredited
  <1>1. Typed /\ SettledIffCredited /\ [Next]_vars => SettledIffCredited'
    BY NextSettled
  <1>. QED BY <1>1, InitSettled, AlwaysTyped, PTL DEF Spec

LEMMA NextDecided ==
  ASSUME Typed, [Next]_vars, NEW p \in Payments, payment[p].status \notin {"NONE", "PENDING"}
  PROVE  payment'[p] = payment[p]
  <1>1. ASSUME NEW q \in Payments, Inserts(q)
        PROVE  payment'[p] = payment[p]
    BY <1>1 DEF Inserts
  <1>2. ASSUME NEW q \in Payments, NEW s \in PaymentStatus, Decides(q, s)
        PROVE  payment'[p] = payment[p]
    BY <1>2 DEF Decides, Typed, TypeOK
  <1>3. ASSUME NEW f \in Refunds, PaysBack(f)
        PROVE  payment'[p] = payment[p]
    BY <1>3 DEF PaysBack
  <1>. QED BY <1>1, <1>2, <1>3, DeskEntries, MoneySteps

\* A decided payment never changes again, whoever asks for what.
THEOREM DecidedForGood == Spec => SettleOnce
  <1>1. Typed /\ [Next]_vars
          => [\A p \in Payments :
                 payment[p].status \notin {"NONE", "PENDING"} => payment'[p] = payment[p]]_vars
    BY NextDecided
  <1>. QED BY <1>1, AlwaysTyped, PTL DEF Spec, SettleOnce

-----------------------------------------------------------------------------
(* Refunds.                                                                 *)

\* What any step does to refund f and to its entries: nothing, its insertion,
\* a new status, or the entries together with the status REFUNDED.
LEMMA RefundSteps ==
  ASSUME Typed, [Next]_vars, NEW f \in Refunds
  PROVE  \/ refund'[f] = refund[f] /\ EntriesOf(f)' = EntriesOf(f)
         \/ refund[f] = NoRefund /\ refund'[f].status = "REQUESTED" /\ EntriesOf(f)' = EntriesOf(f)
         \/ /\ refund[f] \in RefundRows
            /\ refund'[f] = [refund[f] EXCEPT !.status = "REJECTED"]
            /\ EntriesOf(f)' = EntriesOf(f)
         \/ /\ refund[f] \in RefundRows
            /\ refund'[f] = [refund[f] EXCEPT !.status = "REFUNDED"]
            /\ EntriesOf(f)' = EntriesOf(f) \cup RefundLegs(f)
  <1>1. CASE UNCHANGED <<refund, ledger>>
    BY <1>1 DEF EntriesOf
  <1>2. ASSUME NEW r \in Requests,
               \/ Call(r) \/ Fail(r) \/ FindPendingPayments(r) \/ FindExistingRefund(r)
               \/ BeginApproval(r) \/ \E p \in Payments : InsertPayment(r, p)
        PROVE  UNCHANGED <<refund, ledger>>
    BY <1>2 DEF Call, Fail, CreatePayment, ReadPayment, RequestRefund, ReadRefund,
                FindPendingPayments, FindExistingRefund, BeginApproval, InsertPayment
  <1>3. ASSUME NEW r \in Requests, ApplyPaymentStatus(r)
        PROVE  refund'[f] = refund[f] /\ EntriesOf(f)' = EntriesOf(f)
    <2> DEFINE p == request[r].payment
    <2>1. p \in Payments
      BY <1>3, HandlerFields DEF ApplyPaymentStatus, Typed, TypeOK
    <2>2. UNCHANGED refund
      BY <1>3 DEF ApplyPaymentStatus
    <2>3. ledger' = ledger \/ ledger' = Posted(ledger, CreditLegs(p))
      BY <1>3 DEF ApplyPaymentStatus
    <2>4. {e \in CreditLegs(p) : e.txn = f} = {}
      BY <2>1, CreditLegsTxn, PaymentsAssumption
    <2>. QED BY <2>2, <2>3, <2>4, PostedEntries DEF EntriesOf
  <1>4. ASSUME NEW r \in Requests, NEW g \in Refunds, InsertRefund(r, g)
        PROVE  \/ refund'[f] = refund[f] /\ EntriesOf(f)' = EntriesOf(f)
               \/ /\ refund[f] = NoRefund /\ refund'[f].status = "REQUESTED"
                  /\ EntriesOf(f)' = EntriesOf(f)
    BY <1>4 DEF InsertRefund, EntriesOf, Typed, TypeOK
  <1>5. ASSUME NEW r \in Requests, RejectRefund(r)
        PROVE  \/ refund'[f] = refund[f] /\ EntriesOf(f)' = EntriesOf(f)
               \/ /\ refund[f] \in RefundRows
                  /\ refund'[f] = [refund[f] EXCEPT !.status = "REJECTED"]
                  /\ EntriesOf(f)' = EntriesOf(f)
    <2> DEFINE g == request[r].refund
    <2>1. g \in Refunds /\ refund[g] \in RefundRows
      BY <1>5, HandlerFields, InsertedRefund DEF RejectRefund, Typed, TypeOK, NamesRefund
    <2>2. refund' = [refund EXCEPT ![g].status = "REJECTED"] /\ EntriesOf(f)' = EntriesOf(f)
      BY <1>5 DEF RejectRefund, EntriesOf
    <2>. QED BY <2>1, <2>2 DEF Typed, TypeOK
  <1>6. ASSUME NEW r \in Requests, CommitApproval(r), ~UNCHANGED <<refund, order, ledger>>
        PROVE  \/ refund'[f] = refund[f] /\ EntriesOf(f)' = EntriesOf(f)
               \/ /\ refund[f] \in RefundRows
                  /\ refund'[f] = [refund[f] EXCEPT !.status = "REFUNDED"]
                  /\ EntriesOf(f)' = EntriesOf(f) \cup RefundLegs(f)
    <2> DEFINE g == request[r].refund
    <2>1. g \in Refunds /\ refund[g] \in RefundRows
      BY <1>6, HandlerFields, InsertedRefund DEF CommitApproval, Typed, TypeOK, NamesRefund
    <2>2. refund' = [refund EXCEPT ![g].status = "REFUNDED"]
      BY <1>6 DEF CommitApproval
    <2>3. EntriesOf(f)' = EntriesOf(f) \cup {e \in RefundLegs(g) : e.txn = f}
      BY <1>6, PostedEntries DEF CommitApproval
    <2>4. {e \in RefundLegs(g) : e.txn = f} = IF f = g THEN RefundLegs(f) ELSE {}
      BY RefundLegsTxn
    <2> HIDE DEF g
    <2>. QED BY <2>1, <2>2, <2>3, <2>4 DEF Typed, TypeOK
  <1>7. ASSUME NEW r \in Requests, CommitApproval(r), UNCHANGED <<refund, order, ledger>>
        PROVE  UNCHANGED <<refund, ledger>>
    BY <1>7
  <1>8. CASE UNCHANGED vars
    BY <1>1, <1>8 DEF vars
  <1>9. ASSUME NEW r \in Requests, Call(r) \/ Advance(r) \/ Fail(r),
               ~UNCHANGED <<refund, ledger>>
        PROVE  \/ ApplyPaymentStatus(r)
               \/ \E g \in Refunds : InsertRefund(r, g)
               \/ RejectRefund(r)
               \/ CommitApproval(r) /\ ~UNCHANGED <<refund, order, ledger>>
    BY <1>2, <1>7, <1>9 DEF Advance
  <1>10. CASE Desk
    BY <1>10, DeskEntries
  <1>. QED BY <1>1, <1>3, <1>4, <1>5, <1>6, <1>8, <1>9, <1>10 DEF Next

\* The entries of a refund do not depend on its status.
LEMMA SameRefundLegs ==
  ASSUME NEW f, NEW s, refund[f] \in RefundRows,
         refund'[f] = refund[f] \/ refund'[f] = [refund[f] EXCEPT !.status = s]
  PROVE  RefundLegs(f)' = RefundLegs(f)
  <1>1. refund'[f].order = refund[f].order /\ refund'[f].amount = refund[f].amount
    BY DEF RefundRows
  <1>. QED BY <1>1 DEF RefundLegs

LEMMA NextPostedWhole ==
  ASSUME Typed, RefundPostedWhole, [Next]_vars
  PROVE  RefundPostedWhole'
  <1> SUFFICES ASSUME NEW f \in Refunds
               PROVE  /\ EntriesOf(f)' # {} =>
                            refund'[f] # NoRefund /\ EntriesOf(f)' = RefundLegs(f)'
                      /\ refund'[f].status = "REFUNDED" => EntriesOf(f)' # {}
    BY DEF RefundPostedWhole
  <1>0. /\ EntriesOf(f) # {} => refund[f] # NoRefund /\ EntriesOf(f) = RefundLegs(f)
        /\ refund[f].status = "REFUNDED" => EntriesOf(f) # {}
        /\ refund[f] \in RefundRows \cup {NoRefund}
    BY DEF RefundPostedWhole, Typed, TypeOK
  <1>1. CASE refund'[f] = refund[f] /\ EntriesOf(f)' = EntriesOf(f)
    BY <1>0, <1>1, SameRefundLegs
  <1>2. CASE /\ refund[f] = NoRefund /\ refund'[f].status = "REQUESTED"
             /\ EntriesOf(f)' = EntriesOf(f)
    BY <1>0, <1>2
  <1>3. ASSUME refund[f] \in RefundRows, NEW s \in RefundStatus,
               refund'[f] = [refund[f] EXCEPT !.status = s]
        PROVE  refund'[f].status = s /\ refund'[f] # NoRefund /\ RefundLegs(f)' = RefundLegs(f)
    <2>1. refund'[f].status = s /\ s # "NONE"
      BY <1>3 DEF RefundRows, RefundStatus
    <2>. QED BY <1>3, <2>1, SameRefundLegs DEF NoRefund
  <1>4. CASE /\ refund[f] \in RefundRows
             /\ refund'[f] = [refund[f] EXCEPT !.status = "REJECTED"]
             /\ EntriesOf(f)' = EntriesOf(f)
    BY <1>0, <1>3, <1>4 DEF RefundStatus
  <1>5. CASE /\ refund[f] \in RefundRows
             /\ refund'[f] = [refund[f] EXCEPT !.status = "REFUNDED"]
             /\ EntriesOf(f)' = EntriesOf(f) \cup RefundLegs(f)
    <2>1. RefundLegs(f) # {}
      BY DEF RefundLegs
    <2>. QED BY <1>0, <1>3, <1>5, <2>1 DEF RefundStatus
  <1>. QED BY <1>1, <1>2, <1>4, <1>5, RefundSteps

LEMMA InitPostedWhole == Init => RefundPostedWhole
  BY DEF Init, RefundPostedWhole, NoRefund, EmptyLedger, EntriesOf

\* However the approvals and rejections of a refund overlap, its three entries
\* are posted together and once, and a refund that reads REFUNDED has them.
THEOREM PostedWhole == Spec => []RefundPostedWhole
  <1>1. Typed /\ RefundPostedWhole /\ [Next]_vars => RefundPostedWhole'
    BY NextPostedWhole
  <1>. QED BY <1>1, InitPostedWhole, AlwaysTyped, PTL DEF Spec

-----------------------------------------------------------------------------
(* Orders.                                                                  *)

\* An order becomes SUCCEEDED only in the transaction that makes a payment of
\* it SUCCEEDED.
LEMMA PaidSteps ==
  ASSUME Typed, [Next]_vars, NEW o \in Orders, order'[o] = "SUCCEEDED"
  PROVE  \/ order[o] = "SUCCEEDED"
         \/ \E p \in Payments : payment'[p].status = "SUCCEEDED" /\ o \in payment'[p].items
  <1>1. CASE UNCHANGED order
    BY <1>1
  <1>2. ASSUME NEW r \in Requests,
               \/ Call(r) \/ Fail(r) \/ FindPendingPayments(r) \/ FindExistingRefund(r)
               \/ BeginApproval(r) \/ RejectRefund(r)
               \/ (\E p \in Payments : InsertPayment(r, p))
               \/ \E f \in Refunds : InsertRefund(r, f)
        PROVE  UNCHANGED order
    BY <1>2 DEF Call, Fail, CreatePayment, ReadPayment, RequestRefund, ReadRefund,
                FindPendingPayments, FindExistingRefund, BeginApproval, RejectRefund,
                InsertPayment, InsertRefund
  <1>3. ASSUME NEW r \in Requests, CommitApproval(r)
        PROVE  order[o] = "SUCCEEDED"
    BY <1>3 DEF CommitApproval, Typed, TypeOK
  <1>4. ASSUME NEW r \in Requests, ApplyPaymentStatus(r), ~UNCHANGED order
        PROVE  \/ order[o] = "SUCCEEDED"
               \/ \E p \in Payments : payment'[p].status = "SUCCEEDED" /\ o \in payment'[p].items
    <2> DEFINE p == request[r].payment
               s == request[r].status
    <2>1. p \in Payments
      BY <1>4, HandlerFields DEF ApplyPaymentStatus, Typed, TypeOK
    <2>2. payment' = [payment EXCEPT ![p].status = s]
      BY <1>4 DEF ApplyPaymentStatus
    <2>3. order'[o] = IF o \in payment[p].items THEN s ELSE order[o]
      BY <1>4 DEF ApplyPaymentStatus, SyncedOrderStatus
    <2>4. payment'[p].status = s /\ payment'[p].items = payment[p].items
      BY <2>1, <2>2 DEF Typed, TypeOK, PaymentRows
    <2> HIDE DEF p, s
    <2>. QED BY <2>1, <2>3, <2>4
  <1>5. CASE UNCHANGED vars
    BY <1>1, <1>5 DEF vars
  <1>6. CASE Desk
    BY <1>1, <1>6 DEF Desk
  <1>. QED BY <1>1, <1>2, <1>3, <1>4, <1>5, <1>6 DEF Next, Advance

LEMMA NextPaid ==
  ASSUME Typed, PaidOrderWasPaid, [Next]_vars
  PROVE  PaidOrderWasPaid'
  <1> SUFFICES ASSUME NEW o \in Orders, order'[o] = "SUCCEEDED"
               PROVE  \E p \in Payments :
                         payment'[p].status = "SUCCEEDED" /\ o \in payment'[p].items
    BY DEF PaidOrderWasPaid
  <1>1. CASE order[o] = "SUCCEEDED"
    <2>1. PICK p \in Payments : payment[p].status = "SUCCEEDED" /\ o \in payment[p].items
      BY <1>1 DEF PaidOrderWasPaid
    <2>2. payment'[p] = payment[p]
      BY <2>1, NextDecided
    <2>. QED BY <2>1, <2>2
  <1>. QED BY <1>1, PaidSteps

\* An order that reads SUCCEEDED is covered by a payment that succeeded,
\* however webhooks, cancellations and refunds overlap.
THEOREM PaidByAPayment == Spec => []PaidOrderWasPaid
  <1>1. Init => PaidOrderWasPaid
    BY DEF Init, PaidOrderWasPaid
  <1>2. Typed /\ PaidOrderWasPaid /\ [Next]_vars => PaidOrderWasPaid'
    BY NextPaid
  <1>. QED BY <1>1, <1>2, AlwaysTyped, PTL DEF Spec

-----------------------------------------------------------------------------
(* Payments implement SettlementPromise.                                    *)

HasEntries == {p \in Payments : EntriesOf(p) # {}}

\* Under the invariants the abstract "credited" is the set of successful payments.
LEMMA CreditedPayments ==
  Typed /\ SettledIffCredited
    => HasEntries = {p \in Payments : payment[p].status = "SUCCEEDED"}
  <1> SUFFICES ASSUME Typed, SettledIffCredited
               PROVE  HasEntries = {p \in Payments : payment[p].status = "SUCCEEDED"}
    OBVIOUS
  <1>1. ASSUME NEW p \in Payments
        PROVE  EntriesOf(p) # {} <=> payment[p].status = "SUCCEEDED"
    <2>1. CASE payment[p].status = "SUCCEEDED"
      <3>1. PICK o \in payment[p].items : TRUE
        BY <2>1 DEF Typed, NamesOrders
      <3>2. Credit(p, o, "SELLER_BALANCE") \in CreditLegs(p)
        BY <3>1 DEF CreditLegs
      <3>. QED BY <2>1, <3>2 DEF SettledIffCredited
    <2>2. CASE payment[p].status # "SUCCEEDED"
      BY <2>2 DEF SettledIffCredited
    <2>. QED BY <2>1, <2>2
  <1>. QED BY <1>1 DEF HasEntries

LEMMA InitPromise == Init => Promise!Init
  <1> SUFFICES ASSUME Init PROVE Promise!Init
    OBVIOUS
  <1>1. [p \in Payments |-> payment[p].status] \in [Payments -> {"NONE", "PENDING"}]
    BY DEF Init
  <1>2. {p \in Payments : EntriesOf(p) # {}} = {}
    BY DEF Init, EmptyLedger, EntriesOf
  <1>. QED BY <1>1, <1>2 DEF Promise!Init

LEMMA NextPromise ==
  ASSUME Typed, Typed', SettledIffCredited, SettledIffCredited', [Next]_vars
  PROVE  [Promise!Next]_<<[p \in Payments |-> payment[p].status], HasEntries>>
  <1> DEFINE phase == [p \in Payments |-> payment[p].status]
             final == {"SUCCEEDED", "FAILED", "REFUNDED"}
  <1>1. HasEntries = {p \in Payments : phase[p] = "SUCCEEDED"}
    BY CreditedPayments
  <1>2. HasEntries' = {p \in Payments : phase'[p] = "SUCCEEDED"}
    <2>1. (Typed /\ SettledIffCredited
             => HasEntries = {p \in Payments : payment[p].status = "SUCCEEDED"})'
      BY CreditedPayments, PTL
    <2>. QED BY <2>1
  <1>3. CASE UNCHANGED payment
    BY <1>1, <1>2, <1>3
  <1>4. ASSUME NEW p \in Payments, Inserts(p)
        PROVE  Promise!Open(p)
    <2>1. phase[p] = "NONE" /\ phase' = [phase EXCEPT ![p] = "PENDING"]
      BY <1>4 DEF Inserts
    <2>2. HasEntries' = HasEntries
      BY <1>1, <1>2, <2>1
    <2>. QED BY <2>1, <2>2 DEF Promise!Open, HasEntries
  <1>5. ASSUME NEW p \in Payments, NEW s \in PaymentStatus, Decides(p, s)
        PROVE  UNCHANGED <<phase, HasEntries>> \/ (s \in final /\ Promise!Decide(p, s))
    <2>1. phase[p] = "PENDING" /\ phase' = [phase EXCEPT ![p] = s]
      BY <1>5 DEF Decides, Typed, TypeOK, PaymentRows
    <2>2. CASE s = "PENDING"
      <3>1. phase' = phase
        BY <2>1, <2>2
      <3>. QED BY <1>1, <1>2, <3>1
    <2>3. CASE s \in final
      <3>1. HasEntries' = IF s = "SUCCEEDED" THEN HasEntries \cup {p} ELSE HasEntries
        BY <1>1, <1>2, <2>1, <2>3
      <3>. QED BY <2>1, <2>3, <3>1 DEF Promise!Decide, HasEntries
    <2>. QED BY <2>2, <2>3 DEF PaymentStatus
  <1>6. ASSUME NEW f \in Refunds, PaysBack(f)
        PROVE  UNCHANGED payment
    BY <1>6 DEF PaysBack
  <1>7. Desk => UNCHANGED payment
    BY DEF Desk
  <1>. QED BY <1>3, <1>4, <1>5, <1>6, <1>7, MoneySteps DEF Promise!Next, HasEntries

\* Every behaviour of Payments is, seen through the refinement mapping, a
\* behaviour of SettlementPromise: a payment is decided once, and credited in
\* the step that makes it SUCCEEDED.
THEOREM KeepsThePromise == Spec => KeepsPromise
  <1>1. Typed /\ Typed' /\ SettledIffCredited /\ SettledIffCredited' /\ [Next]_vars
          => [Promise!Next]_<<[p \in Payments |-> payment[p].status],
                              {p \in Payments : EntriesOf(p) # {}}>>
    BY NextPromise DEF HasEntries
  <1>. QED BY <1>1, InitPromise, AlwaysTyped, CreditedExactly, PTL
           DEF Spec, KeepsPromise, Promise!Spec

-----------------------------------------------------------------------------
(* Handlers one at a time: what concurrent handlers break.                  *)

\* No handler but r is in flight.
Alone(r) == \A q \in Requests \ {r} : request[q] = Idle

\* No order is in two payments, decided or not.
ItemsApart ==
    /\ \A p, q \in Payments : p # q => payment[p].items \cap payment[q].items = {}
    /\ \A p \in Payments : payment[p].status = "NONE" => payment[p].items = {}

\* A refund is of an order whose payment succeeded, and not for more than its price.
RefundsOfPaid ==
    \A f \in Refunds :
        refund[f] # NoRefund =>
            /\ refund[f].amount <= Price[refund[f].order]
            /\ \E p \in Payments :
                  payment[p].status = "SUCCEEDED" /\ refund[f].order \in payment[p].items

\* An order has at most one refund that is not rejected.
OneActiveRefund ==
    \A f, g \in Refunds :
        f \in ActiveRefunds(refund[f].order) /\ g \in ActiveRefunds(refund[f].order) => f = g

\* What an owner has available, and what was taken from it by hand.
Spare(u) ==
    ledger.balance[<<u, "SELLER_AVAILABLE">>] + TakenByHand(ledger, <<u, "SELLER_AVAILABLE">>)

Funded == \A u \in Owners : Spare(u) >= 0

Tables ==
    /\ ItemsApart /\ OrderMirrorsPayment /\ PaidOrderWasPaid
    /\ RefundedIffPosted /\ RefundsOfPaid /\ OneActiveRefund /\ Funded

\* What a handler in slot content h has read still holds.
Knows(h) ==
    /\ h.at \in {"create_check", "create_insert"} => \A o \in h.orders : order[o] = "PENDING"
    /\ h.at = "create_insert" => \A p \in Payments : payment[p].items \cap h.orders = {}
    /\ h.at \in {"refund_check", "refund_insert"} =>
          order[h.order] = "SUCCEEDED" /\ h.amount <= Price[h.order]
    /\ h.at = "refund_insert" => ActiveRefunds(h.order) = {}
    /\ h.at \in {"approve", "approve_commit", "reject"} => refund[h.refund].status = "REQUESTED"
    /\ h.at = "approve_commit" =>
          Spare(Seller[refund[h.refund].order]) >= refund[h.refund].amount

Serial == Tables /\ \A r \in Requests : Knows(request[r])

LEMMA InitSerial == Init => Serial
  <1> SUFFICES ASSUME Init PROVE Serial
    OBVIOUS
  <1>1. PICK m \in Methods :
          payment = [p \in Payments |->
                       [status   |-> IF Basket[p] = {} THEN "NONE" ELSE "PENDING",
                        items    |-> Basket[p],
                        method   |-> m,
                        provider |-> "null"]]
    BY DEF Init
  <1>2. /\ \A p \in Payments : payment[p].items = Basket[p]
        /\ \A p \in Payments : payment[p].status = IF Basket[p] = {} THEN "NONE" ELSE "PENDING"
    BY <1>1
  <1>3. /\ order = [o \in Orders |-> "PENDING"] /\ refund = [f \in Refunds |-> NoRefund]
        /\ ledger = EmptyLedger /\ request = [r \in Requests |-> Idle]
    BY DEF Init
  <1>4. \A f \in Refunds : refund[f] = NoRefund /\ refund[f].status = "NONE" /\ EntriesOf(f) = {}
    BY <1>3 DEF NoRefund, EntriesOf, EmptyLedger
  <1>5. ItemsApart
    BY <1>2, PaymentsAssumption DEF ItemsApart
  <1>6. OrderMirrorsPayment
    <2> SUFFICES ASSUME NEW p \in Payments, NEW o \in Orders, o \in payment[p].items
                 PROVE  order[o] = payment[p].status
      BY <1>4 DEF OrderMirrorsPayment
    <2>. QED BY <1>2, <1>3
  <1>7. PaidOrderWasPaid
    BY <1>3 DEF PaidOrderWasPaid
  <1>8. RefundedIffPosted /\ RefundsOfPaid /\ OneActiveRefund
    BY <1>4 DEF RefundedIffPosted, RefundsOfPaid, OneActiveRefund, ActiveRefunds
  <1>9. Funded
    <2>1. \A u \in Owners : <<u, "SELLER_AVAILABLE">> \in Accounts
      BY DEF Accounts, AccountTypes
    <2>2. \A a \in Accounts : EmptyLedger.balance[a] = 0
      BY DEF EmptyLedger
    <2>3. \A a : TakenByHand(EmptyLedger, a) = 0
      <3>1. EmptyLedger.byHand = {}
        BY DEF EmptyLedger
      <3>2. \A a : TakenByHand(EmptyLedger, a) = -SignedSum({})
        BY <3>1 DEF TakenByHand
      <3>3. -SignedSum({}) = 0
        BY SignedSumNone
      <3>. QED BY <3>2, <3>3
    <2>4. \A u \in Owners : Spare(u) = 0 + 0
      BY <1>3, <2>1, <2>2, <2>3 DEF Spare
    <2>5. 0 + 0 >= 0
      OBVIOUS
    <2>. QED BY <2>4, <2>5 DEF Funded
  <1>10. \A r \in Requests : Knows(request[r])
    BY <1>3 DEF Knows, Idle
  <1>. QED BY <1>5, <1>6, <1>7, <1>8, <1>9, <1>10 DEF Serial, Tables

\* A handler that moves on, writing nothing.
LEMMA GotoSerial ==
  ASSUME Typed, Serial, NEW r \in Requests, Alone(r), NEW h, Goto(r, h), Knows(h),
         UNCHANGED <<ledger, order, payment, refund>>
  PROVE  Serial' /\ Alone(r)'
  <1>1. request' = [request EXCEPT ![r] = h] /\ DOMAIN request = Requests
    BY DEF Goto, Typed, TypeOK
  <1>2. request'[r] = h /\ \A q \in Requests \ {r} : request'[q] = Idle
    BY <1>1 DEF Alone
  <1>3. Knows(Idle)
    BY DEF Knows, Idle
  <1>4. \A q \in Requests : Knows(request'[q])
    BY <1>2, <1>3
  <1>5. \A q \in Requests : Knows(request[q])'
    BY <1>4 DEF Knows, ActiveRefunds, Spare
  <1>6. Tables'
    BY DEF Serial, Tables, ItemsApart, OrderMirrorsPayment, PaidOrderWasPaid, RefundedIffPosted,
           RefundsOfPaid, OneActiveRefund, ActiveRefunds, Funded, Spare, EntriesOf
  <1>. QED BY <1>2, <1>5, <1>6 DEF Serial, Alone

\* A handler that ends leaves none in flight.
LEMMA ReturnSerial ==
  ASSUME Typed, NEW r \in Requests, Alone(r), Return(r), Tables'
  PROVE  Serial' /\ Alone(r)'
  <1>1. \A q \in Requests : request'[q] = Idle
    BY DEF Return, Goto, Alone, Typed, TypeOK
  <1>. QED BY <1>1 DEF Serial, Knows, Idle, Alone

LEMMA CallSerial ==
  ASSUME Typed, Serial, NEW r \in Requests, Alone(r), Call(r)
  PROVE  Serial' /\ Alone(r)'
  <1>1. ASSUME NEW os \in SUBSET Orders, NEW m \in Methods, CreatePayment(r, os, m)
        PROVE  Serial' /\ Alone(r)'
    <2>1. Knows([at |-> "create_check", orders |-> os, method |-> m])
      BY <1>1 DEF CreatePayment, Knows
    <2>. QED BY <1>1, <2>1, GotoSerial DEF CreatePayment
  <1>2. ASSUME NEW p \in Payments, NEW s \in PaymentStatus, ReadPayment(r, p, s)
        PROVE  Serial' /\ Alone(r)'
    <2>1. Knows([at |-> "settle", payment |-> p, status |-> s])
      BY DEF Knows
    <2>. QED BY <1>2, <2>1, GotoSerial DEF ReadPayment
  <1>3. ASSUME NEW o \in Orders, NEW amount \in 1..Price[o], RequestRefund(r, o, amount)
        PROVE  Serial' /\ Alone(r)'
    <2>1. amount <= Price[o]
      BY PaymentsAssumption
    <2>2. Knows([at |-> "refund_check", order |-> o, amount |-> amount])
      BY <1>3, <2>1 DEF RequestRefund, Knows
    <2>. QED BY <1>3, <2>2, GotoSerial DEF RequestRefund
  <1>4. ASSUME NEW f \in Refunds, NEW step \in {"approve", "reject"}, ReadRefund(r, f, step)
        PROVE  Serial' /\ Alone(r)'
    <2>1. Knows([at |-> step, refund |-> f])
      BY <1>4 DEF ReadRefund, Knows
    <2>. QED BY <1>4, <2>1, GotoSerial DEF ReadRefund
  <1>. QED BY <1>1, <1>2, <1>3, <1>4 DEF Call

LEMMA FailSerial ==
  ASSUME Typed, Serial, NEW r \in Requests, Alone(r), Fail(r)
  PROVE  Serial' /\ Alone(r)'
  <1>1. Knows(Idle)
    BY DEF Knows, Idle
  <1>. QED BY <1>1, GotoSerial DEF Fail, Return

\* An order of a payment with a refund: the payment is the one that succeeded.
LEMMA RefundedOrder ==
  ASSUME Typed, Tables, NEW p \in Payments, NEW f \in Refunds, refund[f] # NoRefund,
         refund[f].order \in payment[p].items
  PROVE  payment[p].status = "SUCCEEDED"
  <1>1. PICK q \in Payments :
          payment[q].status = "SUCCEEDED" /\ refund[f].order \in payment[q].items
    BY DEF Tables, RefundsOfPaid
  <1>2. p = q
    BY <1>1 DEF Tables, ItemsApart
  <1>. QED BY <1>1, <1>2

\* An order that reads PENDING or SUCCEEDED says so of its payment.
LEMMA MirroredStatus ==
  ASSUME Typed, Tables, NEW p \in Payments, NEW o \in payment[p].items,
         order[o] \in {"PENDING", "SUCCEEDED"}
  PROVE  payment[p].status = order[o]
  <1>1. o \in Orders
    BY DEF Typed, TypeOK, PaymentRows
  <1>. QED BY <1>1 DEF Tables, OrderMirrorsPayment

\* createPayment checks that no payment of its orders is open.
LEMMA CreateSerial ==
  ASSUME Typed, Serial, NEW r \in Requests, Alone(r),
         FindPendingPayments(r) \/ \E p \in Payments : InsertPayment(r, p)
  PROVE  Serial' /\ Alone(r)'
  <1> DEFINE os == request[r].orders
  <1>0. request[r] \in Handlers /\ Knows(request[r]) /\ Tables
    BY DEF Typed, TypeOK, Serial
  <1>1. CASE FindPendingPayments(r)
    <2>1. request[r] = [at |-> "create_check", orders |-> os, method |-> request[r].method]
      BY <1>0, <1>1 DEF FindPendingPayments, Handlers, Idle
    <2> DEFINE next == [request[r] EXCEPT !.at = "create_insert"]
    <2>2. next = [at |-> "create_insert", orders |-> os, method |-> request[r].method]
      BY <2>1
    <2>3. \A o \in os : order[o] = "PENDING"
      BY <1>0, <1>1 DEF FindPendingPayments, Knows
    <2>4. CASE OpenPayments(os) = {}
      <3>1. ASSUME NEW p \in Payments, NEW o \in payment[p].items \cap os
            PROVE  FALSE
        <4>1. payment[p].status = "PENDING"
          BY <1>0, <2>3, <3>1, MirroredStatus
        <4>. QED BY <2>4, <3>1, <4>1 DEF OpenPayments
      <3>2. \A p \in Payments : payment[p].items \cap os = {}
        BY <3>1
      <3>3. Knows(next)
        BY <2>2, <2>3, <3>2 DEF Knows
      <3>4. Goto(r, next)
        BY <1>1, <2>4 DEF FindPendingPayments
      <3> HIDE DEF next
      <3>. QED BY <1>1, <3>3, <3>4, GotoSerial DEF FindPendingPayments
    <2>5. CASE OpenPayments(os) # {}
      <3>1. Knows(Idle)
        BY DEF Knows, Idle
      <3>2. Goto(r, Idle)
        BY <1>1, <2>5 DEF FindPendingPayments
      <3>. QED BY <1>1, <3>1, <3>2, GotoSerial DEF FindPendingPayments
    <2>. QED BY <2>4, <2>5
  <1>2. ASSUME NEW p \in Payments, InsertPayment(r, p)
        PROVE  Serial' /\ Alone(r)'
    <2>1. /\ \A o \in os : order[o] = "PENDING"
          /\ \A q \in Payments : payment[q].items \cap os = {}
      BY <1>0, <1>2 DEF InsertPayment, Knows
    <2>2. /\ payment'[p].status = "PENDING" /\ payment'[p].items = os
          /\ \A q \in Payments : q # p => payment'[q] = payment[q]
          /\ payment[p].status = "NONE"
          /\ UNCHANGED <<ledger, order, refund>>
      BY <1>2 DEF InsertPayment, Typed, TypeOK
    <2> HIDE DEF os
    <2>3. ItemsApart'
      BY <1>0, <2>1, <2>2 DEF Tables, ItemsApart
    <2>4. ASSUME NEW q \in Payments, payment[q].status = "SUCCEEDED"
          PROVE  payment'[q] = payment[q]
      BY <2>2, <2>4
    <2>5. PaidOrderWasPaid' /\ RefundsOfPaid'
      <3>1. PaidOrderWasPaid'
        BY <1>0, <2>2, <2>4 DEF Tables, PaidOrderWasPaid
      <3>2. RefundsOfPaid'
        BY <1>0, <2>2, <2>4 DEF Tables, RefundsOfPaid
      <3>. QED BY <3>1, <3>2
    <2>6. OrderMirrorsPayment'
      <3> SUFFICES ASSUME NEW q \in Payments, NEW o \in Orders, o \in payment'[q].items
                   PROVE  order[o] = IF \E f \in Refunds : refund[f].status = "REFUNDED"
                                                           /\ refund[f].order = o
                                     THEN "FAILED" ELSE payment'[q].status
        BY <2>2 DEF OrderMirrorsPayment
      <3>1. CASE q = p
        <4>1. o \in os
          BY <2>2, <3>1
        <4>2. ASSUME NEW f \in Refunds, refund[f].status = "REFUNDED", refund[f].order = o
              PROVE  FALSE
          <5>1. refund[f] # NoRefund
            BY <4>2 DEF NoRefund
          <5>. QED BY <1>0, <2>1, <4>1, <4>2, <5>1 DEF Tables, RefundsOfPaid
        <4>. QED BY <2>1, <2>2, <3>1, <4>1, <4>2
      <3>2. CASE q # p
        BY <1>0, <2>2, <3>2 DEF Tables, OrderMirrorsPayment
      <3>. QED BY <3>1, <3>2
    <2>7. RefundedIffPosted' /\ OneActiveRefund' /\ Funded'
      BY <1>0, <2>2 DEF Tables, RefundedIffPosted, OneActiveRefund, ActiveRefunds, Funded, Spare,
             EntriesOf
    <2>8. Tables'
      BY <2>3, <2>5, <2>6, <2>7 DEF Tables
    <2>. QED BY <1>2, <2>8, ReturnSerial DEF InsertPayment
  <1>. QED BY <1>1, <1>2

\* What was taken by hand is an amount.
LEMMA SpareInt ==
  ASSUME Typed, FiniteBook(ledger), NEW u \in Owners
  PROVE  /\ ledger.balance[<<u, "SELLER_AVAILABLE">>] \in Int
         /\ TakenByHand(ledger, <<u, "SELLER_AVAILABLE">>) \in Nat
         /\ Spare(u) \in Int
  <1>1. <<u, "SELLER_AVAILABLE">> \in Accounts
    BY DEF Accounts, AccountTypes
  <1>2. ledger \in Ledgers
    BY DEF Typed, TypeOK
  <1>3. ledger.balance[<<u, "SELLER_AVAILABLE">>] \in Int
    BY <1>1, <1>2 DEF Ledgers
  <1>4. TakenByHand(ledger, <<u, "SELLER_AVAILABLE">>) \in Nat
    BY <1>2, TakenNat
  <1>. QED BY <1>3, <1>4 DEF Spare

\* A transaction changes it by what it adds to the account.
LEMMA SparePosted ==
  ASSUME Typed, FiniteBook(ledger), NEW u \in Owners,
         NEW legs, legs \subseteq Entries, ledger' = Posted(ledger, legs)
  PROVE  Spare(u)' = Spare(u) + Delta(legs, <<u, "SELLER_AVAILABLE">>)
  <1> DEFINE b == ledger.balance[<<u, "SELLER_AVAILABLE">>]
             d == Delta(legs, <<u, "SELLER_AVAILABLE">>)
             t == TakenByHand(ledger, <<u, "SELLER_AVAILABLE">>)
  <1>1. <<u, "SELLER_AVAILABLE">> \in Accounts /\ ledger \in Ledgers
    BY DEF Accounts, AccountTypes, Typed, TypeOK
  <1>2. ledger'.balance[<<u, "SELLER_AVAILABLE">>] = b + d
    BY <1>1, PostedBalance
  <1>3. TakenByHand(ledger', <<u, "SELLER_AVAILABLE">>) = t
    BY <1>1, PostedHands
  <1>4. Spare(u)' = (b + d) + t /\ Spare(u) = b + t
    BY <1>2, <1>3 DEF Spare
  <1>5. b \in Int /\ d \in Int /\ t \in Int
    BY <1>1, DeltaType, SpareInt
  <1> HIDE DEF b, d, t
  <1>. QED BY <1>4, <1>5 DEF d

\* The desk may take from it, but then counts it.
LEMMA DeskSpare ==
  ASSUME Typed, FiniteBook(ledger), Desk, NEW u \in Owners
  PROVE  Spare(u) \in Int /\ Spare(u)' \in Int /\ Spare(u)' >= Spare(u)
  <1>1. /\ ledger \in Ledgers /\ ledger' \in ByHand(ledger) /\ ledger' \in Ledgers
        /\ FiniteBook(ledger')
    BY DeskFrame DEF Desk, Typed, TypeOK
  <1>5. <<u, "SELLER_AVAILABLE">> \in Accounts
    BY DEF Accounts, AccountTypes
  <1>2. Spare(u)' >= Spare(u)
    BY <1>1, <1>5, DeskMoves DEF Spare
  <1>3. ledger'.balance[<<u, "SELLER_AVAILABLE">>] \in Int
    BY <1>1, <1>5 DEF Ledgers
  <1>4. TakenByHand(ledger', <<u, "SELLER_AVAILABLE">>) \in Nat
    BY <1>1, TakenNat
  <1>. QED BY <1>2, <1>3, <1>4, SpareInt DEF Spare

\* What handlers know stays true behind the desk.
LEMMA DeskSerial ==
  ASSUME Typed, FiniteBook(ledger), Serial, Desk
  PROVE  Serial' /\ UNCHANGED request
  <1>1. /\ UNCHANGED <<order, payment, refund, request>>
        /\ \A txn : EntriesOf(txn)' = EntriesOf(txn)
        /\ ledger \in Ledgers /\ ledger' \in ByHand(ledger) /\ ledger' \in Ledgers
        /\ FiniteBook(ledger')
    BY DeskEntries, DeskFrame DEF Desk, Typed, TypeOK
  <1>2. ASSUME NEW u \in Owners
        PROVE  Spare(u) \in Int /\ Spare(u)' \in Int /\ Spare(u)' >= Spare(u)
    BY DeskSpare
  <1>3. \A m, n, k \in Int : m >= n /\ n >= k => m >= k
    OBVIOUS
  <1>4. Funded'
    BY <1>2, <1>3 DEF Serial, Tables, Funded
  <1>5. Tables'
    BY <1>1, <1>4 DEF Serial, Tables, ItemsApart, OrderMirrorsPayment, PaidOrderWasPaid,
           RefundedIffPosted, RefundsOfPaid, OneActiveRefund, ActiveRefunds
  <1>6. ASSUME NEW r \in Requests
        PROVE  Knows(request[r])'
    <2> DEFINE h == request[r]
               g == h.refund
    <2>1. Knows(h) /\ request' = request
      BY <1>1 DEF Serial
    <2>2. h.at = "approve_commit" => Spare(Seller[refund[g].order])' >= refund[g].amount
      <3> SUFFICES ASSUME h.at = "approve_commit"
                   PROVE  Spare(Seller[refund[g].order])' >= refund[g].amount
        OBVIOUS
      <3>1. g \in Refunds /\ refund[g].status = "REQUESTED"
        BY <2>1, HandlerFields DEF Knows, Typed, TypeOK
      <3>2. refund[g] \in RefundRows
        BY <3>1, InsertedRefund DEF Typed, NoRefund
      <3>3. Seller[refund[g].order] \in Owners /\ refund[g].amount \in Int
        BY <3>2, PaymentsAssumption DEF RefundRows
      <3>4. Spare(Seller[refund[g].order]) >= refund[g].amount
        BY <2>1 DEF Knows
      <3> DEFINE u == Seller[refund[g].order]
                 n == refund[g].amount
      <3>5. Spare(u)' >= Spare(u) /\ Spare(u) \in Int /\ Spare(u)' \in Int
        <4>1. \A v \in Owners : Spare(v) \in Int /\ Spare(v)' \in Int /\ Spare(v)' >= Spare(v)
          BY <1>2
        <4>. QED BY <1>1, <3>3, <4>1
      <3>6. n' = n /\ u' = u
        BY <1>1
      <3>. QED BY <1>3, <3>3, <3>4, <3>5, <3>6
    <2>. QED BY <1>1, <2>1, <2>2 DEF Knows, ActiveRefunds
  <1>. QED BY <1>1, <1>5, <1>6 DEF Serial

\* A settlement takes nothing from an account.
LEMMA CreditsAdd ==
  ASSUME payment \in [Payments -> PaymentRows], NEW p \in Payments, NEW a
  PROVE  Delta(CreditLegs(p), a) \in Nat
  <1>1. ASSUME NEW e \in CreditLegs(p)
        PROVE  Signed(e) \in Nat
    <2>1. PICK o \in payment[p].items, t \in {"SELLER_BALANCE", "SELLER_AVAILABLE"} :
             e = Credit(p, o, t)
      BY CreditLegsMembers
    <2>2. o \in Orders
      BY DEF PaymentRows
    <2>. QED BY <2>1, <2>2, CreditFields, PaymentsAssumption
  <1>. QED BY <1>1, DeltaAdds

\* A settled payment gives its orders its status.
LEMMA ApplySerial ==
  ASSUME Typed, FiniteBook(ledger), Serial, NEW r \in Requests, Alone(r), ApplyPaymentStatus(r)
  PROVE  Serial' /\ Alone(r)'
  <1> DEFINE p == request[r].payment
             s == request[r].status
  <1>0. /\ p \in Payments /\ s \in PaymentStatus
        /\ Tables /\ Return(r) /\ UNCHANGED refund
    BY HandlerFields DEF ApplyPaymentStatus, Typed, TypeOK, Serial
  <1>1. ASSUME Tables'
        PROVE  Serial' /\ Alone(r)'
    BY <1>0, <1>1, ReturnSerial
  <1>2. CASE UNCHANGED <<payment, order, ledger>>
    <2>1. Tables'
      BY <1>0, <1>2 DEF Tables, ItemsApart, OrderMirrorsPayment, PaidOrderWasPaid,
             RefundedIffPosted, RefundsOfPaid, OneActiveRefund, ActiveRefunds, Funded, Spare, EntriesOf
    <2>. QED BY <1>1, <2>1
  <1>3. CASE ~UNCHANGED <<payment, order, ledger>>
    <2>1. /\ payment[p].status = "PENDING"
          /\ payment' = [payment EXCEPT ![p].status = s]
          /\ order' = [o \in Orders |-> IF o \in payment[p].items THEN s ELSE order[o]]
          /\ ledger' = IF s = "SUCCEEDED" THEN Posted(ledger, CreditLegs(p)) ELSE ledger
          /\ s = "SUCCEEDED" => ~KeysCollide(p)
      BY <1>3 DEF ApplyPaymentStatus, Claimed, SyncedOrderStatus
    <2>2. /\ payment'[p].status = s /\ payment'[p].items = payment[p].items
          /\ \A q \in Payments : q # p => payment'[q] = payment[q]
      BY <1>0, <2>1 DEF Typed, TypeOK, PaymentRows
    <2>3. \A o \in Orders : order'[o] = IF o \in payment[p].items THEN s ELSE order[o]
      BY <2>1
    <2>a. Next
      BY DEF Next, Advance
    <2> HIDE DEF p, s
    <2>4. ItemsApart'
      BY <1>0, <2>1, <2>2 DEF Tables, ItemsApart, PaymentStatus
    <2>5. OrderMirrorsPayment'
      <3> SUFFICES ASSUME NEW q \in Payments, NEW o \in Orders, o \in payment'[q].items
                   PROVE  order'[o] = IF \E f \in Refunds : refund[f].status = "REFUNDED"
                                                            /\ refund[f].order = o
                                      THEN "FAILED" ELSE payment'[q].status
        BY <1>0 DEF OrderMirrorsPayment
      <3>0. o \in payment[q].items
        BY <2>2
      <3>1. CASE q = p
        <4>1. order'[o] = s /\ payment'[q].status = s
          BY <2>2, <2>3, <3>0, <3>1
        <4>2. ASSUME NEW f \in Refunds, refund[f].status = "REFUNDED", refund[f].order = o
              PROVE  FALSE
          <5>1. refund[f] # NoRefund
            BY <4>2 DEF NoRefund
          <5>. QED BY <1>0, <2>1, <3>0, <3>1, <4>2, <5>1, RefundedOrder
        <4>. QED BY <4>1, <4>2
      <3>2. CASE q # p
        <4>1. o \notin payment[p].items
          BY <1>0, <3>0, <3>2 DEF Tables, ItemsApart
        <4>. QED BY <1>0, <2>2, <2>3, <3>0, <3>2, <4>1 DEF Tables, OrderMirrorsPayment
      <3>. QED BY <3>1, <3>2
    <2>6. PaidOrderWasPaid'
      BY <1>0, <2>a, NextPaid DEF Tables
    <2>7. RefundsOfPaid'
      <3>1. \A q \in Payments : payment[q].status = "SUCCEEDED" => payment'[q] = payment[q]
        BY <2>1, <2>2
      <3>. QED BY <1>0, <3>1 DEF Tables, RefundsOfPaid
    <2>8. RefundedIffPosted'
      <3>1. \A f \in Refunds : EntriesOf(f)' = EntriesOf(f)
        <4>1. ASSUME NEW f \in Refunds
              PROVE  EntriesOf(f)' = EntriesOf(f)
          <5>1. {e \in CreditLegs(p) : e.txn = f} = {}
            BY <1>0, CreditLegsTxn, PaymentsAssumption
          <5>2. ledger' = ledger \/ ledger' = Posted(ledger, CreditLegs(p))
            BY <2>1
          <5>. QED BY <5>1, <5>2, PostedEntries DEF EntriesOf
        <4>. QED BY <4>1
      <3>. QED BY <1>0, <3>1 DEF Tables, RefundedIffPosted
    <2>9. OneActiveRefund'
      BY <1>0 DEF Tables, OneActiveRefund, ActiveRefunds
    <2>10. Funded'
      <3>1. CASE s # "SUCCEEDED"
        BY <1>0, <2>1, <3>1 DEF Tables, Funded, Spare
      <3>2. CASE s = "SUCCEEDED"
        <4> SUFFICES ASSUME NEW u \in Owners
                     PROVE  Spare(u)' >= 0
          BY DEF Funded
        <4>1. <<u, "SELLER_AVAILABLE">> \in Accounts
          BY DEF Accounts, AccountTypes
        <4>2. CreditLegs(p) \subseteq Entries
          BY <1>0, CreditLegsType DEF Typed, TypeOK
        <4>3. Spare(u)' = Spare(u) + Delta(CreditLegs(p), <<u, "SELLER_AVAILABLE">>)
          BY <2>1, <3>2, <4>2, SparePosted
        <4>4. Delta(CreditLegs(p), <<u, "SELLER_AVAILABLE">>) \in Nat
          BY <1>0, CreditsAdd DEF Typed, TypeOK
        <4>5. Spare(u) \in Int /\ Spare(u) >= 0
          BY <1>0, SpareInt DEF Tables, Funded
        <4>6. \A m \in Int, n \in Nat : m >= 0 => m + n >= 0
          OBVIOUS
        <4>. QED BY <4>3, <4>4, <4>5, <4>6
      <3>. QED BY <3>1, <3>2
    <2>11. Tables'
      BY <2>4, <2>5, <2>6, <2>7, <2>8, <2>9, <2>10 DEF Tables
    <2>. QED BY <1>1, <2>11
  <1>. QED BY <1>2, <1>3

\* requestRefund checks that the order has no active refund.
LEMMA RefundSerial ==
  ASSUME Typed, Serial, NEW r \in Requests, Alone(r),
         FindExistingRefund(r) \/ \E f \in Refunds : InsertRefund(r, f)
  PROVE  Serial' /\ Alone(r)'
  <1> DEFINE o == request[r].order
             n == request[r].amount
  <1>0. request[r] \in Handlers /\ Knows(request[r]) /\ Tables
    BY DEF Typed, TypeOK, Serial
  <1>1. CASE FindExistingRefund(r)
    <2>1. request[r] = [at |-> "refund_check", order |-> o, amount |-> n]
      BY <1>0, <1>1 DEF FindExistingRefund, Handlers, Idle
    <2> DEFINE next == [request[r] EXCEPT !.at = "refund_insert"]
    <2>2. next = [at |-> "refund_insert", order |-> o, amount |-> n]
      BY <2>1
    <2>3. order[o] = "SUCCEEDED" /\ n <= Price[o]
      BY <1>0, <1>1 DEF FindExistingRefund, Knows
    <2>4. CASE ActiveRefunds(o) = {}
      <3>1. Knows(next)
        BY <2>2, <2>3, <2>4 DEF Knows
      <3>2. Goto(r, next)
        BY <1>1, <2>4 DEF FindExistingRefund
      <3> HIDE DEF next
      <3>. QED BY <1>1, <3>1, <3>2, GotoSerial DEF FindExistingRefund
    <2>5. CASE ActiveRefunds(o) # {}
      <3>1. Knows(Idle)
        BY DEF Knows, Idle
      <3>2. Goto(r, Idle)
        BY <1>1, <2>5 DEF FindExistingRefund
      <3>. QED BY <1>1, <3>1, <3>2, GotoSerial DEF FindExistingRefund
    <2>. QED BY <2>4, <2>5
  <1>2. ASSUME NEW f \in Refunds, InsertRefund(r, f)
        PROVE  Serial' /\ Alone(r)'
    <2>1. order[o] = "SUCCEEDED" /\ n <= Price[o] /\ ActiveRefunds(o) = {}
      BY <1>0, <1>2 DEF InsertRefund, Knows
    <2>2. o \in Orders
      BY <1>0, <1>2, HandlerFields DEF InsertRefund
    <2>3. PICK p \in Payments : payment[p].status = "SUCCEEDED" /\ o \in payment[p].items
      BY <1>0, <2>1, <2>2 DEF Tables, PaidOrderWasPaid
    <2>4. /\ refund'[f].status = "REQUESTED" /\ refund'[f].order = o /\ refund'[f].amount = n
          /\ \A g \in Refunds : g # f => refund'[g] = refund[g]
          /\ refund[f] = NoRefund /\ refund[f].status = "NONE"
          /\ UNCHANGED <<ledger, order, payment>>
      BY <1>2 DEF InsertRefund, Typed, TypeOK, NoRefund
    <2> HIDE DEF o, n
    <2>5. ItemsApart' /\ PaidOrderWasPaid' /\ Funded'
      BY <1>0, <2>4 DEF Tables, ItemsApart, PaidOrderWasPaid, Funded, Spare
    <2>6. OrderMirrorsPayment'
      <3>1. \A q : (\E g \in Refunds : refund'[g].status = "REFUNDED" /\ refund'[g].order = q)
                   <=> (\E g \in Refunds : refund[g].status = "REFUNDED" /\ refund[g].order = q)
        BY <2>4
      <3>. QED BY <1>0, <2>4, <3>1 DEF Tables, OrderMirrorsPayment
    <2>7. RefundedIffPosted'
      <3>1. \A g \in Refunds : EntriesOf(g)' = EntriesOf(g)
        BY <2>4 DEF EntriesOf
      <3>2. \A g \in Refunds : refund'[g].status = "REFUNDED" <=> refund[g].status = "REFUNDED"
        BY <2>4
      <3>. QED BY <1>0, <3>1, <3>2 DEF Tables, RefundedIffPosted
    <2>8. RefundsOfPaid'
      BY <1>0, <2>1, <2>3, <2>4 DEF Tables, RefundsOfPaid
    <2>9. OneActiveRefund'
      <3> SUFFICES ASSUME NEW g \in Refunds, NEW h \in Refunds, g # h,
                          refund'[g].status \in {"REQUESTED", "APPROVED", "REFUNDED"},
                          refund'[h].status \in {"REQUESTED", "APPROVED", "REFUNDED"},
                          refund'[g].order = refund'[h].order
                   PROVE  FALSE
        BY DEF OneActiveRefund, ActiveRefunds
      <3>1. \A k \in Refunds : k # f /\ refund'[k].order = o
                => refund'[k].status \notin {"REQUESTED", "APPROVED", "REFUNDED"}
        BY <2>1, <2>4 DEF ActiveRefunds
      <3>2. g # f /\ h # f
        BY <2>4, <3>1
      <3>. QED BY <1>0, <2>4, <3>2 DEF Tables, OneActiveRefund, ActiveRefunds
    <2>10. Tables'
      BY <2>5, <2>6, <2>7, <2>8, <2>9 DEF Tables
    <2>. QED BY <1>2, <2>10, ReturnSerial DEF InsertRefund
  <1>. QED BY <1>1, <1>2

\* A refund's entries take its amount from the seller's available account.
LEMMA RefundTakes ==
  ASSUME NEW f \in Refunds, refund[f] \in RefundRows, NEW u \in Owners
  PROVE  Delta(RefundLegs(f), <<u, "SELLER_AVAILABLE">>)
           = IF u = Seller[refund[f].order] THEN -refund[f].amount ELSE 0
  <1> DEFINE leg == [account |-> <<Seller[refund[f].order], "SELLER_AVAILABLE">>, txn |-> f,
                     category |-> "REFUND", type |-> "DEBIT", amount |-> refund[f].amount]
  <1>1. leg \in RefundLegs(f)
    BY DEF RefundLegs
  <1>2. leg.account = <<Seller[refund[f].order], "SELLER_AVAILABLE">> /\ Signed(leg) = -refund[f].amount
    BY DEF Signed
  <1>3. OneLegEach(RefundLegs(f))
    BY RefundIsTransaction DEF Transaction
  <1> HIDE DEF leg
  <1>4. CASE u = Seller[refund[f].order]
    BY <1>1, <1>2, <1>3, <1>4, DeltaOfLeg
  <1>5. CASE u # Seller[refund[f].order]
    <2>1. \A e \in RefundLegs(f) : e.account # <<u, "SELLER_AVAILABLE">>
      BY <1>5 DEF RefundLegs
    <2>. QED BY <1>5, <2>1 DEF Delta
  <1>. QED BY <1>4, <1>5

\* approveSellerRefund reads the balance its transaction takes the money from.
LEMMA ApproveSerial ==
  ASSUME Typed, FiniteBook(ledger), Serial, NEW r \in Requests, Alone(r),
         BeginApproval(r) \/ CommitApproval(r) \/ RejectRefund(r)
  PROVE  Serial' /\ Alone(r)'
  <1> DEFINE f == request[r].refund
             o == refund[f].order
             n == refund[f].amount
  <1>0. request[r] \in Handlers /\ Knows(request[r]) /\ Tables
    BY DEF Typed, TypeOK, Serial
  <1>1. f \in Refunds /\ refund[f].status = "REQUESTED"
    BY <1>0, HandlerFields DEF BeginApproval, CommitApproval, RejectRefund, Knows
  <1>2. refund[f] \in RefundRows /\ refund[f] # NoRefund /\ o \in Orders /\ n \in Nat
    <2>1. refund[f] # NoRefund
      BY <1>1 DEF NoRefund
    <2>. QED BY <1>1, <2>1, InsertedRefund DEF Typed, RefundRows
  <1>3. CASE BeginApproval(r)
    <2>1. request[r] = [at |-> "approve", refund |-> f]
      BY <1>0, <1>3 DEF BeginApproval, Handlers, Idle
    <2> DEFINE next == [request[r] EXCEPT !.at = "approve_commit"]
    <2>2. next = [at |-> "approve_commit", refund |-> f]
      BY <2>1
    <2>3. UNCHANGED <<ledger, order, payment, refund>>
      BY <1>3 DEF BeginApproval
    <2>4. CASE AvailableOf(f) >= n
      <3>0. Spare(Seller[o]) >= n
        <4>1. Seller[o] \in Owners
          BY <1>2, PaymentsAssumption
        <4>2. AvailableOf(f) = ledger.balance[<<Seller[o], "SELLER_AVAILABLE">>]
          BY DEF AvailableOf
        <4>3. /\ AvailableOf(f) \in Int /\ TakenByHand(ledger, <<Seller[o], "SELLER_AVAILABLE">>) \in Nat
              /\ Spare(Seller[o]) = AvailableOf(f) + TakenByHand(ledger, <<Seller[o], "SELLER_AVAILABLE">>)
          BY <4>1, <4>2, SpareInt DEF Spare
        <4> HIDE DEF n, f, o
        <4>. QED BY <1>2, <2>4, <4>3
      <3>1. Knows(next)
        BY <1>1, <2>2, <3>0 DEF Knows
      <3>2. Goto(r, next)
        BY <1>3, <2>4 DEF BeginApproval
      <3> HIDE DEF next
      <3>. QED BY <2>3, <3>1, <3>2, GotoSerial
    <2>5. CASE ~(AvailableOf(f) >= n)
      <3>1. Knows(Idle)
        BY DEF Knows, Idle
      <3>2. Goto(r, Idle)
        BY <1>3, <2>5 DEF BeginApproval
      <3>. QED BY <2>3, <3>1, <3>2, GotoSerial
    <2>. QED BY <2>4, <2>5
  <1>4. ASSUME NEW s \in {"REFUNDED", "REJECTED"}, refund' = [refund EXCEPT ![f].status = s]
        PROVE  /\ refund'[f].status = s /\ refund'[f].order = o /\ refund'[f].amount = n
               /\ \A g \in Refunds : g # f => refund'[g] = refund[g]
               /\ OneActiveRefund'
    <2>1. /\ refund'[f].status = s /\ refund'[f].order = o /\ refund'[f].amount = n
          /\ \A g \in Refunds : g # f => refund'[g] = refund[g]
      BY <1>1, <1>2, <1>4 DEF Typed, TypeOK, RefundRows
    <2>2. \A g \in Refunds :
             refund'[g].status \in {"REQUESTED", "APPROVED", "REFUNDED"} =>
                /\ refund[g].status \in {"REQUESTED", "APPROVED", "REFUNDED"}
                /\ refund'[g].order = refund[g].order
      BY <1>1, <2>1
    <2>3. OneActiveRefund'
      BY <1>0, <2>2 DEF Tables, OneActiveRefund, ActiveRefunds
    <2>. QED BY <2>1, <2>3
  <1>5. CASE CommitApproval(r)
    <2>1. CASE UNCHANGED <<refund, order, ledger>>
      <3>1. Tables'
        BY <1>0, <1>5, <2>1 DEF CommitApproval, Tables, ItemsApart, OrderMirrorsPayment,
               PaidOrderWasPaid, RefundedIffPosted, RefundsOfPaid, OneActiveRefund, ActiveRefunds,
               Funded, Spare, EntriesOf
      <3>. QED BY <1>5, <3>1, ReturnSerial DEF CommitApproval
    <2>2. CASE ~UNCHANGED <<refund, order, ledger>>
      <3>1. /\ refund' = [refund EXCEPT ![f].status = "REFUNDED"]
            /\ order' = [order EXCEPT ![o] = "FAILED"]
            /\ ledger' = Posted(ledger, RefundLegs(f))
            /\ payment' = payment
        BY <1>5, <2>2 DEF CommitApproval
      <3>2. Spare(Seller[o]) >= n
        BY <1>0, <1>5 DEF CommitApproval, Knows
      <3>3. /\ refund'[f].status = "REFUNDED" /\ refund'[f].order = o /\ refund'[f].amount = n
            /\ \A g \in Refunds : g # f => refund'[g] = refund[g]
            /\ OneActiveRefund'
        BY <1>4, <3>1
      <3>4. \A q \in Orders : order'[q] = IF q = o THEN "FAILED" ELSE order[q]
        BY <3>1 DEF Typed, TypeOK
      <3>5. Next
        BY <1>5 DEF Next, Advance
      <3> HIDE DEF f
      <3>6. \A g \in Refunds : EntriesOf(g)' = IF g = f THEN EntriesOf(f) \cup RefundLegs(f)
                                                       ELSE EntriesOf(g)
        <4>1. \A g \in Refunds : EntriesOf(g)' = EntriesOf(g) \cup {e \in RefundLegs(f) : e.txn = g}
          BY <3>1, PostedEntries
        <4>2. \A g \in Refunds : {e \in RefundLegs(f) : e.txn = g}
                                    = IF g = f THEN RefundLegs(f) ELSE {}
          BY RefundLegsTxn
        <4>. QED BY <4>1, <4>2
      <3>7. ItemsApart' /\ PaidOrderWasPaid'
        BY <1>0, <3>1, <3>5, NextPaid DEF Tables, ItemsApart
      <3>8. OrderMirrorsPayment'
        <4>1. \A q : (\E g \in Refunds : refund'[g].status = "REFUNDED" /\ refund'[g].order = q)
                     <=> \/ q = o
                         \/ \E g \in Refunds : refund[g].status = "REFUNDED" /\ refund[g].order = q
          BY <1>1, <3>3
        <4> SUFFICES ASSUME NEW q \in Payments, NEW i \in Orders, i \in payment[q].items
                     PROVE  order'[i] = IF i = o \/ \E g \in Refunds : refund[g].status = "REFUNDED"
                                                                     /\ refund[g].order = i
                                        THEN "FAILED" ELSE payment[q].status
          BY <3>1, <4>1 DEF OrderMirrorsPayment
        <4>. QED BY <1>0, <3>4 DEF Tables, OrderMirrorsPayment
      <3>9. RefundedIffPosted'
        <4>1. RefundLegs(f) # {}
          BY DEF RefundLegs
        <4>. QED BY <1>0, <3>3, <3>6, <4>1 DEF Tables, RefundedIffPosted
      <3>10. RefundsOfPaid'
        BY <1>0, <1>1, <1>2, <3>1, <3>3 DEF Tables, RefundsOfPaid
      <3>11. Funded'
        <4> SUFFICES ASSUME NEW u \in Owners
                     PROVE  Spare(u)' >= 0
          BY DEF Funded
        <4>1. RefundLegs(f) \subseteq Entries
          BY <1>1, <1>2, RefundIsTransaction DEF Transaction
        <4>2. Spare(u)' = Spare(u) + Delta(RefundLegs(f), <<u, "SELLER_AVAILABLE">>)
          BY <3>1, <4>1, SparePosted
        <4>3. Delta(RefundLegs(f), <<u, "SELLER_AVAILABLE">>) = IF u = Seller[o] THEN -n ELSE 0
          BY <1>1, <1>2, RefundTakes
        <4>4. Spare(u) \in Int /\ Spare(u) >= 0
          BY <1>0, SpareInt DEF Tables, Funded
        <4>5. u = Seller[o] => Spare(u) >= n
          BY <3>2
        <4> HIDE DEF n
        <4>. QED BY <1>2, <4>2, <4>3, <4>4, <4>5
      <3>12. Tables'
        BY <3>3, <3>7, <3>8, <3>9, <3>10, <3>11 DEF Tables
      <3>. QED BY <1>5, <3>12, ReturnSerial DEF CommitApproval
    <2>. QED BY <2>1, <2>2
  <1>6. CASE RejectRefund(r)
    <2>1. refund' = [refund EXCEPT ![f].status = "REJECTED"] /\ UNCHANGED <<ledger, order, payment>>
      BY <1>6 DEF RejectRefund
    <2>2. /\ refund'[f].status = "REJECTED" /\ refund'[f].order = o /\ refund'[f].amount = n
          /\ \A g \in Refunds : g # f => refund'[g] = refund[g]
          /\ OneActiveRefund'
      BY <1>4, <2>1
    <2> HIDE DEF f
    <2>3. ItemsApart' /\ PaidOrderWasPaid' /\ Funded'
      BY <1>0, <2>1 DEF Tables, ItemsApart, PaidOrderWasPaid, Funded, Spare
    <2>4. \A g \in Refunds : refund'[g].status = "REFUNDED" <=> refund[g].status = "REFUNDED"
      BY <1>1, <2>2
    <2>5. OrderMirrorsPayment'
      <3>1. \A q : (\E g \in Refunds : refund'[g].status = "REFUNDED" /\ refund'[g].order = q)
                   <=> (\E g \in Refunds : refund[g].status = "REFUNDED" /\ refund[g].order = q)
        BY <1>1, <2>2
      <3>. QED BY <1>0, <2>1, <3>1 DEF Tables, OrderMirrorsPayment
    <2>6. RefundedIffPosted'
      <3>1. \A g \in Refunds : EntriesOf(g)' = EntriesOf(g)
        BY <2>1 DEF EntriesOf
      <3>. QED BY <1>0, <2>4, <3>1 DEF Tables, RefundedIffPosted
    <2>7. RefundsOfPaid'
      BY <1>0, <1>1, <1>2, <2>1, <2>2 DEF Tables, RefundsOfPaid
    <2>8. Tables'
      BY <2>2, <2>3, <2>5, <2>6, <2>7 DEF Tables
    <2>. QED BY <1>6, <2>8, ReturnSerial DEF RejectRefund
  <1>. QED BY <1>3, <1>5, <1>6

\* Handlers one at a time know what they decide by, and keep the tables sound.
LEMMA SerialStep ==
  ASSUME Typed, FiniteBook(ledger), Serial, NEW r \in Requests, Alone(r), Call(r) \/ Advance(r) \/ Fail(r)
  PROVE  Serial' /\ Alone(r)'
  BY CallSerial, FailSerial, CreateSerial, ApplySerial, RefundSerial, ApproveSerial DEF Advance

-----------------------------------------------------------------------------
(* What the sound tables say.                                               *)

LEMMA PaidOncePerOrder == Tables => OnePaymentPerOrder
  BY DEF Tables, ItemsApart, OnePaymentPerOrder

\* The one refund of an order that was paid back is within its price.
LEMMA PaidBackWithinPrice == Typed /\ Tables => RefundWithinPrice
  <1> SUFFICES ASSUME Typed, Tables, NEW o \in Orders
               PROVE  SumFunction([f \in {g \in Refunds : EntriesOf(g) # {} /\ refund[g].order = o} |->
                                     refund[f].amount]) <= Price[o]
    BY DEF RefundWithinPrice
  <1> DEFINE S == {g \in Refunds : EntriesOf(g) # {} /\ refund[g].order = o}
             h == [f \in S |-> refund[f].amount]
  <1>0. Price[o] \in Nat
    BY PaymentsAssumption
  <1>1. \A f \in S : f \in Refunds /\ refund[f].status = "REFUNDED" /\ f \in ActiveRefunds(o)
    BY DEF Tables, RefundedIffPosted, ActiveRefunds
  <1>2. CASE S = {}
    <2>1. DOMAIN h = {}
      BY <1>2
    <2> HIDE DEF h
    <2>2. SumFunction(h) = 0
      BY <2>1, SumOfNone
    <2>. QED BY <1>0, <2>2 DEF h
  <1>3. ASSUME NEW f \in S
        PROVE  SumFunction(h) <= Price[o]
    <2>1. refund[f] # NoRefund /\ refund[f].order = o
      BY <1>1, <1>3 DEF NoRefund
    <2>2. refund[f].amount <= Price[o] /\ refund[f].amount \in Nat
      BY <1>1, <1>3, <2>1, InsertedRefund DEF Tables, RefundsOfPaid, Typed, RefundRows
    <2>3. S = {f}
      BY <1>1, <1>3, <2>1 DEF Tables, OneActiveRefund
    <2> DEFINE none == [g \in {} |-> refund[g].amount]
    <2>4. Summable(none) /\ f \notin DOMAIN none /\ DOMAIN none = {}
      BY FS_EmptySet DEF Summable
    <2>5. /\ DOMAIN h = DOMAIN none \cup {f} /\ h[f] = refund[f].amount /\ h[f] \in Int
          /\ \A g \in DOMAIN none : h[g] = none[g]
      BY <2>2, <2>3
    <2> HIDE DEF h, none
    <2>6. SumFunction(none) = 0
      BY <2>4, SumOfNone
    <2>7. SumFunction(h) = SumFunction(none) + h[f]
      BY <2>4, <2>5, SumOneMore
    <2>. QED BY <2>2, <2>5, <2>6, <2>7
  <1>. QED BY <1>2, <1>3

=============================================================================
