----------------------------- MODULE MCPayments -----------------------------
(* Constant values for the runs of Payments.                                *)
EXTENDS Payments, TLC

CONSTANTS s1, b, o1, o2, p1, p2, f1, f2, v1

\* Two orders at the same shop: a payment of both credits one key twice.
OneSeller == o1 :> s1 @@ o2 :> s1
OneBuyer == o1 :> b @@ o2 :> b
UnitPrices == o1 :> 1 @@ o2 :> 1

\* The first order has the checkout's payment, the second has none yet.
MixedBasket == p1 :> {o1} @@ p2 :> {}
\* Two carts of one order each.
TwoBaskets == p1 :> {o1} @@ p2 :> {o2}

\* v1 is "REV-" || p1.
Txn == Payments \cup Refunds \cup {v1}
OneReversal == p1 :> v1
NoReversal == [t \in {} |-> t]

\* By hand: the keys of the second settlement and of the refund are taken, and
\* the seller's available balance with them.
KeysTaken ==
    {[account |-> <<s1, "SELLER_AVAILABLE">>, txn |-> p2, category |-> "PAYMENT",
      type |-> "DEBIT", amount |-> 1],
     [account |-> <<s1, "SELLER_BALANCE">>, txn |-> f1, category |-> "REFUND",
      type |-> "CREDIT", amount |-> 1]}
=============================================================================
