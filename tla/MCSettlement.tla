---------------------------- MODULE MCSettlement ----------------------------
(* Constant values for the runs of Settlement.                              *)
EXTENDS Settlement, TLC

CONSTANTS s1, b0, o1, o2, p1, p2, v1

\* Two orders at the same seller.
OneSeller == o1 :> s1 @@ o2 :> s1
OneBuyer == o1 :> b0 @@ o2 :> b0
Prices == o1 :> 2 @@ o2 :> 1

\* The first order has the checkout's payment, the second has none yet.
MixedBasket == p1 :> {o1} @@ p2 :> {}

\* v1 is "REV-" || p1.
Txn == Payments \cup Refunds \cup Payouts \cup {v1}
OneReversal == p1 :> v1
NoReversal == [t \in {} |-> t]

\* By hand: the seller's available balance is debited under a payment's id, and
\* the key under which a payout leaves the total balance is taken.
KeysTaken ==
    {[account |-> Available(s1), txn |-> p1, category |-> "PAYMENT",
      type |-> "DEBIT", amount |-> 2]}
    \cup {[account |-> Total(s1), txn |-> x, category |-> "PAYOUT",
           type |-> "CREDIT", amount |-> 1] : x \in Payouts}
AnAccount == {Available(s1)}

Symmetry == Permutations(Requests) \cup Permutations(Calls) \cup Permutations(Refunds)
                \cup Permutations(Payouts)
=============================================================================
