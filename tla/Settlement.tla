----------------------------- MODULE Settlement -----------------------------
(***************************************************************************)
(* Payments and payouts on the one ledger they share: a seller's balances   *)
(* are credited by settled payments and debited by refunds and payouts, and *)
(* handlers of both services are in flight together.  What Payouts leaves   *)
(* to OtherPosting is done by the handlers of Payments here, and the ledger   *)
(* desk writes in between.                                                  *)
(***************************************************************************)
EXTENDS Payouts

CONSTANTS
    Requests, Orders, Payments, Refunds, Methods, Seller, Buyer, Price, Basket,
    MaxInFlight     \* bound: handlers in flight together, in both services

VARIABLES
    order, payment, refund, request,
    overlapped      \* history: a handler began while another was in flight

Pay == INSTANCE Payments

ASSUME SettlementAssumption ==
    /\ MaxInFlight \in Nat \ {0}
    /\ Pay!PaymentsAssumption
    /\ Payouts \cap (Payments \cup Refunds) = {}

payVars == <<order, payment, refund, request>>
outVars == <<payout, call>>
allVars == <<ledger, payout, call, order, payment, refund, request, overlapped>>

SettlementInit == Init /\ Pay!Init /\ overlapped = FALSE

InFlight ==
    Cardinality({r \in Requests : request[r] # Pay!Idle})
        + Cardinality({c \in Calls : call[c] # Idle})

Busy ==
    \/ \E r \in Requests : request[r] # Pay!Idle
    \/ \E c \in Calls : call[c] # Idle

\* A handler begins: does it overlap another one?
Begin ==
    /\ InFlight < MaxInFlight
    /\ overlapped' = (overlapped \/ Busy)

SettlementNext ==
    \/ /\ Begin
       /\ \E r \in Requests : Pay!Call(r)
       /\ UNCHANGED outVars
    \/ /\ \E r \in Requests : Pay!Advance(r) \/ Pay!Fail(r)
       /\ UNCHANGED <<outVars, overlapped>>
    \/ /\ Begin
       /\ \E c \in Calls : Start(c)
       /\ UNCHANGED payVars
    \/ /\ \E c \in Calls : Finish(c) \/ Fail(c)
       /\ UNCHANGED <<payVars, overlapped>>
    \/ Desk /\ UNCHANGED <<payVars, overlapped>>

SettlementSpec == SettlementInit /\ [][SettlementNext]_allVars

-----------------------------------------------------------------------------
\* What the services moved through a seller's total balance under a category.
Moved(w, category) ==
    SignedSum({e \in ledger.entries : e.account = Total(w) /\ e.category = category})

\* What a seller has received by payouts, and earned by payments.
PaidOut(w) == {x \in Payouts : payout[x].status = "PAID" /\ payout[x].seller = w}
SoldIn(p, w) == {o \in payment[p].items : Seller[o] = w}
Earned(p, w) == SumFunction([o \in SoldIn(p, w) |-> Price[o]])
Settled == {p \in Payments : payment[p].status = "SUCCEEDED"}

\* Balances are the sums of the entries of all services and of the desk; what a
\* seller received and what was paid out are the payments and payouts whose rows
\* say so, whatever the desk records or reverses under their ids.
MoneyAccounted ==
    /\ Consistent(ledger)
    /\ \A w \in Sellers :
        /\ SoldFirst(w) =>
              -Moved(w, "PAYOUT") = SumFunction([x \in PaidOut(w) |-> payout[x].amount])
        /\ Moved(w, "PAYMENT") = SumFunction([p \in Settled |-> Earned(p, w)])

-----------------------------------------------------------------------------
(* Properties as long as handlers have not overlapped, in either service.     *)

\* An order has one payment that can be settled: the check of createPayment holds.
OnePaymentEach == ~overlapped => Pay!OnePaymentPerOrder

\* An order says what its payment says, and FAILED once its refund is paid.
MirrorsPayment == ~overlapped => Pay!OrderMirrorsPayment

\* Money left the seller for a refund exactly when the refund reads REFUNDED.
RefundedAndPosted == ~overlapped => Pay!RefundedIffPosted

\* A buyer gets back no more than the order cost, by however many refunds.
RefundsWithinPrice == ~overlapped => Pay!RefundWithinPrice

\* Neither a payout nor a refund takes more than the seller has available, also
\* when the desk changes the balance after it was read: an available balance is
\* below zero by no more than what was taken by hand.
NeverOverdrawn ==
    ~overlapped =>
        \A w \in Sellers :
            ledger.balance[Available(w)] >= -TakenByHand(ledger, Available(w))

=============================================================================
