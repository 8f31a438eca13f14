------------------------------- MODULE Payouts -------------------------------
(***************************************************************************)
(* Payouts: a seller asks for money (PayoutsService.createPayout), which    *)
(* takes it out of SELLER_AVAILABLE; an admin marks the payout paid, which  *)
(* takes it out of SELLER_BALANCE, or failed (AdminService.updatePayout).   *)
(* PayoutsService.updatePayoutStatus is the seller-side twin of the latter. *)
(*                                                                         *)
(* Handlers are slots of "call", one step per database call, as in Payments. *)
(***************************************************************************)
EXTENDS LedgerBook

CONSTANTS
    Calls,          \* handlers that may be in flight at the same time
    Sellers,        \* owners of a shop and a default bank account
    Payouts,        \* ids of payout rows
    MaxPayout,      \* bound: the largest amount asked for
    OwnStatuses     \* what sellers ask updatePayoutStatus for: it has no route

ASSUME PayoutsAssumption ==
    /\ Sellers \subseteq Owners
    /\ MaxPayout \in Nat
    /\ Payouts \subseteq Txns
    /\ OwnStatuses \subseteq {"PENDING", "PAID", "FAILED"}

VARIABLES
    ledger,     \* the ledger tables
    payout,     \* payout rows
    call        \* handlers in flight

vars == <<ledger, payout, call>>

PayoutStatus == {"PENDING", "PAID", "FAILED"}
NoPayout == [status |-> "NONE"]
PayoutRows == [status : PayoutStatus, seller : Sellers, amount : Nat]

Idle == [at |-> "idle"]
Handlers ==
    {Idle}
    \cup [at : {"create"}, seller : Sellers, amount : Nat]
    \cup [at : {"admin_update", "own_update"}, payout : Payouts, status : PayoutStatus]

TypeOK ==
    /\ ledger \in Ledgers
    /\ payout \in [Payouts -> PayoutRows \cup {NoPayout}]
    /\ call \in [Calls -> Handlers]

Init ==
    /\ ledger = EmptyLedger
    /\ payout = [x \in Payouts |-> NoPayout]
    /\ call = [c \in Calls |-> Idle]

Goto(c, step) == call' = [call EXCEPT ![c] = step]
Return(c) == Goto(c, Idle)

-----------------------------------------------------------------------------
(* createPayout.                                                            *)

Available(w) == <<w, "SELLER_AVAILABLE">>
Total(w) == <<w, "SELLER_BALANCE">>

\* Mutated: the amount is compared with the total balance.
WithinTotal(w, amount) ==
    Available(w) \in ledger.opened /\ amount <= ledger.balance[Total(w)]

\* The available account exists and holds the amount.
CanWithdraw(w, amount) ==
    Available(w) \in ledger.opened /\ amount <= ledger.balance[Available(w)]

\* Read outside the transaction.
ReadAvailable(c, w, amount) ==
    /\ call[c] = Idle
    /\ amount > 0
    /\ CanWithdraw(w, amount)
    /\ Goto(c, [at |-> "create", seller |-> w, amount |-> amount])
    /\ UNCHANGED <<ledger, payout>>

PayoutLeg(account, x, type, amount) ==
    [account |-> account, txn |-> x, category |-> "PAYOUT", type |-> type, amount |-> amount]

\* Mutated: the reserve is taken from the total balance.
ReserveTotal(w, x, amount) == {PayoutLeg(Total(w), x, "DEBIT", amount)}

ReserveLegs(w, x, amount) == {PayoutLeg(Available(w), x, "DEBIT", amount)}

\* The transaction: the payout row, the decrement and its entry, whatever the
\* balance is by now.
InsertPayout(c, x) ==
    /\ call[c].at = "create"
    /\ payout[x] = NoPayout
    /\ LET legs == ReserveLegs(call[c].seller, x, call[c].amount)
       IN  IF Postable(ledger, legs)
           THEN /\ payout' = [payout EXCEPT ![x] =
                      [status |-> "PENDING", seller |-> call[c].seller, amount |-> call[c].amount]]
                /\ ledger' = Posted(ledger, legs)
           ELSE UNCHANGED <<payout, ledger>>
    /\ Return(c)

-----------------------------------------------------------------------------
(* processPayout and failPayout, and the seller's updatePayoutStatus.       *)

\* The code takes any status from a seller, PAID too.  No route leads here.
OwnUpdate(s) == s \in OwnStatuses

ReadPayout(c, x, step, s) ==
    /\ call[c] = Idle
    /\ payout[x].status = "PENDING"
    /\ \/ step = "admin_update" /\ s \in {"PAID", "FAILED"}
       \/ step = "own_update" /\ OwnUpdate(s)
    /\ Goto(c, [at |-> step, payout |-> x, status |-> s])
    /\ UNCHANGED <<ledger, payout>>

\* updateMany claims the row only while it is still PENDING.
Claimed(x) == payout[x].status = "PENDING"

\* Mutated: a failed payout needs no ledger entry, a paid one neither.
NoLegs(x, step, s) == {}

\* The entry of a decision of an admin: a paid payout leaves the total balance,
\* a failed one goes back to the available balance under the key its reserve
\* has taken.
AdminLegs(x, s) ==
    LET w == payout[x].seller
    IN  IF s = "PAID"
        THEN {PayoutLeg(Total(w), x, "DEBIT", payout[x].amount)}
        ELSE IF s = "FAILED" THEN {PayoutLeg(Available(w), x, "CREDIT", payout[x].amount)} ELSE {}

\* The seller's twin has no entry for PAID.
OwnLegs(x, s) ==
    IF s = "FAILED"
    THEN {PayoutLeg(Available(payout[x].seller), x, "CREDIT", payout[x].amount)}
    ELSE {}

\* An entry is made only if its account exists.
DecisionLegs(x, step, s) ==
    {e \in IF step = "admin_update" THEN AdminLegs(x, s) ELSE OwnLegs(x, s) :
        e.account \in ledger.opened}

\* The transaction.  A taken key aborts it, so the status is rolled back too.
DecidePayout(c) ==
    LET x == call[c].payout
        s == call[c].status
        legs == DecisionLegs(x, call[c].at, s)
    IN  /\ call[c].at \in {"admin_update", "own_update"}
        /\ IF Claimed(x) /\ Postable(ledger, legs)
           THEN /\ payout' = [payout EXCEPT ![x].status = s]
                /\ ledger' = Posted(ledger, legs)
           ELSE UNCHANGED <<payout, ledger>>
        /\ Return(c)

-----------------------------------------------------------------------------
\* A database error or the process exiting ends a handler.
Fail(c) ==
    /\ call[c] # Idle
    /\ Return(c)
    /\ UNCHANGED <<ledger, payout>>

\* Bound: a payout is asked for only while an id is left for it.
PayoutIdLeft ==
    Cardinality({q \in Calls : call[q].at = "create"})
        < Cardinality({x \in Payouts : payout[x] = NoPayout})

Start(c) ==
    \/ PayoutIdLeft /\ \E w \in Sellers, amount \in 1..MaxPayout : ReadAvailable(c, w, amount)
    \/ \E x \in Payouts, step \in {"admin_update", "own_update"}, s \in PayoutStatus :
          ReadPayout(c, x, step, s)

Finish(c) ==
    \/ \E x \in Payouts : InsertPayout(c, x)
    \/ DecidePayout(c)

PayoutStep(c) == Start(c) \/ Finish(c) \/ Fail(c)

\* What PaymentsService posts: under its own ids and categories, and the same to
\* both accounts of a seller.
OtherPosting ==
    \E legs \in SUBSET Entries :
        /\ IsFiniteSet(legs) /\ OneLegEach(legs)
        /\ \A e \in legs : e.txn \notin Payouts /\ e.category # "PAYOUT"
        /\ \A w \in Sellers :
              /\ (\E e \in legs : e.account = Available(w)) <=> (\E e \in legs : e.account = Total(w))
              /\ Delta(legs, Available(w)) = Delta(legs, Total(w))
        /\ Postable(ledger, legs)
        /\ ledger' = Posted(ledger, legs)
        /\ UNCHANGED <<payout, call>>

\* LedgerService opens an account, records an entry or reverses one: of any
\* account alone, under any id, for any amount.
Desk ==
    /\ ledger' \in ByHand(ledger)
    /\ UNCHANGED <<payout, call>>

Next == OtherPosting \/ Desk \/ \E c \in Calls : PayoutStep(c)

Spec == Init /\ [][Next]_vars

-----------------------------------------------------------------------------
PendingOf(w) == {x \in Payouts : payout[x].status = "PENDING" /\ payout[x].seller = w}

\* A seller who opens an available account by hand has one without a total
\* account, which a sale opens with it: nothing is then debited for a payout.
SoldFirst(w) == Available(w) \notin ledger.openedByHand

\* What a seller owns but cannot withdraw is exactly what the pending payouts
\* ask for, and what was moved between the two by hand: the "pending" figure
\* getSellerBalance shows.
PendingIsReserved ==
    \A w \in Sellers : SoldFirst(w) =>
        ledger.balance[Total(w)] - ledger.balance[Available(w)]
            = SumFunction([x \in PendingOf(w) |-> payout[x].amount])
                + HandSum(ledger, Total(w)) - HandSum(ledger, Available(w))

\* The money of a payout has been taken out of the total balance exactly when
\* it is PAID, however often two admins process it and whatever is recorded by
\* hand under its id.
PaidIffDebited ==
    \A x \in Payouts : payout[x] # NoPayout /\ SoldFirst(payout[x].seller) =>
        (payout[x].status = "PAID"
            <=> \E e \in ledger.entries : e.txn = x /\ e.account[2] = "SELLER_BALANCE")

\* Payouts never take out more than came in.  One handler at a time.
AvailableNotNegative == \A w \in Sellers : ledger.balance[Available(w)] >= 0

\* "Mark payout as failed" does so when it finds the payout still PENDING.
FailureRecorded ==
    [][\A c \in Calls :
          (DecidePayout(c) /\ Claimed(call[c].payout) /\ call[c].status = "FAILED")
              => payout'[call[c].payout].status = "FAILED"]_vars
=============================================================================
