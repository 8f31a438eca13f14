----------------------------- MODULE LedgerBook -----------------------------
(***************************************************************************)
(* The two ledger tables of the marketplace, LedgerAccount and LedgerEntry, *)
(* as one value, and what a database transaction can do to it.              *)
(*                                                                         *)
(* Every service that moves money inserts ledger entries and increments the *)
(* stored balances in one Prisma transaction.  The table's only guard is    *)
(* the unique key (account, transactionId, category).  An insert that hits  *)
(* it raises P2002; the services catch the error and go on, but PostgreSQL  *)
(* has already aborted the transaction, so its next statement fails and     *)
(* nothing of the transaction remains.  A transaction is therefore a set of *)
(* entries that is posted whole, or not at all.                             *)
(*                                                                         *)
(* An account row that does not exist yet has balance 0 here and is outside *)
(* "opened".                                                                *)
(*                                                                         *)
(* LedgerService writes the same tables by hand: whoever is logged in may   *)
(* open an account, record an entry and reverse one, under any id and for    *)
(* one account alone.  So that the claims about the other services can say   *)
(* what is theirs, a ledger value keeps apart which rows were made by hand;  *)
(* no guard looks at the difference.                                        *)
(***************************************************************************)
EXTENDS Integers, FiniteSets, Functions

CONSTANTS
    Owners,     \* users that own ledger accounts
    Txns,       \* transactionIds: of payments, refunds, payouts and reversals
    Offered,    \* accounts that are opened by hand (a bound)
    HandMade,   \* entries that are recorded by hand (a bound)
    ReversalOf  \* the ids "REV-" || id, of those ids that have one (a bound)

AccountTypes ==
    {"PLATFORM_MAIN", "PLATFORM_FEE", "BUYER_WALLET", "SELLER_BALANCE", "SELLER_AVAILABLE"}

Categories == {"PAYMENT", "PAYOUT", "REFUND", "FEE", "ADJUSTMENT"}

EntryTypes == {"DEBIT", "CREDIT"}

Accounts == Owners \X AccountTypes

Entries ==
    [account : Accounts, txn : Txns, category : Categories,
     type : EntryTypes, amount : Int]

\* Two ids have two reversals.
ASSUME DeskAssumption ==
    /\ Offered \subseteq Accounts
    /\ HandMade \subseteq Entries
    /\ ReversalOf \in [DOMAIN ReversalOf -> Txns]
    /\ \A s, t \in DOMAIN ReversalOf : ReversalOf[s] = ReversalOf[t] => s = t

\* The accounts, those of them that were opened by hand, the balances, and the
\* entries that services made and that were made by hand.
Ledgers ==
    [opened : SUBSET Accounts, openedByHand : SUBSET Accounts, balance : [Accounts -> Int],
     entries : SUBSET Entries, byHand : SUBSET Entries]

EmptyLedger ==
    [opened |-> {}, openedByHand |-> {}, balance |-> [a \in Accounts |-> 0],
     entries |-> {}, byHand |-> {}]

\* The table ledger_entries.
AllEntries(L) == L.entries \cup L.byHand

\* The change of balance an entry stands for.
Signed(e) == IF e.type = "DEBIT" THEN -e.amount ELSE e.amount

\* The unique key of ledger_entries is taken.
Recorded(L, account, txn, category) ==
    \E e \in AllEntries(L) :
        e.account = account /\ e.txn = txn /\ e.category = category

\* Mutated: ledger_entries has no unique key.
PostableTwice(L, legs) == TRUE

\* The inserts of a transaction succeed: none of its keys is taken.
Postable(L, legs) ==
    \A e \in legs : ~Recorded(L, e.account, e.txn, e.category)

\* A transaction posts to an account once.
OneLegEach(legs) == \A e, f \in legs : e.account = f.account => e = f

\* What the legs of one transaction add to an account.
Delta(legs, a) ==
    IF \E e \in legs : e.account = a
    THEN Signed(CHOOSE e \in legs : e.account = a)
    ELSE 0

\* The committed transaction: accounts upserted, entries inserted, balances moved.
Posted(L, legs) ==
    [L EXCEPT !.opened = @ \cup {e.account : e \in legs},
              !.balance = [a \in Accounts |-> @[a] + Delta(legs, a)],
              !.entries = @ \cup legs]

-----------------------------------------------------------------------------
(* What LedgerService commits (see LedgerDesk for its requests).             *)

AccountByHand(L, a) ==
    [L EXCEPT !.opened = @ \cup {a}, !.openedByHand = @ \cup {a}]

EntryByHand(L, e) ==
    [L EXCEPT !.balance[e.account] = @ + Signed(e), !.byHand = @ \cup {e}]

Opposite(type) == IF type = "DEBIT" THEN "CREDIT" ELSE "DEBIT"

\* Mutated: the reversal is posted to the side of the entry.
SameSide(e) == [e EXCEPT !.txn = ReversalOf[e.txn]]

Reversal(e) == [e EXCEPT !.txn = ReversalOf[e.txn], !.type = Opposite(e.type)]

\* Any entry may be reversed, also one of a service, and a reversal too.
Reversible(L) == {e \in AllEntries(L) : e.txn \in DOMAIN ReversalOf}

\* Of accounts that are there, entries whose key is free.
Recordable(L) ==
    {e \in HandMade : e.account \in L.opened /\ Postable(L, {e})}
    \cup {r \in {Reversal(e) : e \in Reversible(L)} : Postable(L, {r})}

\* The ledgers that one transaction by hand may leave.
ByHand(L) ==
    {AccountByHand(L, a) : a \in Offered \ L.opened}
    \cup {EntryByHand(L, e) : e \in Recordable(L)}

-----------------------------------------------------------------------------
\* The sum of signed entries; of those of an account, and of its entries by hand.
SignedSum(entries) == SumFunction([e \in entries |-> Signed(e)])
EntrySum(L, a) == SignedSum({e \in AllEntries(L) : e.account = a})
HandSum(L, a) == SignedSum({e \in L.byHand : e.account = a})

\* What was taken from an account by hand.
TakenByHand(L, a) == -SignedSum({e \in L.byHand : e.account = a /\ Signed(e) < 0})

\* A stored balance is the sum of the entries behind it, whatever was retried,
\* delivered twice or rolled back, and no unique key is used twice.
Consistent(L) ==
    /\ \A a \in Accounts : L.balance[a] = EntrySum(L, a)
    /\ \A e, f \in AllEntries(L) :
          (e.account = f.account /\ e.txn = f.txn /\ e.category = f.category) => e = f

=============================================================================
