------------------------------ MODULE MCOrders -------------------------------
(***************************************************************************)
(* Three parts that share no row: the orders after their creation, the rows  *)
(* of the other repositories, and the ledger desk.  A behaviour is about one *)
(* of them; the tables of the others stay as they begin.                     *)
(***************************************************************************)
EXTENDS Orders, LedgerBook, TLC

CONSTANTS
    o1, o2,
    c1, c2, c3,                             \* requests and callers
    u1,                                     \* the owner of the ledger accounts
    Ids, First, Callers, Kinds, OneRow, OneCaller,    \* of Records
    MaxStock, MaxInCart, Prices,
    Clerks                                  \* the Calls of LedgerDesk

VARIABLES
    part,
    kind, record, deleted, held, written, direct, forced,   \* Records
    ledger, booking, reversed                       \* LedgerDesk

\* Values of constants.
OneBalance == {<<u1, "SELLER_BALANCE">>}
Rev == "t" :> "REV-t" @@ "REV-t" :> "REV-REV-t"
SomeEntries ==
    [account : OneBalance, txn : Txns, category : {"ADJUSTMENT", "PAYMENT"},
     type : EntryTypes, amount : {2, -1}]
TwoPieces == {[quantity |-> 2, retail |-> 3, wholesale |-> 2]}

Repositories == INSTANCE Records WITH row <- record, overlapped <- written

Desk == INSTANCE LedgerDesk WITH Calls <- Clerks, call <- booking

\* Records knows these kinds.  A Quantity is not negative, and a ProductPrice not 0.
ASSUME RecordsAssumption ==
    /\ Kinds \subseteq Repositories!AllKinds
    /\ MaxStock \in Nat
    /\ MaxInCart \in Nat
    /\ Prices \subseteq Nat \ {0}

records == <<kind, record, deleted, held, written, direct, forced>>
books == <<ledger, booking, reversed>>

PartsInit ==
    /\ part \in {"orders", "records", "ledger"}
    /\ Init
    /\ Repositories!Init
    /\ part # "records" => kind = "shop"
    /\ Desk!Init

OrdersNext == part = "orders" /\ Next /\ UNCHANGED <<part, records, books>>
RecordsNext == part = "records" /\ Repositories!Next /\ UNCHANGED <<part, vars, books>>
LedgerNext == part = "ledger" /\ Desk!Next /\ UNCHANGED <<part, vars, records>>

PartsNext == OrdersNext \/ RecordsNext \/ LedgerNext

PartsSpec == PartsInit /\ [][PartsNext]_<<part, vars, records, books>>

Symmetry == Permutations({c1, c2, c3})

(* The properties of Records and LedgerDesk, by their names there.           *)

(* Records: the columns of a row fit its status, whoever wrote it last, and  *)
(* what is saved is loaded again as it was.                                 *)
RowsAgree == Repositories!RowsAgree

(* Records: a status moves along its table, and a settled row stays settled, *)
(* unless two worked on it at once.                                         *)
SettledStays == [][Repositories!KeepsSettled]_records

(* LedgerDesk: balances are the sums of the entries, reversals included.     *)
BooksBalance == Desk!BooksBalance
=============================================================================
