----------------------------- MODULE LedgerDesk ------------------------------
(***************************************************************************)
(* LedgerService: the routes by which accounts are opened, entries are      *)
(* recorded and entries are reversed by hand, on the tables of LedgerBook.   *)
(*                                                                         *)
(* Each route first reads what it is about and then writes in one            *)
(* transaction.  An insert whose key is taken is caught and taken for "there *)
(* is one already", but the transaction is aborted by then: the read that    *)
(* follows fails, and the request with it.                                  *)
(***************************************************************************)
EXTENDS LedgerBook

CONSTANTS
    Calls        \* requests; each is made at most once (a bound)

VARIABLES
    ledger,
    call,        \* the requests
    reversed     \* history: the pairs of an entry and its reversal

vars == <<ledger, call, reversed>>

Idle == [at |-> "idle"]
Done == [at |-> "done"]

Init ==
    /\ ledger = EmptyLedger
    /\ call = [c \in Calls |-> Idle]
    /\ reversed = {}

Goto(c, step) == call' = [call EXCEPT ![c] = step]

Begin(c, step) == call[c] = Idle /\ Goto(c, step) /\ UNCHANGED <<ledger, reversed>>

GetAccount(a) == a \in ledger.opened
GetBalance(a) == ledger.balance[a]
EntriesByAccount(a) == {e \in AllEntries(ledger) : e.account = a}

-----------------------------------------------------------------------------
CreateAccount(c, a) == ~GetAccount(a) /\ Begin(c, [at |-> "open", account |-> a])

\* The unique key of ledger_accounts.
KeyFree(a) == a \notin ledger.opened

InsertAccount(c) ==
    /\ call[c].at = "open"
    /\ KeyFree(call[c].account)
    /\ ledger' = AccountByHand(ledger, call[c].account)
    /\ Goto(c, Done)
    /\ UNCHANGED reversed

\* Any id may be given, that of a reversal too, with any category and amount, a
\* negative one included.
RecordEntry(c, e) == GetAccount(e.account) /\ Begin(c, [at |-> "record", entry |-> e])

PostEntry(c) ==
    /\ call[c].at = "record"
    /\ Postable(ledger, {call[c].entry})
    /\ ledger' = EntryByHand(ledger, call[c].entry)
    /\ Goto(c, Done)
    /\ UNCHANGED reversed

ReverseEntry(c, e) ==
    /\ e \in Reversible(ledger)
    /\ Begin(c, [at |-> "reverse", entry |-> e])

PostReversal(c) ==
    LET e == call[c].entry
        r == Reversal(e)
    IN  /\ call[c].at = "reverse"
        /\ Postable(ledger, {r})
        /\ ledger' = EntryByHand(ledger, r)
        /\ reversed' = reversed \cup {<<e, r>>}
        /\ Goto(c, Done)

\* A key is taken, a statement fails, or the process dies.
Fail(c) ==
    /\ call[c] \notin {Idle, Done}
    /\ Goto(c, Done)
    /\ UNCHANGED <<ledger, reversed>>

Request(c) ==
    \/ \E a \in Offered : CreateAccount(c, a)
    \/ \E e \in HandMade : RecordEntry(c, e)
    \/ \E e \in AllEntries(ledger) : ReverseEntry(c, e)

Step(c) == InsertAccount(c) \/ PostEntry(c) \/ PostReversal(c) \/ Fail(c)

Next == \E c \in Calls : Request(c) \/ Step(c)

Spec == Init /\ [][Next]_vars

-----------------------------------------------------------------------------
(* The balance that an account answers is the sum of the entries it answers, *)
(* however requests overlap and whatever is recorded or reversed twice: an   *)
(* entry is taken back by one reversal at most, and the two of them add up   *)
(* to nothing.                                                              *)
BooksBalance ==
    /\ \A a \in ledger.opened : GetBalance(a) = SignedSum(EntriesByAccount(a))
    /\ \A p \in reversed :
          /\ p[1].account = p[2].account /\ Signed(p[1]) + Signed(p[2]) = 0
          /\ \A q \in reversed : p[1] = q[1] \/ p[2] = q[2] => p = q
=============================================================================
