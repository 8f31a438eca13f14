-------------------------- MODULE Settlement_proofs -------------------------
(* Proofs about Payouts, for every set of sellers, payouts and handlers and  *)
(* whatever PaymentsService and the ledger desk post; then about Settlement: what was proved  *)
(* of Payments and of Payouts holds of both on one ledger.                   *)
EXTENDS Settlement, LedgerBook_proofs

PP == INSTANCE Payments_proofs

\* A handler that decides a payout names an inserted one, one that creates a
\* payout has seen the seller's account, and a seller asks for what sellers ask for.
NamesPayout ==
    \A c \in Calls :
        /\ call[c].at \in {"admin_update", "own_update"} => payout[call[c].payout] # NoPayout
        /\ call[c].at = "own_update" => call[c].status \in OwnStatuses
        /\ call[c].at = "create" => Available(call[c].seller) \in ledger.opened

Typed == TypeOK /\ NamesPayout

LEMMA HandlerFields ==
  ASSUME NEW h \in Handlers
  PROVE  /\ h.at = "create" => h.seller \in Sellers /\ h.amount \in Nat
         /\ h.at \in {"admin_update", "own_update"} =>
               h.payout \in Payouts /\ h.status \in PayoutStatus
  BY DEF Handlers, Idle

LEMMA InitTyped == Init => Typed
  BY EmptyLedgerType DEF Init, Typed, TypeOK, NamesPayout, Handlers, Idle

LEMMA SellerAccounts ==
  ASSUME NEW w \in Sellers
  PROVE  Available(w) \in Accounts /\ Total(w) \in Accounts /\ Available(w) # Total(w)
  BY PayoutsAssumption DEF Available, Total, Accounts, AccountTypes

LEMMA LegType ==
  ASSUME NEW a \in Accounts, NEW x \in Payouts, NEW t \in EntryTypes, NEW n \in Nat
  PROVE  PayoutLeg(a, x, t, n) \in Entries
  BY PayoutsAssumption DEF PayoutLeg, Entries, Categories

LEMMA ReserveType ==
  ASSUME NEW w \in Sellers, NEW x \in Payouts, NEW n \in Nat
  PROVE  ReserveLegs(w, x, n) \subseteq Entries
  BY SellerAccounts, LegType DEF ReserveLegs, EntryTypes

LEMMA DecisionType ==
  ASSUME NEW x \in Payouts, payout[x] \in PayoutRows, NEW step, NEW s
  PROVE  DecisionLegs(x, step, s) \subseteq Entries
  <1>1. payout[x].seller \in Sellers /\ payout[x].amount \in Nat
    BY DEF PayoutRows
  <1>2. /\ PayoutLeg(Total(payout[x].seller), x, "DEBIT", payout[x].amount) \in Entries
        /\ PayoutLeg(Available(payout[x].seller), x, "CREDIT", payout[x].amount) \in Entries
    BY <1>1, SellerAccounts, LegType DEF EntryTypes
  <1>. QED BY <1>2 DEF DecisionLegs, AdminLegs, OwnLegs

-----------------------------------------------------------------------------
(* What a step can do, for all proofs below.                                *)

\* A payout is asked for: its reserve is posted with the row.
Reserves(x) ==
    \E w \in Sellers, n \in Nat :
        /\ payout[x] = NoPayout
        /\ Available(w) \in ledger.opened
        /\ Postable(ledger, ReserveLegs(w, x, n))
        /\ payout' = [payout EXCEPT ![x] = [status |-> "PENDING", seller |-> w, amount |-> n]]
        /\ ledger' = Posted(ledger, ReserveLegs(w, x, n))

\* A pending payout is decided with its entry.
Decides(x, step, s) ==
    /\ payout[x].status = "PENDING"
    /\ Postable(ledger, DecisionLegs(x, step, s))
    /\ payout' = [payout EXCEPT ![x].status = s]
    /\ ledger' = Posted(ledger, DecisionLegs(x, step, s))

LEMMA Steps ==
  ASSUME Typed, [Next]_vars
  PROVE  \/ UNCHANGED <<ledger, payout>>
         \/ OtherPosting
         \/ Desk
         \/ \E x \in Payouts : Reserves(x)
         \/ \E x \in Payouts, step \in {"admin_update", "own_update"}, s \in PayoutStatus :
               /\ Decides(x, step, s)
               /\ step = "own_update" => s \in OwnStatuses
               /\ payout[x] \in PayoutRows
  <1>1. CASE UNCHANGED vars
    BY <1>1 DEF vars
  <1>2. ASSUME NEW c \in Calls, Start(c) \/ Fail(c)
        PROVE  UNCHANGED <<ledger, payout>>
    BY <1>2 DEF Start, Fail, ReadAvailable, ReadPayout, OwnUpdate
  <1>3. ASSUME NEW c \in Calls, NEW x \in Payouts, InsertPayout(c, x)
        PROVE  UNCHANGED <<ledger, payout>> \/ Reserves(x)
    <2>1. call[c].seller \in Sellers /\ call[c].amount \in Nat
      BY <1>3, HandlerFields DEF InsertPayout, Typed, TypeOK
    <2>2. Available(call[c].seller) \in ledger.opened
      BY <1>3 DEF InsertPayout, Typed, NamesPayout
    <2>. QED BY <1>3, <2>1, <2>2 DEF InsertPayout, Reserves
  <1>4. ASSUME NEW c \in Calls, DecidePayout(c)
        PROVE  \/ UNCHANGED <<ledger, payout>>
               \/ /\ Decides(call[c].payout, call[c].at, call[c].status)
                  /\ call[c].payout \in Payouts
                  /\ call[c].at \in {"admin_update", "own_update"}
                  /\ call[c].status \in PayoutStatus
                  /\ call[c].at = "own_update" => call[c].status \in OwnStatuses
                  /\ payout[call[c].payout] \in PayoutRows
    <2>1. /\ call[c].payout \in Payouts /\ call[c].status \in PayoutStatus
          /\ call[c].at \in {"admin_update", "own_update"}
      BY <1>4, HandlerFields DEF DecidePayout, Typed, TypeOK
    <2>2. payout[call[c].payout] # NoPayout
      BY <2>1 DEF Typed, NamesPayout
    <2>3. payout[call[c].payout] \in PayoutRows
      BY <2>1, <2>2 DEF Typed, TypeOK
    <2>4. call[c].at = "own_update" => call[c].status \in OwnStatuses
      BY DEF Typed, NamesPayout
    <2>. QED BY <1>4, <2>1, <2>3, <2>4 DEF DecidePayout, Decides, Claimed
  <1>. QED BY <1>1, <1>2, <1>3, <1>4 DEF Next, PayoutStep, Finish

-----------------------------------------------------------------------------
(* Type correctness.                                                        *)

\* Rows keep their type, and no row is taken away.
RowsTyped ==
    /\ payout' \in [Payouts -> PayoutRows \cup {NoPayout}]
    /\ \A x \in Payouts : payout[x] # NoPayout => payout'[x] # NoPayout
    /\ ledger.opened \subseteq ledger'.opened

LEMMA PostedOpens ==
  ASSUME Typed, NEW legs, ledger' = Posted(ledger, legs)
  PROVE  ledger.opened \subseteq ledger'.opened /\ ledger'.openedByHand = ledger.openedByHand
  BY PostedFields DEF Typed, TypeOK

\* The desk takes nothing out of the tables, and an account that is not its own
\* was there before.
LEMMA DeskStep ==
  ASSUME Typed, Desk
  PROVE  /\ ledger' \in Ledgers /\ payout' = payout /\ call' = call
         /\ ledger'.entries = ledger.entries
         /\ ledger.opened \subseteq ledger'.opened
         /\ ledger.openedByHand \subseteq ledger'.openedByHand
         /\ \A a : a \in ledger'.opened /\ a \notin ledger'.openedByHand => a \in ledger.opened
         /\ \A a, x, k : Recorded(ledger, a, x, k) => Recorded(ledger', a, x, k)
  <1>1. ledger \in Ledgers /\ ledger' \in ByHand(ledger)
    BY DEF Desk, Typed, TypeOK
  <1>2. ledger.byHand \subseteq ledger'.byHand
    <2>1. ASSUME NEW a \in Accounts, ledger' = AccountByHand(ledger, a)
          PROVE  ledger'.byHand = ledger.byHand
      BY <1>1, <2>1, AccountByHandFields
    <2>2. ASSUME NEW e \in Entries, ledger' = EntryByHand(ledger, e)
          PROVE  ledger'.byHand = ledger.byHand \cup {e}
      BY <1>1, <2>2, EntryByHandFields
    <2>. QED BY <1>1, <2>1, <2>2, DeskCases
  <1>3. /\ ledger' \in Ledgers /\ ledger'.entries = ledger.entries
        /\ ledger.opened \subseteq ledger'.opened
        /\ ledger.openedByHand \subseteq ledger'.openedByHand
        /\ ledger'.opened \ ledger'.openedByHand = ledger.opened \ ledger.openedByHand
    BY <1>1, DeskFrame
  <1>4. AllEntries(ledger) \subseteq AllEntries(ledger')
    BY <1>2, <1>3 DEF AllEntries
  <1>5. \A a, x, k : Recorded(ledger, a, x, k) => Recorded(ledger', a, x, k)
    BY <1>4 DEF Recorded
  <1>6. payout' = payout /\ call' = call
    BY DEF Desk
  <1>. QED BY <1>3, <1>5, <1>6

LEMMA TablesTyped ==
  ASSUME Typed, [Next]_vars
  PROVE  ledger' \in Ledgers /\ RowsTyped
  <1>1. CASE UNCHANGED <<ledger, payout>>
    BY <1>1 DEF Typed, TypeOK, RowsTyped
  <1>2. CASE OtherPosting
    BY <1>2, PostedType, PostedOpens DEF OtherPosting, Typed, TypeOK, RowsTyped
  <1>5. CASE Desk
    BY <1>5, DeskStep DEF Typed, TypeOK, RowsTyped
  <1>3. ASSUME NEW x \in Payouts, Reserves(x)
        PROVE  ledger' \in Ledgers /\ RowsTyped
    <2>1. PICK w \in Sellers, n \in Nat :
             /\ payout' = [payout EXCEPT ![x] = [status |-> "PENDING", seller |-> w, amount |-> n]]
             /\ ledger' = Posted(ledger, ReserveLegs(w, x, n))
      BY <1>3 DEF Reserves
    <2> DEFINE row == [status |-> "PENDING", seller |-> w, amount |-> n]
    <2>2. row \in PayoutRows /\ row # NoPayout
      BY DEF PayoutRows, PayoutStatus, NoPayout
    <2>3. payout' = [payout EXCEPT ![x] = row]
      BY <2>1
    <2> HIDE DEF row
    <2>. QED BY <2>1, <2>2, <2>3, ReserveType, PostedType, PostedOpens DEF Typed, TypeOK, RowsTyped
  <1>4. ASSUME NEW x \in Payouts, NEW step, NEW s \in PayoutStatus,
               Decides(x, step, s), payout[x] \in PayoutRows
        PROVE  ledger' \in Ledgers /\ RowsTyped
    <2> DEFINE row == [status |-> s, seller |-> payout[x].seller, amount |-> payout[x].amount]
    <2>1. row = [payout[x] EXCEPT !.status = s]
      BY <1>4 DEF PayoutRows
    <2>2. payout' = [payout EXCEPT ![x] = row]
      BY <1>4, <2>1 DEF Decides
    <2>3. row \in PayoutRows /\ row # NoPayout
      BY <1>4 DEF PayoutRows, NoPayout, PayoutStatus
    <2> HIDE DEF row
    <2>. QED BY <1>4, <2>2, <2>3, DecisionType, PostedType, PostedOpens DEF Decides, Typed, TypeOK, RowsTyped
  <1>. QED BY <1>1, <1>2, <1>3, <1>4, <1>5, Steps

\* Only the desk opens accounts of its own, and none is taken away.
LEMMA SoldBefore ==
  ASSUME Typed, [Next]_vars
  PROVE  ledger.openedByHand \subseteq ledger'.openedByHand
  <1>1. CASE UNCHANGED <<ledger, payout>>
    BY <1>1
  <1>2. CASE OtherPosting
    BY <1>2, PostedOpens DEF OtherPosting
  <1>3. CASE Desk
    BY <1>3, DeskStep
  <1>4. ASSUME NEW x \in Payouts, Reserves(x) \/ \E step, s : Decides(x, step, s)
        PROVE  ledger.openedByHand \subseteq ledger'.openedByHand
    BY <1>4, PostedOpens DEF Reserves, Decides
  <1>. QED BY <1>1, <1>2, <1>3, <1>4, Steps

LEMMA NextTyped == Typed /\ [Next]_vars => Typed'
  <1> SUFFICES ASSUME Typed, [Next]_vars PROVE Typed'
    OBVIOUS
  <1>1. ledger' \in Ledgers /\ RowsTyped
    BY TablesTyped
  <1>2. CASE UNCHANGED call
    BY <1>1, <1>2, HandlerFields DEF Typed, TypeOK, NamesPayout, RowsTyped, Available
  <1>3. ASSUME NEW c \in Calls, NEW h \in Handlers, Goto(c, h),
               h.at \in {"admin_update", "own_update"} => payout[h.payout] # NoPayout,
               h.at = "own_update" => h.status \in OwnStatuses,
               h.at = "create" => Available(h.seller) \in ledger.opened
        PROVE  Typed'
    <2>1. call' = [call EXCEPT ![c] = h] /\ call' \in [Calls -> Handlers]
      BY <1>3 DEF Goto, Typed, TypeOK
    <2>2. NamesPayout'
      <3> SUFFICES ASSUME NEW d \in Calls
                   PROVE  /\ call'[d].at \in {"admin_update", "own_update"}
                               => payout'[call'[d].payout] # NoPayout
                          /\ call'[d].at = "own_update" => call'[d].status \in OwnStatuses
                          /\ call'[d].at = "create"
                               => Available(call'[d].seller) \in ledger'.opened
        BY DEF NamesPayout, Available
      <3>1. call'[d] \in Handlers
        BY <2>1
      <3>2. call'[d].at \in {"admin_update", "own_update"}
              => payout[call'[d].payout] # NoPayout
        BY <1>3, <2>1 DEF Typed, TypeOK, NamesPayout
      <3>3. call'[d].at = "own_update" => call'[d].status \in OwnStatuses
        BY <1>3, <2>1 DEF Typed, TypeOK, NamesPayout
      <3>4. call'[d].at = "create" => Available(call'[d].seller) \in ledger.opened
        BY <1>3, <2>1 DEF Typed, TypeOK, NamesPayout
      <3>. QED BY <1>1, <3>1, <3>2, <3>3, <3>4, HandlerFields DEF RowsTyped
    <2>. QED BY <1>1, <2>1, <2>2 DEF Typed, TypeOK, RowsTyped
  <1>4. ASSUME NEW c \in Calls, PayoutStep(c)
        PROVE  Typed'
    <2>1. Idle \in Handlers /\ Idle.at = "idle"
      BY DEF Handlers, Idle
    <2>2. CASE Return(c)
      BY <1>3, <2>1, <2>2 DEF Return
    <2>3. ASSUME NEW w \in Sellers, NEW n \in 1..MaxPayout, ReadAvailable(c, w, n)
          PROVE  Typed'
      <3>1. [at |-> "create", seller |-> w, amount |-> n] \in Handlers
        BY PayoutsAssumption DEF Handlers
      <3>. QED BY <1>3, <2>3, <3>1 DEF ReadAvailable, CanWithdraw
    <2>4. ASSUME NEW x \in Payouts, NEW step \in {"admin_update", "own_update"},
                 NEW s \in PayoutStatus, ReadPayout(c, x, step, s)
          PROVE  Typed'
      <3>1. [at |-> step, payout |-> x, status |-> s] \in Handlers
        BY DEF Handlers
      <3>2. payout[x] # NoPayout
        BY <2>4 DEF ReadPayout, OwnUpdate, NoPayout
      <3>3. step = "own_update" => s \in OwnStatuses
        BY <2>4 DEF ReadPayout, OwnUpdate
      <3>. QED BY <1>3, <2>4, <3>1, <3>2, <3>3 DEF ReadPayout, OwnUpdate
    <2>. QED BY <1>4, <2>2, <2>3, <2>4
             DEF PayoutStep, Start, Finish, Fail, InsertPayout, DecidePayout
  <1>. QED BY <1>2, <1>4 DEF Next, OtherPosting, Desk, vars

LEMMA AlwaysTyped == Spec => []Typed
  BY InitTyped, NextTyped, PTL DEF Spec

\* The tables and the handlers always have their types.
THEOREM TypeCorrect == Spec => []TypeOK
  <1>1. Typed => TypeOK
    BY DEF Typed
  <1>. QED BY <1>1, AlwaysTyped, PTL

-----------------------------------------------------------------------------
(* Reserves: why a failed payout cannot be recorded.                        *)

EntriesOf(x) == {e \in ledger.entries : e.txn = x}

\* A payout has no entry before its row, and from then on its reserve is
\* posted, its seller's accounts exist and it is not FAILED.
Reserved ==
    \A x \in Payouts :
        IF payout[x] = NoPayout
        THEN EntriesOf(x) = {}
        ELSE /\ payout[x].status # "FAILED"
             /\ Available(payout[x].seller) \in ledger.opened
             /\ Recorded(ledger, Available(payout[x].seller), x, "PAYOUT")

\* A seller with an available account that a sale opened has a total account.
Paired ==
    \A w \in Sellers :
        Available(w) \in ledger.opened /\ SoldFirst(w) => Total(w) \in ledger.opened

NeverFailed == \A x \in Payouts : payout[x].status # "FAILED"

LEMMA PostedEntries ==
  ASSUME Typed, NEW legs, ledger' = Posted(ledger, legs)
  PROVE  /\ \A x : EntriesOf(x)' = EntriesOf(x) \cup {e \in legs : e.txn = x}
         /\ ledger.opened \subseteq ledger'.opened
         /\ \A a, x, k : Recorded(ledger, a, x, k) => Recorded(ledger', a, x, k)
         /\ \A e \in legs : e.account \in ledger'.opened
                            /\ Recorded(ledger', e.account, e.txn, e.category)
  <1>1. /\ ledger'.opened = ledger.opened \cup {e.account : e \in legs}
        /\ ledger'.entries = ledger.entries \cup legs
        /\ AllEntries(ledger') = AllEntries(ledger) \cup legs
    BY PostedFields DEF Typed, TypeOK
  <1>. QED BY <1>1 DEF EntriesOf, Recorded

LEMMA LegTxns ==
  ASSUME NEW x, NEW e
  PROVE  /\ \A w, n : e \in ReserveLegs(w, x, n) => e.txn = x
         /\ \A step, s : e \in DecisionLegs(x, step, s) => e.txn = x
  BY DEF ReserveLegs, DecisionLegs, AdminLegs, OwnLegs, PayoutLeg

\* A reserved payout's failure hits the key of its reserve.
LEMMA FailureRefused ==
  ASSUME Reserved, NEW x \in Payouts, payout[x] \in PayoutRows,
         NEW step \in {"admin_update", "own_update"}
  PROVE  ~Decides(x, step, "FAILED")
  <1> DEFINE leg == PayoutLeg(Available(payout[x].seller), x, "CREDIT", payout[x].amount)
  <1>1. /\ Available(payout[x].seller) \in ledger.opened
        /\ Recorded(ledger, Available(payout[x].seller), x, "PAYOUT")
    BY DEF Reserved, PayoutRows, NoPayout, PayoutStatus
  <1>2. leg.account = Available(payout[x].seller) /\ leg.txn = x /\ leg.category = "PAYOUT"
    BY DEF PayoutLeg
  <1>3. leg \in DecisionLegs(x, step, "FAILED")
    BY <1>1, <1>2 DEF DecisionLegs, AdminLegs, OwnLegs
  <1>. QED BY <1>1, <1>2, <1>3 DEF Decides, Postable

LEMMA InitReserved == Init => Reserved /\ Paired
  BY DEF Init, Reserved, Paired, EntriesOf, EmptyLedger

LEMMA NextPaired ==
  ASSUME Typed, Reserved, Paired, [Next]_vars
  PROVE  Paired'
  <1> SUFFICES ASSUME NEW v \in Sellers, Available(v) \in ledger'.opened,
                      Available(v) \notin ledger'.openedByHand
               PROVE  Total(v) \in ledger'.opened
    BY DEF Paired, SoldFirst, Available, Total
  <1>0. SoldFirst(v) /\ (Available(v) \in ledger.opened => Total(v) \in ledger.opened)
    BY SoldBefore DEF SoldFirst, Paired
  <1>1. CASE UNCHANGED <<ledger, payout>>
    BY <1>0, <1>1
  <1>2. CASE OtherPosting
    <2>1. PICK legs \in SUBSET Entries :
             /\ (\E e \in legs : e.account = Available(v)) <=> (\E e \in legs : e.account = Total(v))
             /\ ledger' = Posted(ledger, legs)
      BY <1>2 DEF OtherPosting
    <2>2. ledger'.opened = ledger.opened \cup {e.account : e \in legs}
      BY <2>1, PostedFields DEF Typed, TypeOK
    <2>. QED BY <1>0, <2>1, <2>2
  <1>5. CASE Desk
    BY <1>0, <1>5, DeskStep
  <1>3. ASSUME NEW x \in Payouts, Reserves(x)
        PROVE  Total(v) \in ledger'.opened
    <2>1. PICK w \in Sellers, n \in Nat :
             Available(w) \in ledger.opened /\ ledger' = Posted(ledger, ReserveLegs(w, x, n))
      BY <1>3 DEF Reserves
    <2>2. ledger'.opened = ledger.opened
      <3>1. \A e \in ReserveLegs(w, x, n) : e.account = Available(w)
        BY DEF ReserveLegs, PayoutLeg
      <3>2. ledger'.opened = ledger.opened \cup {e.account : e \in ReserveLegs(w, x, n)}
        BY <2>1, PostedFields DEF Typed, TypeOK
      <3>. QED BY <2>1, <3>1, <3>2
    <2>. QED BY <1>0, <2>2
  <1>4. ASSUME NEW x \in Payouts, NEW step, NEW s, Decides(x, step, s)
        PROVE  Total(v) \in ledger'.opened
    <2>1. ledger'.opened = ledger.opened
      <3>1. \A e \in DecisionLegs(x, step, s) : e.account \in ledger.opened
        BY DEF DecisionLegs
      <3>2. ledger'.opened = ledger.opened \cup {e.account : e \in DecisionLegs(x, step, s)}
        BY <1>4, PostedFields DEF Decides, Typed, TypeOK
      <3>. QED BY <3>1, <3>2
    <2>. QED BY <1>0, <2>1
  <1>. QED BY <1>1, <1>2, <1>3, <1>4, <1>5, Steps

LEMMA NextReserved ==
  ASSUME Typed, Reserved, [Next]_vars
  PROVE  Reserved'
  <1> SUFFICES ASSUME NEW y \in Payouts
               PROVE  IF payout'[y] = NoPayout
                      THEN EntriesOf(y)' = {}
                      ELSE /\ payout'[y].status # "FAILED"
                           /\ Available(payout'[y].seller) \in ledger'.opened
                           /\ Recorded(ledger', Available(payout'[y].seller), y, "PAYOUT")
    BY DEF Reserved, Available, Recorded
  <1>1. CASE UNCHANGED <<ledger, payout>>
    BY <1>1 DEF Reserved, EntriesOf
  <1>2. CASE OtherPosting
    <2>1. PICK legs : (\A e \in legs : e.txn \notin Payouts) /\ ledger' = Posted(ledger, legs)
      BY <1>2 DEF OtherPosting
    <2>2. EntriesOf(y)' = EntriesOf(y)
      <3>1. EntriesOf(y)' = EntriesOf(y) \cup {e \in legs : e.txn = y}
        BY <2>1, PostedEntries
      <3>2. {e \in legs : e.txn = y} = {}
        BY <2>1
      <3>. QED BY <3>1, <3>2
    <2>3. payout' = payout
      BY <1>2 DEF OtherPosting
    <2>. QED BY <2>1, <2>2, <2>3, PostedEntries DEF Reserved
  <1>6. CASE Desk
    <2>1. EntriesOf(y)' = EntriesOf(y) /\ payout' = payout
      BY <1>6, DeskStep DEF EntriesOf
    <2>. QED BY <1>6, <2>1, DeskStep DEF Reserved
  <1>3. ASSUME NEW x \in Payouts, NEW legs, ledger' = Posted(ledger, legs),
               \A e \in legs : e.txn = x, x # y, payout'[y] = payout[y]
        PROVE  IF payout'[y] = NoPayout
               THEN EntriesOf(y)' = {}
               ELSE /\ payout'[y].status # "FAILED"
                    /\ Available(payout'[y].seller) \in ledger'.opened
                    /\ Recorded(ledger', Available(payout'[y].seller), y, "PAYOUT")
    BY <1>3, PostedEntries DEF Reserved
  <1>4. ASSUME NEW x \in Payouts, Reserves(x)
        PROVE  IF payout'[y] = NoPayout
               THEN EntriesOf(y)' = {}
               ELSE /\ payout'[y].status # "FAILED"
                    /\ Available(payout'[y].seller) \in ledger'.opened
                    /\ Recorded(ledger', Available(payout'[y].seller), y, "PAYOUT")
    <2>1. PICK w \in Sellers, n \in Nat :
             /\ payout' = [payout EXCEPT ![x] = [status |-> "PENDING", seller |-> w, amount |-> n]]
             /\ ledger' = Posted(ledger, ReserveLegs(w, x, n))
      BY <1>4 DEF Reserves
    <2>2. CASE x # y
      BY <1>3, <2>1, <2>2, LegTxns DEF Typed, TypeOK
    <2>3. CASE x = y
      <3>1. payout'[y] = [status |-> "PENDING", seller |-> w, amount |-> n]
        BY <2>1, <2>3 DEF Typed, TypeOK
      <3>2. payout'[y] # NoPayout
        BY <3>1 DEF NoPayout
      <3>3. PayoutLeg(Available(w), y, "DEBIT", n) \in ReserveLegs(w, x, n)
        BY <2>3 DEF ReserveLegs
      <3>4. /\ Available(w) \in ledger'.opened
            /\ Recorded(ledger', Available(w), y, "PAYOUT")
        BY <2>1, <3>3, PostedEntries DEF PayoutLeg
      <3>. QED BY <3>1, <3>2, <3>4
    <2>. QED BY <2>2, <2>3
  <1>5. ASSUME NEW x \in Payouts, NEW step \in {"admin_update", "own_update"},
               NEW s \in PayoutStatus, Decides(x, step, s), payout[x] \in PayoutRows
        PROVE  IF payout'[y] = NoPayout
               THEN EntriesOf(y)' = {}
               ELSE /\ payout'[y].status # "FAILED"
                    /\ Available(payout'[y].seller) \in ledger'.opened
                    /\ Recorded(ledger', Available(payout'[y].seller), y, "PAYOUT")
    <2>1. ledger' = Posted(ledger, DecisionLegs(x, step, s))
      BY <1>5 DEF Decides
    <2>2. CASE x # y
      <3>1. payout'[y] = payout[y]
        BY <1>5, <2>2 DEF Decides, Typed, TypeOK
      <3>. QED BY <1>3, <2>1, <2>2, <3>1, LegTxns
    <2>3. CASE x = y
      <3>1. s # "FAILED"
        BY <1>5, FailureRefused
      <3>2. payout'[y].status = s /\ payout'[y].seller = payout[y].seller
        BY <1>5, <2>3 DEF Decides, Typed, TypeOK, PayoutRows
      <3>3. payout[y] # NoPayout /\ payout'[y] # NoPayout
        BY <1>5, <2>3, <3>2 DEF PayoutRows, PayoutStatus, NoPayout
      <3>. QED BY <2>1, <3>1, <3>2, <3>3, PostedEntries DEF Reserved
    <2>. QED BY <2>2, <2>3
  <1>. QED BY <1>1, <1>2, <1>4, <1>5, <1>6, Steps

LEMMA AlwaysReserved == Spec => [](Reserved /\ Paired)
  <1>1. Typed /\ Reserved /\ Paired /\ [Next]_vars => (Reserved /\ Paired)'
    BY NextReserved, NextPaired
  <1>. QED BY <1>1, InitReserved, AlwaysTyped, PTL DEF Spec

\* No payout is ever recorded as FAILED, whatever admins do: the entry that
\* would return its reserve has the key of the reserve, and aborts the update.
THEOREM FailureNeverRecorded == Spec => []NeverFailed
  <1>1. Reserved => NeverFailed
    BY DEF Reserved, NeverFailed, NoPayout
  <1>. QED BY <1>1, AlwaysReserved, PTL

-----------------------------------------------------------------------------
(* Paid payouts.                                                            *)

\* The entry of a payout in a total account.
Debited(x) == \E e \in ledger.entries : e.txn = x /\ e.account[2] = "SELLER_BALANCE"

LEMMA InitPaid == Init => PaidIffDebited
  BY DEF Init, PaidIffDebited, EmptyLedger, NoPayout

\* As long as no seller marks a payout PAID, it becomes PAID in the step that
\* posts its debit: the total account exists, because the available one did.
LEMMA NextPaid ==
  ASSUME "PAID" \notin OwnStatuses, Typed, Reserved, Paired, PaidIffDebited, [Next]_vars
  PROVE  PaidIffDebited'
  <1> SUFFICES ASSUME NEW y \in Payouts, payout'[y] # NoPayout,
                      Available(payout'[y].seller) \notin ledger'.openedByHand
               PROVE  payout'[y].status = "PAID" <=> Debited(y)'
    BY DEF PaidIffDebited, Debited, SoldFirst, Available
  <1>0. ASSUME payout[y] # NoPayout, payout[y].seller = payout'[y].seller
        PROVE  /\ SoldFirst(payout[y].seller)
               /\ payout[y].status = "PAID" <=> Debited(y)
    <2>1. SoldFirst(payout[y].seller)
      BY <1>0, SoldBefore DEF SoldFirst
    <2>. QED BY <1>0, <2>1 DEF PaidIffDebited, Debited
  <1>1. CASE UNCHANGED <<ledger, payout>>
    BY <1>0, <1>1 DEF Debited
  <1>2. ASSUME NEW legs, ledger' = Posted(ledger, legs),
               \A e \in legs : e.txn # y, payout'[y] = payout[y]
        PROVE  payout'[y].status = "PAID" <=> Debited(y)'
    <2>1. ledger'.entries = ledger.entries \cup legs
      BY <1>2, PostedFields DEF Typed, TypeOK
    <2>. QED BY <1>0, <1>2, <2>1 DEF Debited
  <1>3. CASE OtherPosting
    BY <1>2, <1>3 DEF OtherPosting
  <1>6. CASE Desk
    <2>1. ledger'.entries = ledger.entries /\ payout' = payout
      BY <1>6, DeskStep
    <2>. QED BY <1>0, <2>1 DEF Debited
  <1>4. ASSUME NEW x \in Payouts, Reserves(x)
        PROVE  payout'[y].status = "PAID" <=> Debited(y)'
    <2>1. PICK w \in Sellers, n \in Nat :
             /\ payout[x] = NoPayout
             /\ payout' = [payout EXCEPT ![x] = [status |-> "PENDING", seller |-> w, amount |-> n]]
             /\ ledger' = Posted(ledger, ReserveLegs(w, x, n))
      BY <1>4 DEF Reserves
    <2>2. CASE x # y
      BY <1>2, <2>1, <2>2, LegTxns DEF Typed, TypeOK
    <2>3. CASE x = y
      <3>1. payout'[y].status = "PENDING"
        BY <2>1, <2>3 DEF Typed, TypeOK
      <3>4. ~Debited(y)
        BY <2>1, <2>3 DEF Reserved, EntriesOf, Debited
      <3>2. ledger'.entries = ledger.entries \cup {PayoutLeg(Available(w), x, "DEBIT", n)}
        BY <2>1, PostedFields DEF ReserveLegs, Typed, TypeOK
      <3>3. PayoutLeg(Available(w), x, "DEBIT", n).account[2] = "SELLER_AVAILABLE"
        BY DEF PayoutLeg, Available
      <3>. QED BY <3>1, <3>2, <3>3, <3>4 DEF Debited
    <2>. QED BY <2>2, <2>3
  <1>5. ASSUME NEW x \in Payouts, NEW step \in {"admin_update", "own_update"},
               NEW s \in PayoutStatus, Decides(x, step, s),
               step = "own_update" => s \in OwnStatuses, payout[x] \in PayoutRows
        PROVE  payout'[y].status = "PAID" <=> Debited(y)'
    <2> DEFINE legs == DecisionLegs(x, step, s)
               paid == PayoutLeg(Total(payout[x].seller), x, "DEBIT", payout[x].amount)
    <2>0. payout[x] # NoPayout
      BY <1>5 DEF PayoutRows, PayoutStatus, NoPayout
    <2>1. ledger' = Posted(ledger, legs) /\ ledger'.entries = ledger.entries \cup legs
      BY <1>5, PostedFields DEF Decides, Typed, TypeOK
    <2>9. x = y => payout'[y].status = s /\ payout'[y].seller = payout[y].seller
      BY <1>5 DEF Decides, Typed, TypeOK, PayoutRows
    <2>2. CASE x # y
      <3>1. payout'[y] = payout[y]
        BY <1>5, <2>2 DEF Decides, Typed, TypeOK
      <3>. QED BY <1>2, <2>1, <2>2, <3>1, LegTxns
    <2>3. CASE x = y /\ s = "PAID"
      <3>1. payout'[y].status = "PAID" /\ SoldFirst(payout[x].seller)
        BY <1>0, <2>0, <2>3, <2>9
      <3>2. Total(payout[x].seller) \in ledger.opened
        BY <1>5, <2>0, <3>1 DEF Reserved, Paired, PayoutRows
      <3>3. /\ paid.account = Total(payout[x].seller) /\ paid.txn = x
            /\ paid.account[2] = "SELLER_BALANCE"
        BY DEF PayoutLeg, Total
      <3>4. paid \in legs
        BY <1>5, <2>3, <3>2, <3>3 DEF DecisionLegs, AdminLegs
      <3>. QED BY <2>1, <2>3, <3>1, <3>3, <3>4 DEF Debited
    <2>4. CASE x = y /\ s = "PENDING"
      <3>1. legs = {}
        BY <2>4 DEF DecisionLegs, AdminLegs, OwnLegs
      <3>2. payout'[y].status = "PENDING" /\ payout[y].status = "PENDING"
        BY <1>5, <2>4, <2>9 DEF Decides
      <3>3. ledger'.entries = ledger.entries
        BY <2>1, <3>1
      <3>. QED BY <1>0, <2>0, <2>4, <2>9, <3>2, <3>3 DEF Debited
    <2>5. s # "FAILED"
      BY <1>5, FailureRefused
    <2>. QED BY <2>2, <2>3, <2>4, <2>5 DEF PayoutStatus
  <1>. QED BY <1>1, <1>3, <1>4, <1>5, <1>6, Steps

\* The service has debited a payout to the total balance exactly when it is PAID,
\* for any number of admins and sellers at the same time and whatever the desk
\* records or reverses under its id; updatePayoutStatus, which marks it PAID and
\* debits nothing, has no caller.
THEOREM PaidExactly ==
  ASSUME "PAID" \notin OwnStatuses
  PROVE  Spec => []PaidIffDebited
  <1>1. Typed /\ Reserved /\ Paired /\ PaidIffDebited /\ [Next]_vars => PaidIffDebited'
    BY NextPaid
  <1>. QED BY <1>1, InitPaid, AlwaysTyped, AlwaysReserved, PTL DEF Spec

-----------------------------------------------------------------------------
(* The books.                                                               *)

LEMMA FewLegs ==
  ASSUME NEW leg, NEW legs, legs \subseteq {leg}
  PROVE  IsFiniteSet(legs) /\ OneLegEach(legs)
  <1>1. IsFiniteSet(legs)
    BY FS_Singleton, FS_Subset
  <1>. QED BY <1>1 DEF OneLegEach

\* What a payout posts is one entry at most.
LEMMA PayoutLegs ==
  ASSUME NEW x
  PROVE  /\ \A w, n : ReserveLegs(w, x, n) \subseteq {PayoutLeg(Available(w), x, "DEBIT", n)}
         /\ \A step, s : \E leg : DecisionLegs(x, step, s) \subseteq {leg}
  BY DEF ReserveLegs, DecisionLegs, AdminLegs, OwnLegs

\* Whatever is posted is posted as one transaction.
LEMMA Postings ==
  ASSUME Typed, [Next]_vars
  PROVE  \/ ledger' = ledger
         \/ ledger' \in ByHand(ledger)
         \/ \E legs \in SUBSET Entries :
               /\ IsFiniteSet(legs) /\ OneLegEach(legs) /\ Postable(ledger, legs)
               /\ ledger' = Posted(ledger, legs)
  <1>1. CASE OtherPosting
    BY <1>1 DEF OtherPosting
  <1>4. CASE Desk
    BY <1>4 DEF Desk
  <1>2. ASSUME NEW x \in Payouts, Reserves(x)
        PROVE  \E legs \in SUBSET Entries :
                  /\ IsFiniteSet(legs) /\ OneLegEach(legs) /\ Postable(ledger, legs)
                  /\ ledger' = Posted(ledger, legs)
    <2>1. PICK w \in Sellers, n \in Nat :
             /\ Postable(ledger, ReserveLegs(w, x, n))
             /\ ledger' = Posted(ledger, ReserveLegs(w, x, n))
      BY <1>2 DEF Reserves
    <2>2. ReserveLegs(w, x, n) \in SUBSET Entries
      BY ReserveType
    <2>3. IsFiniteSet(ReserveLegs(w, x, n)) /\ OneLegEach(ReserveLegs(w, x, n))
      BY PayoutLegs, FewLegs
    <2>. QED BY <2>1, <2>2, <2>3
  <1>3. ASSUME NEW x \in Payouts, NEW step, NEW s, Decides(x, step, s), payout[x] \in PayoutRows
        PROVE  \E legs \in SUBSET Entries :
                  /\ IsFiniteSet(legs) /\ OneLegEach(legs) /\ Postable(ledger, legs)
                  /\ ledger' = Posted(ledger, legs)
    <2>1. DecisionLegs(x, step, s) \in SUBSET Entries
      BY <1>3, DecisionType
    <2>2. IsFiniteSet(DecisionLegs(x, step, s)) /\ OneLegEach(DecisionLegs(x, step, s))
      BY PayoutLegs, FewLegs
    <2>. QED BY <1>3, <2>1, <2>2 DEF Decides
  <1>. QED BY <1>1, <1>2, <1>3, <1>4, Steps

\* Sums are over finite sets: a behaviour has inserted finitely many rows.
Inserted == {x \in Payouts : payout[x] # NoPayout}
Books == Consistent(ledger) /\ FiniteBook(ledger) /\ IsFiniteSet(Inserted)

LEMMA InitBooks == Init => Books
  <1> SUFFICES ASSUME Init PROVE Books
    OBVIOUS
  <1>1. Inserted = {}
    BY DEF Init, Inserted
  <1>. QED BY <1>1, EmptyConsistent, FS_EmptySet DEF Init, Books

LEMMA NextBooks ==
  ASSUME Typed, Books, [Next]_vars
  PROVE  Books'
  <1>1. Consistent(ledger') /\ FiniteBook(ledger')
    <2>1. ledger \in Ledgers
      BY DEF Typed, TypeOK
    <2>. QED BY <2>1, Postings, PostedConsistent, DeskConsistent DEF Books
  <1>2. \E x : Inserted' \subseteq Inserted \cup {x}
    <2>1. CASE UNCHANGED payout
      BY <2>1 DEF Inserted
    <2>2. ASSUME NEW x \in Payouts, \A y \in Payouts : y # x => payout'[y] = payout[y]
          PROVE  Inserted' \subseteq Inserted \cup {x}
      BY <2>2 DEF Inserted
    <2>3. ASSUME NEW x \in Payouts, Reserves(x) \/ \E step, s : Decides(x, step, s)
          PROVE  \A y \in Payouts : y # x => payout'[y] = payout[y]
      BY <2>3 DEF Reserves, Decides, Typed, TypeOK
    <2>. QED BY <2>1, <2>2, <2>3, Steps DEF OtherPosting, Desk
  <1>3. IsFiniteSet(Inserted')
    <2>1. PICK x : Inserted' \subseteq Inserted \cup {x}
      BY <1>2
    <2>2. IsFiniteSet(Inserted \cup {x})
      BY FS_AddElement DEF Books
    <2>. QED BY <2>1, <2>2, FS_Subset
  <1>4. Consistent(ledger)' = Consistent(ledger') /\ FiniteBook(ledger)' = FiniteBook(ledger')
    BY DEF Consistent, EntrySum, AllEntries, FiniteBook
  <1>. QED BY <1>1, <1>3, <1>4 DEF Books

LEMMA AlwaysBooks == Spec => []Books
  <1>1. Typed /\ Books /\ [Next]_vars => Books'
    BY NextBooks
  <1>. QED BY <1>1, InitBooks, AlwaysTyped, PTL DEF Spec

-----------------------------------------------------------------------------
(* Pending payouts.                                                         *)

\* What the payouts of a set ask for.
Asked(S) == SumFunction([x \in S |-> payout[x].amount])

\* One payout more in the set, or one less, none of the others changed.
LEMMA AskedMore ==
  ASSUME NEW S, IsFiniteSet(S), \A y \in S : payout[y].amount \in Int,
         NEW x, x \notin S, payout'[x].amount \in Int,
         \A y \in S : payout'[y].amount = payout[y].amount
  PROVE  SumFunction([y \in S \cup {x} |-> payout'[y].amount]) = Asked(S) + payout'[x].amount
  <1> DEFINE f == [y \in S |-> payout[y].amount]
             g == [y \in S \cup {x} |-> payout'[y].amount]
  <1>1. Summable(f) /\ x \notin DOMAIN f
    BY DEF Summable
  <1>2. /\ DOMAIN g = DOMAIN f \cup {x} /\ \A y \in DOMAIN f : g[y] = f[y]
        /\ g[x] = payout'[x].amount /\ g[x] \in Int
    OBVIOUS
  <1> HIDE DEF f, g
  <1>3. SumFunction(g) = SumFunction(f) + g[x]
    BY <1>1, <1>2, SumOneMore
  <1>. QED BY <1>2, <1>3 DEF Asked, f, g

LEMMA AskedLess ==
  ASSUME NEW S, IsFiniteSet(S), \A y \in S : payout[y].amount \in Int,
         NEW x \in S, \A y \in S \ {x} : payout'[y].amount = payout[y].amount
  PROVE  Asked(S) = SumFunction([y \in S \ {x} |-> payout'[y].amount]) + payout[x].amount
  <1> DEFINE f == [y \in S \ {x} |-> payout'[y].amount]
             g == [y \in S |-> payout[y].amount]
  <1>1. IsFiniteSet(S \ {x})
    BY FS_RemoveElement
  <1>2. Summable(f) /\ x \notin DOMAIN f
    BY <1>1 DEF Summable
  <1>3. /\ DOMAIN g = DOMAIN f \cup {x} /\ \A y \in DOMAIN f : g[y] = f[y]
        /\ g[x] = payout[x].amount /\ g[x] \in Int
    OBVIOUS
  <1> HIDE DEF f, g
  <1>4. SumFunction(g) = SumFunction(f) + g[x]
    BY <1>2, <1>3, SumOneMore
  <1>. QED BY <1>3, <1>4 DEF Asked, f, g

LEMMA AskedSame ==
  ASSUME NEW S, IsFiniteSet(S), \A y \in S : payout'[y].amount = payout[y].amount
  PROVE  SumFunction([y \in S |-> payout'[y].amount]) = Asked(S)
  <1> DEFINE f == [y \in S |-> payout[y].amount]
             g == [y \in S |-> payout'[y].amount]
  <1>1. DOMAIN g = DOMAIN f /\ IsFiniteSet(DOMAIN f) /\ \A y \in DOMAIN f : g[y] = f[y]
    OBVIOUS
  <1> HIDE DEF f, g
  <1>2. SumFunction(g) = SumFunction(f)
    BY <1>1, SumEqual
  <1>. QED BY <1>2 DEF Asked, f, g

\* What the only leg of a transaction moves.
LEMMA OneLegDelta ==
  ASSUME NEW leg, NEW a
  PROVE  Delta({leg}, a) = IF leg.account = a THEN Signed(leg) ELSE 0
  <1>1. CASE leg.account = a
    <2>1. (CHOOSE e \in {leg} : e.account = a) = leg
      BY <1>1
    <2>. QED BY <1>1, <2>1 DEF Delta
  <1>2. CASE leg.account # a
    BY <1>2 DEF Delta
  <1>. QED BY <1>1, <1>2

LEMMA PostedOne ==
  ASSUME Typed, NEW leg, ledger' = Posted(ledger, {leg}), NEW a \in Accounts
  PROVE  ledger'.balance[a] = IF leg.account = a
                              THEN ledger.balance[a] + Signed(leg)
                              ELSE ledger.balance[a]
  <1>1. ledger'.balance[a] = ledger.balance[a] + Delta({leg}, a)
    BY PostedBalance DEF Typed, TypeOK
  <1>2. ledger.balance[a] \in Int
    BY DEF Typed, TypeOK, Ledgers
  <1>3. CASE leg.account = a
    BY <1>1, <1>3, OneLegDelta
  <1>4. CASE leg.account # a
    <2>1. Delta({leg}, a) = 0
      BY <1>4, OneLegDelta
    <2>. QED BY <1>1, <1>2, <1>4, <2>1
  <1>. QED BY <1>3, <1>4

\* What the services made of a balance.
Made(L, a) == L.balance[a] - HandSum(L, a)

LEMMA MadeInt ==
  ASSUME NEW L \in Ledgers, FiniteBook(L), NEW a \in Accounts
  PROVE  L.balance[a] \in Int /\ HandSum(L, a) \in Int /\ Made(L, a) \in Int
  <1>1. L.balance[a] \in Int /\ L.byHand \subseteq Entries
    BY DEF Ledgers
  <1>2. HandSum(L, a) \in Int
    <2> DEFINE S == {e \in L.byHand : e.account = a}
    <2>1. S \subseteq Entries /\ IsFiniteSet(S)
      BY <1>1, FS_Subset DEF FiniteBook
    <2> HIDE DEF S
    <2>2. SignedSum(S) \in Int
      BY <2>1, SignedSumInt
    <2>. QED BY <2>2 DEF HandSum, S
  <1>. QED BY <1>1, <1>2 DEF Made

LEMMA PostedMade ==
  ASSUME Typed, FiniteBook(ledger), NEW legs, ledger' = Posted(ledger, legs),
         NEW a \in Accounts, Delta(legs, a) \in Int
  PROVE  Made(ledger', a) = Made(ledger, a) + Delta(legs, a)
  <1>0. ledger \in Ledgers
    BY DEF Typed, TypeOK
  <1>1. /\ ledger'.balance[a] = ledger.balance[a] + Delta(legs, a)
        /\ HandSum(ledger', a) = HandSum(ledger, a)
    BY <1>0, PostedBalance, PostedHands
  <1>. QED BY <1>0, <1>1, MadeInt DEF Made

LEMMA PostedMadeOne ==
  ASSUME Typed, FiniteBook(ledger), NEW leg, ledger' = Posted(ledger, {leg}),
         NEW a \in Accounts, Signed(leg) \in Int
  PROVE  Made(ledger', a) = IF leg.account = a
                            THEN Made(ledger, a) + Signed(leg)
                            ELSE Made(ledger, a)
  <1>1. Made(ledger, a) \in Int
    BY MadeInt DEF Typed, TypeOK
  <1>2. CASE leg.account = a
    <2>1. Delta({leg}, a) = Signed(leg)
      BY <1>2, OneLegDelta
    <2>. QED BY <1>2, <2>1, PostedMade
  <1>3. CASE leg.account # a
    <2>1. Delta({leg}, a) = 0
      BY <1>3, OneLegDelta
    <2>2. Made(ledger', a) = Made(ledger, a) + 0
      BY <2>1, PostedMade
    <2>. QED BY <1>1, <1>3, <2>2
  <1>. QED BY <1>2, <1>3

LEMMA DeskMade ==
  ASSUME Typed, FiniteBook(ledger), Desk, NEW a \in Accounts
  PROVE  Made(ledger', a) = Made(ledger, a)
  <1>1. ledger \in Ledgers /\ ledger' \in ByHand(ledger)
    BY DEF Desk, Typed, TypeOK
  <1>2. ledger' \in Ledgers /\ FiniteBook(ledger')
    BY <1>1, DeskFrame
  <1>3. ledger'.balance[a] - ledger.balance[a] = HandSum(ledger', a) - HandSum(ledger, a)
    BY <1>1, DeskMoves
  <1>. QED BY <1>1, <1>2, <1>3, MadeInt DEF Made

\* Accounts of sellers are different accounts.
LEMMA AccountsDiffer ==
  ASSUME NEW v \in Sellers, NEW w \in Sellers
  PROVE  /\ Available(v) # Total(w) /\ Total(v) # Available(w)
         /\ Available(v) = Available(w) <=> v = w
         /\ Total(v) = Total(w) <=> v = w
  BY DEF Available, Total

\* The entry by which a payout is paid.
PaidLeg(x) == PayoutLeg(Total(payout[x].seller), x, "DEBIT", payout[x].amount)

LEMMA PostedNone ==
  ASSUME NEW L \in Ledgers
  PROVE  Posted(L, {}) = L
  <1>1. \A a \in Accounts : L.balance[a] \in Int /\ Delta({}, a) = 0
    BY DEF Ledgers, Delta
  <1>2. [a \in Accounts |-> L.balance[a] + Delta({}, a)] = L.balance
    BY <1>1 DEF Ledgers
  <1>3. /\ L.opened \cup {e.account : e \in {}} = L.opened
        /\ L.entries \cup {} = L.entries
    OBVIOUS
  <1>4. ASSUME NEW legs
        PROVE  Posted(L, legs) =
          [opened |-> L.opened \cup {e.account : e \in legs}, openedByHand |-> L.openedByHand,
           balance |-> [a \in Accounts |-> L.balance[a] + Delta(legs, a)],
           entries |-> L.entries \cup legs, byHand |-> L.byHand]
    BY LedgerColumns, PostedColumns
  <1>5. Posted(L, {}) =
          [opened |-> L.opened, openedByHand |-> L.openedByHand, balance |-> L.balance,
           entries |-> L.entries, byHand |-> L.byHand]
    BY <1>2, <1>3, <1>4
  <1>. QED BY <1>5, LedgerColumns

\* The decisions that change anything, if no seller marks a payout PAID: an
\* admin does, with the entry unless the available account was opened by hand.
LEMMA Decisions ==
  ASSUME "PAID" \notin OwnStatuses, Typed, Reserved, Paired,
         NEW x \in Payouts, NEW step \in {"admin_update", "own_update"}, NEW s \in PayoutStatus,
         Decides(x, step, s), step = "own_update" => s \in OwnStatuses, payout[x] \in PayoutRows
  PROVE  \/ UNCHANGED <<ledger, payout>>
         \/ /\ ledger' = Posted(ledger, {PaidLeg(x)})
            /\ Postable(ledger, {PaidLeg(x)})
            /\ payout[x].status = "PENDING"
            /\ payout' = [payout EXCEPT ![x].status = "PAID"]
         \/ /\ ~SoldFirst(payout[x].seller)
            /\ ledger' = ledger
            /\ payout[x].status = "PENDING"
            /\ payout' = [payout EXCEPT ![x].status = "PAID"]
  <1> DEFINE legs == DecisionLegs(x, step, s)
  <1>0. Posted(ledger, {}) = ledger
    BY PostedNone DEF Typed, TypeOK
  <1>1. CASE s = "PENDING"
    <2>1. legs = {}
      BY <1>1 DEF DecisionLegs, AdminLegs, OwnLegs
    <2>5. payout' = payout
      BY <1>1 DEF Decides, Typed, TypeOK, PayoutRows
    <2>. QED BY <1>0, <2>1, <2>5 DEF Decides
  <1>2. CASE s = "PAID"
    <2>1. CASE SoldFirst(payout[x].seller)
      <3>1. Total(payout[x].seller) \in ledger.opened
        BY <2>1 DEF Decides, Reserved, Paired, PayoutRows, PayoutStatus, NoPayout
      <3>2. legs = {PaidLeg(x)}
        BY <1>2, <3>1 DEF DecisionLegs, AdminLegs, PaidLeg, PayoutLeg
      <3>. QED BY <1>2, <3>2 DEF Decides
    <2>2. CASE ~SoldFirst(payout[x].seller)
      <3>1. legs = {} \/ legs = {PaidLeg(x)}
        BY <1>2 DEF DecisionLegs, AdminLegs, PaidLeg
      <3>. QED BY <1>0, <1>2, <2>2, <3>1 DEF Decides
    <2>. QED BY <2>1, <2>2
  <1>3. s # "FAILED"
    BY FailureRefused
  <1>. QED BY <1>1, <1>2, <1>3 DEF PayoutStatus

LEMMA PendingFinite ==
  ASSUME Typed, Books, NEW w
  PROVE  /\ IsFiniteSet(PendingOf(w))
         /\ \A x \in PendingOf(w) : payout[x] \in PayoutRows /\ payout[x].amount \in Int
  <1>1. PendingOf(w) \subseteq Inserted
    BY DEF PendingOf, Inserted, NoPayout
  <1>2. \A x \in PendingOf(w) : payout[x] \in PayoutRows
    BY <1>1 DEF Typed, TypeOK, Inserted, PendingOf
  <1>. QED BY <1>1, <1>2, FS_Subset DEF Books, PayoutRows

LEMMA AskedInt ==
  ASSUME Typed, Books, NEW w
  PROVE  Asked(PendingOf(w)) \in Int
  <1> DEFINE f == [x \in PendingOf(w) |-> payout[x].amount]
  <1>1. Summable(f)
    BY PendingFinite DEF Summable
  <1> HIDE DEF f
  <1>2. SumFunction(f) \in Int
    BY <1>1, SumInt
  <1>. QED BY <1>2 DEF f, Asked

\* What is pending for a seller, before and after a step.
LEMMA NextPending ==
  ASSUME "PAID" \notin OwnStatuses, Typed, Reserved, Paired, Books, PendingIsReserved, [Next]_vars
  PROVE  PendingIsReserved'
  <1>0. /\ ledger \in Ledgers /\ FiniteBook(ledger)
        /\ ledger' \in Ledgers /\ FiniteBook(ledger')
    <2>1. FiniteBook(ledger)' = FiniteBook(ledger')
      BY DEF FiniteBook
    <2>. QED BY <2>1, TablesTyped, NextBooks DEF Books, Typed, TypeOK
  <1> SUFFICES ASSUME NEW w \in Sellers, Available(w) \notin ledger'.openedByHand
               PROVE  Made(ledger', Total(w)) - Made(ledger', Available(w))
                        = SumFunction([x \in PendingOf(w)' |-> payout'[x].amount])
    <2>1. ASSUME NEW w \in Sellers,
                 Made(ledger', Total(w)) - Made(ledger', Available(w))
                        = SumFunction([x \in PendingOf(w)' |-> payout'[x].amount])
          PROVE  ledger'.balance[Total(w)] - ledger'.balance[Available(w)]
                    = SumFunction([x \in PendingOf(w)' |-> payout'[x].amount])
                        + HandSum(ledger', Total(w)) - HandSum(ledger', Available(w))
      BY <1>0, <2>1, SellerAccounts, MadeInt DEF Made
    <2>2. \A w : /\ HandSum(ledger, Total(w))' = HandSum(ledger', Total(w))
                 /\ HandSum(ledger, Available(w))' = HandSum(ledger', Available(w))
      BY DEF HandSum, Total, Available
    <2>. QED BY <2>1, <2>2 DEF PendingIsReserved, SoldFirst, Total, Available
  <1> DEFINE total == Made(ledger, Total(w))
             available == Made(ledger, Available(w))
  <1>a. Available(w) \in Accounts /\ Total(w) \in Accounts
    BY SellerAccounts
  <1>b. total \in Int /\ available \in Int
    BY <1>0, <1>a, MadeInt
  <1>c. total - available = Asked(PendingOf(w))
    <2>1. SoldFirst(w)
      BY SoldBefore DEF SoldFirst
    <2>2. ledger.balance[Total(w)] - ledger.balance[Available(w)]
            = Asked(PendingOf(w)) + HandSum(ledger, Total(w)) - HandSum(ledger, Available(w))
      BY <2>1 DEF PendingIsReserved, Asked
    <2>3. /\ Asked(PendingOf(w)) \in Int
          /\ ledger.balance[Total(w)] \in Int /\ HandSum(ledger, Total(w)) \in Int
          /\ ledger.balance[Available(w)] \in Int /\ HandSum(ledger, Available(w)) \in Int
      BY <1>0, <1>a, MadeInt, AskedInt
    <2>. QED BY <2>2, <2>3 DEF Made
  <1> HIDE DEF total, available
  <1>1. CASE UNCHANGED payout
    <2>1. PendingOf(w)' = PendingOf(w)
      BY <1>1 DEF PendingOf
    <2>2. SumFunction([x \in PendingOf(w)' |-> payout'[x].amount]) = Asked(PendingOf(w))
      BY <1>1, <2>1 DEF Asked
    <2>3. Made(ledger', Total(w)) - Made(ledger', Available(w)) = total - available
      <3>1. CASE ledger' = ledger
        BY <3>1 DEF total, available
      <3>2. CASE OtherPosting
        <4>1. PICK legs \in SUBSET Entries :
                 /\ Delta(legs, Available(w)) = Delta(legs, Total(w))
                 /\ ledger' = Posted(ledger, legs)
          BY <3>2 DEF OtherPosting
        <4>2. Delta(legs, Total(w)) \in Int
          BY <1>a, DeltaType
        <4>3. /\ Made(ledger', Total(w)) = total + Delta(legs, Total(w))
              /\ Made(ledger', Available(w)) = available + Delta(legs, Total(w))
          BY <1>0, <1>a, <4>1, <4>2, PostedMade DEF total, available
        <4>. QED BY <1>b, <4>2, <4>3
      <3>5. CASE Desk
        BY <1>0, <1>a, <3>5, DeskMade DEF total, available
      <3>3. ASSUME NEW x \in Payouts, Reserves(x)
            PROVE  FALSE
        BY <1>1, <3>3 DEF Reserves, Typed, TypeOK, NoPayout
      <3>4. ASSUME NEW x \in Payouts, NEW step \in {"admin_update", "own_update"},
                   NEW s \in PayoutStatus, Decides(x, step, s),
                   step = "own_update" => s \in OwnStatuses, payout[x] \in PayoutRows
            PROVE  ledger' = ledger
        <4>1. payout' = [payout EXCEPT ![x].status = "PAID"] => payout'[x].status = "PAID"
          BY <3>4 DEF Typed, TypeOK, PayoutRows
        <4>2. ~(payout[x].status = "PENDING" /\ payout' = [payout EXCEPT ![x].status = "PAID"])
          BY <1>1, <4>1
        <4>. QED BY <3>4, <4>2, Decisions
      <3>. QED BY <3>1, <3>2, <3>3, <3>4, <3>5, Steps
    <2>. QED BY <1>c, <2>2, <2>3
  <1>2. ASSUME NEW x \in Payouts, Reserves(x)
        PROVE  Made(ledger', Total(w)) - Made(ledger', Available(w))
                 = SumFunction([y \in PendingOf(w)' |-> payout'[y].amount])
    <2>1. PICK v \in Sellers, n \in Nat :
             /\ payout[x] = NoPayout
             /\ payout' = [payout EXCEPT ![x] = [status |-> "PENDING", seller |-> v, amount |-> n]]
             /\ ledger' = Posted(ledger, ReserveLegs(v, x, n))
      BY <1>2 DEF Reserves
    <2> DEFINE leg == PayoutLeg(Available(v), x, "DEBIT", n)
    <2>2. /\ ledger' = Posted(ledger, {leg})
          /\ leg.account = Available(v) /\ Signed(leg) = -n /\ Signed(leg) \in Int
      BY <2>1 DEF ReserveLegs, PayoutLeg, Signed
    <2> HIDE DEF leg
    <2>3. /\ x \notin PendingOf(w)
          /\ payout'[x] = [status |-> "PENDING", seller |-> v, amount |-> n]
          /\ \A y \in Payouts : y # x => payout'[y] = payout[y]
      BY <2>1 DEF PendingOf, NoPayout, Typed, TypeOK
    <2>4. Made(ledger', Total(w)) = total
      <3>1. leg.account # Total(w)
        BY <2>2, AccountsDiffer
      <3>. QED BY <1>0, <1>a, <2>2, <3>1, PostedMadeOne DEF total
    <2>5. CASE v = w
      <3>1. PendingOf(w)' = PendingOf(w) \cup {x}
        BY <2>3, <2>5 DEF PendingOf
      <3>2. SumFunction([y \in PendingOf(w) \cup {x} |-> payout'[y].amount]) = Asked(PendingOf(w)) + n
        <4>1. /\ payout'[x].amount = n
              /\ \A y \in PendingOf(w) : payout'[y].amount = payout[y].amount
          BY <2>3 DEF PendingOf
        <4>2. IsFiniteSet(PendingOf(w)) /\ \A y \in PendingOf(w) : payout[y].amount \in Int
          BY PendingFinite
        <4>3. x \notin PendingOf(w) /\ payout'[x].amount \in Int
          BY <2>3, <4>1
        <4>. QED BY <4>1, <4>2, <4>3, AskedMore
      <3>3. Made(ledger', Available(w)) = available + (-n)
        BY <1>0, <1>a, <2>2, <2>5, PostedMadeOne DEF available
      <3>. QED BY <1>b, <1>c, <2>4, <3>1, <3>2, <3>3
    <2>6. CASE v # w
      <3>1. PendingOf(w)' = PendingOf(w)
        BY <2>3, <2>6 DEF PendingOf
      <3>2. \A y \in PendingOf(w) : payout'[y].amount = payout[y].amount
        BY <2>3 DEF PendingOf
      <3>3. SumFunction([y \in PendingOf(w)' |-> payout'[y].amount]) = Asked(PendingOf(w))
        BY <3>1, <3>2, PendingFinite, AskedSame
      <3>4. Made(ledger', Available(w)) = available
        BY <1>0, <1>a, <2>2, <2>6, AccountsDiffer, PostedMadeOne DEF available
      <3>. QED BY <1>b, <1>c, <2>4, <3>3, <3>4
    <2>. QED BY <2>5, <2>6
  <1>3. ASSUME NEW x \in Payouts, payout[x] \in PayoutRows, payout[x].status = "PENDING",
               ledger' = Posted(ledger, {PaidLeg(x)}),
               payout' = [payout EXCEPT ![x].status = "PAID"]
        PROVE  Made(ledger', Total(w)) - Made(ledger', Available(w))
                 = SumFunction([y \in PendingOf(w)' |-> payout'[y].amount])
    <2> DEFINE v == payout[x].seller
               n == payout[x].amount
    <2>1. v \in Sellers /\ n \in Nat
      BY <1>3 DEF PayoutRows
    <2>2. /\ PaidLeg(x).account = Total(v)
          /\ Signed(PaidLeg(x)) = -n /\ Signed(PaidLeg(x)) \in Int
      BY <2>1 DEF PaidLeg, PayoutLeg, Signed
    <2>3. /\ payout'[x].status = "PAID"
          /\ \A y \in Payouts : y # x => payout'[y] = payout[y]
      BY <1>3 DEF Typed, TypeOK, PayoutRows
    <2>4. Made(ledger', Available(w)) = available
      <3>1. PaidLeg(x).account # Available(w)
        BY <2>1, <2>2, AccountsDiffer
      <3>. QED BY <1>0, <1>a, <1>3, <2>2, <3>1, PostedMadeOne DEF available
    <2>5. PendingOf(w)' = PendingOf(w) \ {x}
      BY <2>3 DEF PendingOf
    <2>6. \A y \in PendingOf(w) \ {x} : payout'[y].amount = payout[y].amount
      BY <2>3 DEF PendingOf
    <2>7. CASE v = w
      <3>1. x \in PendingOf(w)
        BY <1>3, <2>7 DEF PendingOf
      <3>2. Asked(PendingOf(w)) = SumFunction([y \in PendingOf(w) \ {x} |-> payout'[y].amount]) + n
        BY <2>6, <3>1, PendingFinite, AskedLess
      <3>3. Made(ledger', Total(w)) = total + (-n)
        BY <1>0, <1>a, <1>3, <2>2, <2>7, PostedMadeOne DEF total
      <3>4. SumFunction([y \in PendingOf(w) \ {x} |-> payout'[y].amount]) \in Int
        <4>1. \A y \in PendingOf(w) \ {x} : payout'[y].amount \in Int
          BY <2>6, PendingFinite
        <4> DEFINE g == [y \in PendingOf(w) \ {x} |-> payout'[y].amount]
        <4>2. Summable(g)
          BY <4>1, PendingFinite, FS_RemoveElement DEF Summable
        <4> HIDE DEF g
        <4>3. SumFunction(g) \in Int
          BY <4>2, SumInt
        <4>. QED BY <4>3 DEF g
      <3> DEFINE rest == SumFunction([y \in PendingOf(w) \ {x} |-> payout'[y].amount])
      <3>5. SumFunction([y \in PendingOf(w)' |-> payout'[y].amount]) = rest
        BY <2>5
      <3>6. Asked(PendingOf(w)) = rest + n /\ rest \in Int
        BY <3>2, <3>4
      <3> HIDE DEF v, n, rest
      <3>. QED BY <1>b, <1>c, <2>1, <2>4, <3>3, <3>5, <3>6
    <2>8. CASE v # w
      <3>1. PendingOf(w)' = PendingOf(w)
        BY <2>5, <2>8 DEF PendingOf
      <3>2. \A y \in PendingOf(w) : payout'[y].amount = payout[y].amount
        BY <2>6, <2>8 DEF PendingOf
      <3>3. SumFunction([y \in PendingOf(w)' |-> payout'[y].amount]) = Asked(PendingOf(w))
        BY <3>1, <3>2, PendingFinite, AskedSame
      <3>4. Made(ledger', Total(w)) = total
        <4>1. PaidLeg(x).account # Total(w)
          BY <2>1, <2>2, <2>8, AccountsDiffer
        <4>. QED BY <1>0, <1>a, <1>3, <2>2, <4>1, PostedMadeOne DEF total
      <3>. QED BY <1>b, <1>c, <2>4, <3>3, <3>4
    <2>. QED BY <2>7, <2>8
  <1>4. ASSUME NEW x \in Payouts, NEW step \in {"admin_update", "own_update"},
               NEW s \in PayoutStatus, Decides(x, step, s),
               step = "own_update" => s \in OwnStatuses, payout[x] \in PayoutRows
        PROVE  Made(ledger', Total(w)) - Made(ledger', Available(w))
                 = SumFunction([y \in PendingOf(w)' |-> payout'[y].amount])
    <2>1. ASSUME ~SoldFirst(payout[x].seller), ledger' = ledger,
                 payout' = [payout EXCEPT ![x].status = "PAID"]
          PROVE  Made(ledger', Total(w)) - Made(ledger', Available(w))
                   = SumFunction([y \in PendingOf(w)' |-> payout'[y].amount])
      <3>1. payout[x].seller # w
        BY <2>1, SoldBefore DEF SoldFirst
      <3>2. /\ payout'[x].seller = payout[x].seller
            /\ \A y \in Payouts : y # x => payout'[y] = payout[y]
        BY <1>4, <2>1 DEF Typed, TypeOK, PayoutRows
      <3>3. PendingOf(w)' = PendingOf(w)
        BY <3>1, <3>2 DEF PendingOf
      <3>4. \A y \in PendingOf(w) : payout'[y].amount = payout[y].amount
        BY <3>1, <3>2 DEF PendingOf
      <3>5. SumFunction([y \in PendingOf(w)' |-> payout'[y].amount]) = Asked(PendingOf(w))
        BY <3>3, <3>4, PendingFinite, AskedSame
      <3>. QED BY <1>c, <2>1, <3>5 DEF total, available
    <2>. QED BY <1>1, <1>3, <1>4, <2>1, Decisions
  <1>. QED BY <1>1, <1>2, <1>4, Steps DEF OtherPosting, Desk

LEMMA InitPending == Init => PendingIsReserved
  <1> SUFFICES ASSUME Init, NEW w \in Sellers
               PROVE  ledger.balance[Total(w)] - ledger.balance[Available(w)]
                        = Asked(PendingOf(w)) + HandSum(ledger, Total(w)) - HandSum(ledger, Available(w))
    BY DEF PendingIsReserved, Asked
  <1>1. DOMAIN [x \in PendingOf(w) |-> payout[x].amount] = {}
    BY DEF Init, PendingOf, NoPayout
  <1>2. Asked(PendingOf(w)) = 0
    BY <1>1, SumOfNone DEF Asked
  <1>3. ledger.balance[Total(w)] = 0 /\ ledger.balance[Available(w)] = 0
    BY SellerAccounts DEF Init, EmptyLedger
  <1>4. \A a : HandSum(ledger, a) = 0
    <2>1. \A a : {e \in ledger.byHand : e.account = a} = {}
      BY DEF Init, EmptyLedger
    <2>. QED BY <2>1, SignedSumNone DEF HandSum
  <1>. QED BY <1>2, <1>3, <1>4

\* The difference of a seller's two balances is what the pending payouts ask
\* for and what the desk moved between them: whatever else is posted, and however
\* payouts are asked for and decided at the same time.
THEOREM PendingReserved ==
  ASSUME "PAID" \notin OwnStatuses
  PROVE  Spec => []PendingIsReserved
  <1>1. Typed /\ Reserved /\ Paired /\ Books /\ PendingIsReserved /\ [Next]_vars => PendingIsReserved'
    BY NextPending
  <1>. QED BY <1>1, InitPending, AlwaysTyped, AlwaysReserved, AlwaysBooks, PTL DEF Spec

-----------------------------------------------------------------------------
(* Settlement names the operators of Payments Pay!..., their proofs PP!...;  *)
(* they are the same.                                                       *)

LEMMA SameLedgers ==
  /\ PP!Accounts = Accounts /\ PP!Entries = Entries /\ PP!Ledgers = Ledgers
  /\ \A L, legs : /\ PP!Posted(L, legs) = Posted(L, legs)
                  /\ PP!Postable(L, legs) <=> Postable(L, legs)
  /\ \A legs, a : PP!Delta(legs, a) = Delta(legs, a)
  /\ \A legs : PP!OneLegEach(legs) <=> OneLegEach(legs)
  /\ \A e : PP!Signed(e) = Signed(e)
  BY DEF AllEntries, PP!AllEntries, Accounts, PP!Accounts, AccountTypes, PP!AccountTypes, Entries, PP!Entries,
         Categories, PP!Categories, EntryTypes, PP!EntryTypes, Ledgers, PP!Ledgers,
         Posted, PP!Posted, Postable, PP!Postable, Recorded, PP!Recorded,
         Delta, PP!Delta, Signed, PP!Signed, OneLegEach, PP!OneLegEach

LEMMA SameFinite == \A S : PP!IsFiniteSet(S) <=> IsFiniteSet(S)
  BY DEF PP!IsFiniteSet, IsFiniteSet

LEMMA SameDesk == \A L : PP!ByHand(L) = ByHand(L)
  BY DEF ByHand, PP!ByHand, AccountByHand, PP!AccountByHand, EntryByHand, PP!EntryByHand,
         Recordable, PP!Recordable, Reversible, PP!Reversible, Reversal, PP!Reversal,
         Opposite, PP!Opposite, Postable, PP!Postable, Recorded, PP!Recorded,
         AllEntries, PP!AllEntries, Signed, PP!Signed

\* What Payments assumes of its constants, for the facts cited from its proofs.
LEMMA SameAssumption ==
  /\ PP!IsFiniteSet(Orders)
  /\ Seller \in [Orders -> Owners]
  /\ Buyer \in [Orders -> Owners]
  /\ Price \in [Orders -> Nat \ {0}]
  /\ Basket \in [Payments -> SUBSET Orders]
  /\ \A p, q \in Payments : p # q => Basket[p] \cap Basket[q] = {}
  /\ Payments \cup Refunds \subseteq Txns
  /\ Payments \cap Refunds = {}
  /\ Offered \subseteq PP!Accounts
  /\ HandMade \subseteq PP!Entries
  /\ ReversalOf \in [DOMAIN ReversalOf -> Txns]
  /\ \A s, t \in DOMAIN ReversalOf : ReversalOf[s] = ReversalOf[t] => s = t
  <1>1. /\ Offered \subseteq PP!Accounts
        /\ HandMade \subseteq PP!Entries
        /\ ReversalOf \in [DOMAIN ReversalOf -> Txns]
        /\ \A s, t \in DOMAIN ReversalOf : ReversalOf[s] = ReversalOf[t] => s = t
    BY DeskAssumption, SameLedgers
  <1>. QED BY <1>1, SettlementAssumption DEF Pay!PaymentsAssumption, Pay!IsFiniteSet, PP!IsFiniteSet

LEMMA SameInit == Pay!Init => PP!Init
  BY DEF Pay!Init, PP!Init, Pay!EmptyLedger, PP!EmptyLedger, Pay!Accounts, PP!Accounts,
         Pay!AccountTypes, PP!AccountTypes, Pay!Idle, PP!Idle, Pay!NoRefund, PP!NoRefund

LEMMA SameCall ==
  ASSUME NEW r, Pay!Call(r)
  PROVE  PP!Call(r)
  BY DEF Pay!Call, PP!Call, Pay!PaymentIdLeft, PP!PaymentIdLeft, Pay!RefundIdLeft, PP!RefundIdLeft,
         Pay!CreatePayment, PP!CreatePayment, Pay!ReadPayment, PP!ReadPayment,
         Pay!RequestRefund, PP!RequestRefund, Pay!ReadRefund, PP!ReadRefund,
         Pay!MaySettle, PP!MaySettle, Pay!UpdatePaymentStatus, PP!UpdatePaymentStatus,
         Pay!ProcessPayment, PP!ProcessPayment, Pay!CollectCodPayment, PP!CollectCodPayment,
         Pay!CancelPayment, PP!CancelPayment, Pay!HandleProviderWebhook, PP!HandleProviderWebhook,
         Pay!StripeStatuses, PP!StripeStatuses, Pay!PaymentStatus, PP!PaymentStatus,
         Pay!Idle, PP!Idle, Pay!Goto, PP!Goto, Pay!NoRefund, PP!NoRefund,
         Pay!Cardinality, PP!Cardinality

LEMMA SameFail ==
  ASSUME NEW r, Pay!Fail(r)
  PROVE  PP!Fail(r)
  BY DEF Pay!Fail, PP!Fail, Pay!Return, PP!Return, Pay!Goto, PP!Goto, Pay!Idle, PP!Idle

LEMMA SameAdvance ==
  ASSUME NEW r, Pay!Advance(r)
  PROVE  PP!Advance(r)
  <1>1. CASE Pay!FindPendingPayments(r)
    <2>1. PP!FindPendingPayments(r)
      BY <1>1 DEF Pay!FindPendingPayments, PP!FindPendingPayments, Pay!OpenPayments,
                  PP!OpenPayments, Pay!Goto, PP!Goto, Pay!Idle, PP!Idle
    <2>. QED BY <2>1 DEF PP!Advance
  <1>2. CASE \E p \in Payments : Pay!InsertPayment(r, p)
    <2>1. \E p \in Payments : PP!InsertPayment(r, p)
      BY <1>2 DEF Pay!InsertPayment, PP!InsertPayment, Pay!Return, PP!Return,
                  Pay!Goto, PP!Goto, Pay!Idle, PP!Idle
    <2>. QED BY <2>1 DEF PP!Advance
  <1>3. CASE Pay!ApplyPaymentStatus(r)
    <2>1. PP!ApplyPaymentStatus(r)
      BY <1>3 DEF Pay!ApplyPaymentStatus, PP!ApplyPaymentStatus, Pay!Claimed, PP!Claimed,
                  Pay!HoldsOrder, PP!HoldsOrder, Pay!KeysCollide, PP!KeysCollide,
                  Pay!SyncedOrderStatus, PP!SyncedOrderStatus, Pay!CreditLegs, PP!CreditLegs,
                  Pay!Credit, PP!Credit, Pay!Postable, PP!Postable, Pay!Recorded, PP!Recorded, Pay!AllEntries, PP!AllEntries,
                  Pay!Posted, PP!Posted, Pay!Delta, PP!Delta, Pay!Signed, PP!Signed,
                  Pay!Accounts, PP!Accounts, Pay!AccountTypes, PP!AccountTypes,
                  Pay!Return, PP!Return, Pay!Goto, PP!Goto, Pay!Idle, PP!Idle
    <2>. QED BY <2>1 DEF PP!Advance
  <1>4. CASE Pay!FindExistingRefund(r)
    <2>1. PP!FindExistingRefund(r)
      BY <1>4 DEF Pay!FindExistingRefund, PP!FindExistingRefund, Pay!ActiveRefunds,
                  PP!ActiveRefunds, Pay!Goto, PP!Goto, Pay!Idle, PP!Idle
    <2>. QED BY <2>1 DEF PP!Advance
  <1>5. CASE \E f \in Refunds : Pay!InsertRefund(r, f)
    <2>1. \E f \in Refunds : PP!InsertRefund(r, f)
      BY <1>5 DEF Pay!InsertRefund, PP!InsertRefund, Pay!NoRefund, PP!NoRefund,
                  Pay!Return, PP!Return, Pay!Goto, PP!Goto, Pay!Idle, PP!Idle
    <2>. QED BY <2>1 DEF PP!Advance
  <1>6. CASE Pay!BeginApproval(r)
    <2>1. PP!BeginApproval(r)
      BY <1>6 DEF Pay!BeginApproval, PP!BeginApproval, Pay!HoldsRefund, PP!HoldsRefund,
                  Pay!HoldsOrder, PP!HoldsOrder, Pay!AvailableOf, PP!AvailableOf,
                  Pay!Goto, PP!Goto, Pay!Idle, PP!Idle
    <2>. QED BY <2>1 DEF PP!Advance
  <1>7. CASE Pay!CommitApproval(r)
    <2>1. PP!CommitApproval(r)
      BY <1>7 DEF Pay!CommitApproval, PP!CommitApproval, Pay!RefundLegs, PP!RefundLegs,
                  Pay!Postable, PP!Postable, Pay!Recorded, PP!Recorded, Pay!AllEntries, PP!AllEntries,
                  Pay!Posted, PP!Posted, Pay!Delta, PP!Delta, Pay!Signed, PP!Signed,
                  Pay!Accounts, PP!Accounts, Pay!AccountTypes, PP!AccountTypes,
                  Pay!Return, PP!Return, Pay!Goto, PP!Goto, Pay!Idle, PP!Idle
    <2>. QED BY <2>1 DEF PP!Advance
  <1>8. CASE Pay!RejectRefund(r)
    <2>1. PP!RejectRefund(r)
      BY <1>8 DEF Pay!RejectRefund, PP!RejectRefund, Pay!HoldsRefund, PP!HoldsRefund,
                  Pay!Return, PP!Return, Pay!Goto, PP!Goto, Pay!Idle, PP!Idle
    <2>. QED BY <2>1 DEF PP!Advance
  <1>. QED BY <1>1, <1>2, <1>3, <1>4, <1>5, <1>6, <1>7, <1>8 DEF Pay!Advance

LEMMA SamePayStep ==
  ASSUME NEW r \in Requests, Pay!Call(r) \/ Pay!Advance(r) \/ Pay!Fail(r)
  PROVE  PP!Next
  BY SameCall, SameAdvance, SameFail DEF PP!Next

-----------------------------------------------------------------------------
(* Payouts sees the handlers of Payments as the other services it allows for. *)

LEMMA Kinds ==
  ASSUME [SettlementNext]_allVars
  PROVE  \/ UNCHANGED allVars
         \/ PP!Next /\ UNCHANGED outVars
         \/ (\E c \in Calls : PayoutStep(c)) /\ UNCHANGED payVars
  <1>1. ASSUME NEW r \in Requests, Pay!Call(r) \/ Pay!Advance(r) \/ Pay!Fail(r)
        PROVE  PP!Next
    BY <1>1, SamePayStep
  <1>2. ASSUME Desk, UNCHANGED payVars
        PROVE  PP!Next /\ UNCHANGED outVars
    BY <1>2, SameDesk DEF Desk, PP!Next, PP!Desk, payVars, outVars
  <1>. QED BY <1>1, <1>2 DEF SettlementNext, PayoutStep

LEMMA TxnsDiffer ==
  /\ \A p \in Payments : p \notin Payouts /\ p \notin Refunds
  /\ \A f \in Refunds : f \notin Payouts
  BY SettlementAssumption DEF Pay!PaymentsAssumption

\* What Payments posts is what OtherPosting allows.
LEMMA AllowedPosting ==
  ASSUME NEW legs, PP!Transaction(legs), PP!MovesBoth(legs),
         \A e \in legs : e.txn \notin Payouts /\ e.category # "PAYOUT",
         PP!Postable(ledger, legs), ledger' = PP!Posted(ledger, legs), UNCHANGED outVars
  PROVE  OtherPosting
  <1>1. /\ legs \in SUBSET Entries /\ IsFiniteSet(legs) /\ OneLegEach(legs)
        /\ Postable(ledger, legs) /\ ledger' = Posted(ledger, legs)
    BY SameLedgers, SameFinite DEF PP!Transaction
  <1>2. ASSUME NEW w \in Sellers
        PROVE  /\ (\E e \in legs : e.account = Available(w)) <=> (\E e \in legs : e.account = Total(w))
               /\ Delta(legs, Available(w)) = Delta(legs, Total(w))
    <2>1. w \in Owners
      BY PayoutsAssumption
    <2>. QED BY <2>1, SameLedgers DEF PP!MovesBoth, Available, Total
  <1>. QED BY <1>1, <1>2 DEF OtherPosting, outVars

LEMMA CreditsOfPayment ==
  ASSUME NEW p \in Payments, NEW e \in PP!CreditLegs(p)
  PROVE  e.txn = p /\ e.category = "PAYMENT" /\ e.txn \notin Payouts
  <1>1. \E o, t : e = PP!Credit(p, o, t)
    BY SameAssumption, PP!CreditLegsMembers
  <1>. QED BY <1>1, SameAssumption, PP!CreditFields, TxnsDiffer

LEMMA LegsOfRefund ==
  ASSUME NEW f \in Refunds, NEW e \in PP!RefundLegs(f)
  PROVE  e.txn = f /\ e.category = "REFUND" /\ e.txn \notin Payouts
  BY TxnsDiffer DEF PP!RefundLegs

LEMMA PayIsOther ==
  ASSUME PP!Typed, PP!Next, UNCHANGED outVars
  PROVE  UNCHANGED vars \/ OtherPosting \/ Desk
  <1>1. CASE UNCHANGED ledger
    BY <1>1 DEF vars, outVars
  <1>4. CASE PP!Desk
    BY <1>4, SameDesk DEF Desk, PP!Desk, outVars
  <1>2. ASSUME NEW p \in Payments, NEW s \in PP!PaymentStatus, PP!Decides(p, s), s = "SUCCEEDED"
        PROVE  OtherPosting
    <2>1. PP!Transaction(PP!CreditLegs(p)) /\ PP!MovesBoth(PP!CreditLegs(p))
      BY <1>2, SameAssumption, PP!CreditsAreTransaction DEF PP!Decides, PP!Typed, PP!TypeOK
    <2>2. \A e \in PP!CreditLegs(p) : e.txn \notin Payouts /\ e.category # "PAYOUT"
      BY CreditsOfPayment
    <2>. QED BY <1>2, <2>1, <2>2, AllowedPosting DEF PP!Decides
  <1>3. ASSUME NEW f \in Refunds, PP!PaysBack(f)
        PROVE  OtherPosting
    <2>1. PP!Transaction(PP!RefundLegs(f)) /\ PP!MovesBoth(PP!RefundLegs(f))
      BY <1>3, SameAssumption, PP!RefundIsTransaction DEF PP!PaysBack
    <2>2. \A e \in PP!RefundLegs(f) : e.txn \notin Payouts /\ e.category # "PAYOUT"
      BY LegsOfRefund
    <2>. QED BY <1>3, <2>1, <2>2, AllowedPosting DEF PP!PaysBack
  <1>. QED BY <1>1, <1>2, <1>3, <1>4, SameAssumption, PP!MoneySteps DEF PP!Inserts, PP!Decides

\* The step of either service, as Payouts sees it.
LEMMA SettlementStep ==
  ASSUME PP!Typed, [SettlementNext]_allVars
  PROVE  [Next]_vars
  BY Kinds, PayIsOther DEF Next, allVars, vars

\* A payout moves no entry of a payment, and leaves the rows of Payments alone.
LEMMA PayoutKeepsTyped ==
  ASSUME Typed, PP!Typed, [Next]_vars, UNCHANGED payVars
  PROVE  PP!Typed'
  <1>1. ledger' \in PP!Ledgers
    BY TablesTyped, SameLedgers
  <1>. QED BY <1>1 DEF PP!Typed, PP!TypeOK, PP!NamesRefund, PP!NamesOrders, payVars

BothTyped == Typed /\ PP!Typed

LEMMA NextBothTyped ==
  ASSUME BothTyped, [SettlementNext]_allVars
  PROVE  BothTyped'
  <1>1. Typed'
    BY SettlementStep, NextTyped DEF BothTyped
  <1>2. CASE UNCHANGED allVars
    BY <1>1, <1>2 DEF BothTyped, allVars, PP!Typed, PP!TypeOK, PP!NamesRefund, PP!NamesOrders
  <1>3. CASE PP!Next /\ UNCHANGED outVars
    BY <1>1, <1>3, SameAssumption, PP!NextTyped DEF BothTyped
  <1>4. CASE (\E c \in Calls : PayoutStep(c)) /\ UNCHANGED payVars
    BY <1>1, <1>4, SettlementStep, PayoutKeepsTyped DEF BothTyped
  <1>. QED BY <1>2, <1>3, <1>4, Kinds

LEMMA InitBothTyped == SettlementInit => BothTyped
  BY SameInit, InitTyped, SameAssumption, PP!InitTyped DEF SettlementInit, BothTyped

LEMMA AlwaysBothTyped == SettlementSpec => []BothTyped
  BY InitBothTyped, NextBothTyped, PTL DEF SettlementSpec

\* Payments and payouts together are, for the payouts, a behaviour of Payouts:
\* whatever was proved of it holds here.
THEOREM SettlementIsPayouts == SettlementSpec => Spec
  <1>1. BothTyped /\ [SettlementNext]_allVars => [Next]_vars
    BY SettlementStep DEF BothTyped
  <1>2. SettlementInit => Init
    BY DEF SettlementInit
  <1>. QED BY <1>1, <1>2, AlwaysBothTyped, PTL DEF SettlementSpec, Spec

\* What was proved of the payouts, with the payments beside them.
THEOREM PayoutsInSettlement ==
  ASSUME "PAID" \notin OwnStatuses
  PROVE  SettlementSpec => [](PaidIffDebited /\ PendingIsReserved /\ NeverFailed)
  BY SettlementIsPayouts, PaidExactly, PendingReserved, FailureNeverRecorded, PTL

-----------------------------------------------------------------------------
(* What a transaction adds to what went through a total account.            *)

OfKind(S, w, k) == {e \in S : e.account = Total(w) /\ e.category = k}

LEMMA MovedSum ==
  /\ \A w, k : Moved(w, k) = SignedSum(OfKind(ledger.entries, w, k))
  /\ \A w, k : Moved(w, k)' = SignedSum(OfKind(ledger'.entries, w, k))
  BY DEF Moved, OfKind, Total

LEMMA MovedInt ==
  ASSUME Typed, Books, NEW w, NEW k
  PROVE  /\ OfKind(ledger.entries, w, k) \subseteq Entries
         /\ IsFiniteSet(OfKind(ledger.entries, w, k))
         /\ Moved(w, k) \in Int
  <1>1. /\ OfKind(ledger.entries, w, k) \subseteq Entries
        /\ OfKind(ledger.entries, w, k) \subseteq ledger.entries
    BY DEF OfKind, Typed, TypeOK, Ledgers
  <1>2. IsFiniteSet(OfKind(ledger.entries, w, k))
    BY <1>1, FS_Subset DEF Books, FiniteBook
  <1>. QED BY <1>1, <1>2, SignedSumInt, MovedSum

LEMMA MovedSame ==
  ASSUME Typed, NEW legs, ledger' = Posted(ledger, legs), NEW w, NEW k,
         \A e \in legs : ~(e.account = Total(w) /\ e.category = k)
  PROVE  Moved(w, k)' = Moved(w, k)
  <1>1. OfKind(ledger'.entries, w, k) = OfKind(ledger.entries, w, k)
    BY PostedFields DEF OfKind, Typed, TypeOK
  <1>. QED BY <1>1, MovedSum

LEMMA MovedMore ==
  ASSUME Typed, Books, NEW legs, legs \subseteq Entries, Postable(ledger, legs),
         ledger' = Posted(ledger, legs), NEW w, NEW k, NEW leg \in legs,
         leg.account = Total(w), leg.category = k,
         \A e \in legs : e.account = Total(w) /\ e.category = k => e = leg
  PROVE  Moved(w, k)' = Moved(w, k) + Signed(leg)
  <1>1. OfKind(ledger'.entries, w, k) = OfKind(ledger.entries, w, k) \cup {leg}
    BY PostedFields DEF OfKind, Typed, TypeOK
  <1>2. leg \notin OfKind(ledger.entries, w, k)
    BY LegsAreNew DEF OfKind
  <1>3. leg \in Entries
    OBVIOUS
  <1>. QED BY <1>1, <1>2, <1>3, MovedInt, MovedSum, SignedSumMore

-----------------------------------------------------------------------------
(* What was paid out.                                                       *)

PaidOutMoved ==
    \A w \in Sellers : SoldFirst(w) => -Moved(w, "PAYOUT") = Asked(PaidOut(w))

LEMMA PaidOutFinite ==
  ASSUME Typed, Books, NEW w
  PROVE  /\ IsFiniteSet(PaidOut(w))
         /\ \A x \in PaidOut(w) : payout[x] \in PayoutRows /\ payout[x].amount \in Int
  <1>1. PaidOut(w) \subseteq Inserted
    BY DEF PaidOut, Inserted, NoPayout
  <1>2. \A x \in PaidOut(w) : payout[x] \in PayoutRows
    BY <1>1 DEF Typed, TypeOK, Inserted, PaidOut
  <1>. QED BY <1>1, <1>2, FS_Subset DEF Books, PayoutRows

LEMMA NextPaidOut ==
  ASSUME "PAID" \notin OwnStatuses, Typed, Reserved, Paired, Books, PaidOutMoved, [Next]_vars
  PROVE  PaidOutMoved'
  <1> SUFFICES ASSUME NEW w \in Sellers, Available(w) \notin ledger'.openedByHand
               PROVE  -(Moved(w, "PAYOUT")') = SumFunction([x \in PaidOut(w)' |-> payout'[x].amount])
    BY DEF PaidOutMoved, Asked, SoldFirst, Available
  <1>s. SoldFirst(w)
    BY SoldBefore DEF SoldFirst
  <1>0. -Moved(w, "PAYOUT") = Asked(PaidOut(w)) /\ Moved(w, "PAYOUT") \in Int
    BY <1>s, MovedInt DEF PaidOutMoved
  <1>1. CASE Moved(w, "PAYOUT")' = Moved(w, "PAYOUT") /\ PaidOut(w)' = PaidOut(w)
             /\ \A y \in PaidOut(w) : payout'[y].amount = payout[y].amount
    <2>1. SumFunction([x \in PaidOut(w)' |-> payout'[x].amount]) = Asked(PaidOut(w))
      BY <1>1, PaidOutFinite, AskedSame
    <2>. QED BY <1>0, <1>1, <2>1
  <1>2. CASE UNCHANGED <<ledger, payout>>
    <2>1. Moved(w, "PAYOUT")' = Moved(w, "PAYOUT")
      BY <1>2, MovedSum
    <2>. QED BY <1>1, <1>2, <2>1 DEF PaidOut
  <1>3. CASE OtherPosting
    <2>1. PICK legs : (\A e \in legs : e.category # "PAYOUT") /\ ledger' = Posted(ledger, legs)
      BY <1>3 DEF OtherPosting
    <2>2. payout' = payout
      BY <1>3 DEF OtherPosting
    <2>. QED BY <1>1, <2>1, <2>2, MovedSame DEF PaidOut
  <1>7. CASE Desk
    <2>1. Moved(w, "PAYOUT")' = Moved(w, "PAYOUT") /\ payout' = payout
      BY <1>7, DeskStep, MovedSum
    <2>. QED BY <1>1, <2>1 DEF PaidOut
  <1>4. ASSUME NEW x \in Payouts, Reserves(x)
        PROVE  -(Moved(w, "PAYOUT")') = SumFunction([y \in PaidOut(w)' |-> payout'[y].amount])
    <2>1. PICK v \in Sellers, n \in Nat :
             /\ payout[x] = NoPayout
             /\ payout' = [payout EXCEPT ![x] = [status |-> "PENDING", seller |-> v, amount |-> n]]
             /\ ledger' = Posted(ledger, ReserveLegs(v, x, n))
      BY <1>4 DEF Reserves
    <2>2. \A e \in ReserveLegs(v, x, n) : e.account = Available(v)
      BY DEF ReserveLegs, PayoutLeg
    <2>3. Moved(w, "PAYOUT")' = Moved(w, "PAYOUT")
      BY <2>1, <2>2, AccountsDiffer, MovedSame
    <2>4. /\ payout[x].status # "PAID" /\ payout'[x].status # "PAID"
          /\ \A y \in Payouts : y # x => payout'[y] = payout[y]
      BY <2>1 DEF Typed, TypeOK, NoPayout
    <2>. QED BY <1>1, <2>3, <2>4 DEF PaidOut
  <1>5. ASSUME NEW x \in Payouts, payout[x] \in PayoutRows, payout[x].status = "PENDING",
               ledger' = Posted(ledger, {PaidLeg(x)}), Postable(ledger, {PaidLeg(x)}),
               payout' = [payout EXCEPT ![x].status = "PAID"]
        PROVE  -(Moved(w, "PAYOUT")') = SumFunction([y \in PaidOut(w)' |-> payout'[y].amount])
    <2> DEFINE v == payout[x].seller
               n == payout[x].amount
    <2>1. v \in Sellers /\ n \in Nat
      BY <1>5 DEF PayoutRows
    <2>2. /\ PaidLeg(x).account = Total(v) /\ PaidLeg(x).category = "PAYOUT"
          /\ Signed(PaidLeg(x)) = -n
      BY DEF PaidLeg, PayoutLeg, Signed
    <2>3. /\ payout'[x].status = "PAID" /\ payout'[x].seller = v /\ payout'[x].amount = n
          /\ \A y \in Payouts : y # x => payout'[y] = payout[y]
      BY <1>5 DEF Typed, TypeOK, PayoutRows
    <2>4. x \notin PaidOut(w)
      BY <1>5 DEF PaidOut
    <2>5. \A y \in PaidOut(w) : payout'[y].amount = payout[y].amount
      BY <2>3, <2>4 DEF PaidOut
    <2>6. CASE v = w
      <3>1. PaidOut(w)' = PaidOut(w) \cup {x}
        BY <2>3, <2>6 DEF PaidOut
      <3>2. SumFunction([y \in PaidOut(w) \cup {x} |-> payout'[y].amount]) = Asked(PaidOut(w)) + n
        BY <2>1, <2>3, <2>4, <2>5, PaidOutFinite, AskedMore
      <3>3. PaidLeg(x) \in Entries
        BY <2>1, SellerAccounts, LegType DEF PaidLeg, EntryTypes
      <3>4. Moved(w, "PAYOUT")' = Moved(w, "PAYOUT") + (-n)
        BY <1>5, <2>2, <2>6, <3>3, MovedMore
      <3> HIDE DEF v, n
      <3>. QED BY <1>0, <2>1, <3>1, <3>2, <3>4
    <2>7. CASE v # w
      <3>1. PaidOut(w)' = PaidOut(w)
        BY <2>3, <2>4, <2>7 DEF PaidOut
      <3>2. PaidLeg(x).account # Total(w)
        BY <2>1, <2>2, <2>7, AccountsDiffer
      <3>3. Moved(w, "PAYOUT")' = Moved(w, "PAYOUT")
        BY <1>5, <3>2, MovedSame
      <3>. QED BY <1>1, <2>5, <3>1, <3>3
    <2>. QED BY <2>6, <2>7
  <1>6. ASSUME NEW x \in Payouts, NEW step \in {"admin_update", "own_update"},
               NEW s \in PayoutStatus, Decides(x, step, s),
               step = "own_update" => s \in OwnStatuses, payout[x] \in PayoutRows
        PROVE  -(Moved(w, "PAYOUT")') = SumFunction([y \in PaidOut(w)' |-> payout'[y].amount])
    <2>1. ASSUME ~SoldFirst(payout[x].seller), ledger' = ledger,
                 payout[x].status = "PENDING", payout' = [payout EXCEPT ![x].status = "PAID"]
          PROVE  -(Moved(w, "PAYOUT")') = SumFunction([y \in PaidOut(w)' |-> payout'[y].amount])
      <3>1. payout[x].seller # w
        BY <1>s, <2>1
      <3>2. /\ payout'[x].seller = payout[x].seller
            /\ \A y \in Payouts : y # x => payout'[y] = payout[y]
        BY <1>6, <2>1 DEF Typed, TypeOK, PayoutRows
      <3>3. PaidOut(w)' = PaidOut(w)
        BY <3>1, <3>2 DEF PaidOut
      <3>4. \A y \in PaidOut(w) : payout'[y].amount = payout[y].amount
        BY <3>1, <3>2 DEF PaidOut
      <3>5. Moved(w, "PAYOUT")' = Moved(w, "PAYOUT")
        BY <2>1, MovedSum
      <3>. QED BY <1>1, <3>3, <3>4, <3>5
    <2>. QED BY <1>2, <1>5, <1>6, <2>1, Decisions
  <1>. QED BY <1>2, <1>3, <1>4, <1>6, <1>7, Steps

-----------------------------------------------------------------------------
(* What was earned.                                                         *)

EarningsMoved ==
    /\ IsFiniteSet(Settled)
    /\ \A w \in Sellers : Moved(w, "PAYMENT") = SumFunction([p \in Settled |-> Earned(p, w)])

LEMMA EarnedInt ==
  ASSUME PP!Typed, NEW p \in Payments, NEW w
  PROVE  Earned(p, w) \in Int
  <1> DEFINE f == [o \in SoldIn(p, w) |-> Price[o]]
  <1>1. SoldIn(p, w) \subseteq Orders
    BY DEF SoldIn, PP!Typed, PP!TypeOK, PP!PaymentRows
  <1>2. IsFiniteSet(SoldIn(p, w))
    BY <1>1, SameAssumption, SameFinite, FS_Subset
  <1>3. \A o \in SoldIn(p, w) : Price[o] \in Int
    BY <1>1, SameAssumption
  <1>4. Summable(f)
    BY <1>2, <1>3 DEF Summable
  <1> HIDE DEF f
  <1>5. SumFunction(f) \in Int
    BY <1>4, SumInt
  <1>. QED BY <1>5 DEF Earned, f

\* Earnings depend on the items of a payment only.
LEMMA SameEarnings ==
  ASSUME NEW p, payment'[p].items = payment[p].items
  PROVE  \A w : Earned(p, w)' = Earned(p, w)
  BY DEF Earned, SoldIn

LEMMA EarningsSame ==
  ASSUME EarningsMoved, Settled' = Settled, NEW w \in Sellers,
         \A p \in Settled : payment'[p].items = payment[p].items,
         Moved(w, "PAYMENT")' = Moved(w, "PAYMENT")
  PROVE  Moved(w, "PAYMENT")' = SumFunction([p \in Settled' |-> Earned(p, w)'])
  <1> DEFINE f == [p \in Settled |-> Earned(p, w)]
             g == [p \in Settled' |-> Earned(p, w)']
  <1>1. DOMAIN g = DOMAIN f /\ IsFiniteSet(DOMAIN f) /\ \A p \in DOMAIN f : g[p] = f[p]
    BY SameEarnings DEF EarningsMoved
  <1> HIDE DEF f, g
  <1>2. SumFunction(g) = SumFunction(f)
    BY <1>1, SumEqual
  <1>. QED BY <1>2 DEF EarningsMoved, f, g

\* A payment that can be credited has one order at most of each seller, and what
\* it brings the seller is what is posted.
LEMMA SettledMoves ==
  ASSUME BothTyped, Books, NEW p \in Payments, ~PP!KeysCollide(p),
         Postable(ledger, PP!CreditLegs(p)), ledger' = Posted(ledger, PP!CreditLegs(p)),
         NEW w \in Sellers
  PROVE  Moved(w, "PAYMENT")' = Moved(w, "PAYMENT") + Earned(p, w)
  <1> DEFINE legs == PP!CreditLegs(p)
  <1>0. Moved(w, "PAYMENT") \in Int
    BY MovedInt DEF BothTyped
  <1>1. CASE SoldIn(p, w) = {}
    <2>1. \A e \in legs : e.account # Total(w)
      BY <1>1, SameAssumption, PP!CreditLegsMembers, PP!CreditFields DEF SoldIn, Total
    <2>2. DOMAIN [o \in SoldIn(p, w) |-> Price[o]] = {}
      BY <1>1
    <2>3. Earned(p, w) = 0
      BY <2>2, SumOfNone DEF Earned
    <2>. QED BY <1>0, <2>1, <2>3, MovedSame DEF BothTyped
  <1>2. ASSUME NEW o \in SoldIn(p, w)
        PROVE  Moved(w, "PAYMENT")' = Moved(w, "PAYMENT") + Earned(p, w)
    <2> DEFINE leg == PP!Credit(p, o, "SELLER_BALANCE")
    <2>1. o \in payment[p].items /\ Seller[o] = w /\ SoldIn(p, w) = {o}
      BY DEF SoldIn, PP!KeysCollide
    <2>2. /\ leg \in legs /\ leg.account = Total(w) /\ leg.category = "PAYMENT"
          /\ Signed(leg) = Price[o]
      BY <2>1, SameAssumption, SameLedgers, PP!CreditLegsMembers, PP!CreditFields DEF Total
    <2>3. \A e \in legs : e.account = Total(w) => e = leg
      <3> SUFFICES ASSUME NEW q \in payment[p].items,
                          NEW t \in {"SELLER_BALANCE", "SELLER_AVAILABLE"},
                          PP!Credit(p, q, t).account = Total(w)
                   PROVE  PP!Credit(p, q, t) = leg
        BY SameAssumption, PP!CreditLegsMembers
      <3>1. <<Seller[q], t>> = <<w, "SELLER_BALANCE">>
        BY SameAssumption, PP!CreditFields DEF Total
      <3>2. Seller[q] = w /\ t = "SELLER_BALANCE"
        BY <3>1
      <3>3. q = o
        BY <2>1, <3>2 DEF PP!KeysCollide
      <3>. QED BY <3>2, <3>3
    <2>4. legs \subseteq Entries
      BY SameAssumption, SameLedgers, PP!CreditLegsType DEF BothTyped, PP!Typed, PP!TypeOK
    <2> HIDE DEF leg, legs
    <2>5. Moved(w, "PAYMENT")' = Moved(w, "PAYMENT") + Price[o]
      BY <2>2, <2>3, <2>4, MovedMore DEF BothTyped, legs
    <2>6. Earned(p, w) = Price[o]
      <3> DEFINE f == [q \in {} |-> Price[q]]
                 g == [q \in {o} |-> Price[q]]
      <3>1. o \in Orders /\ Price[o] \in Int
        BY <2>1, SameAssumption DEF BothTyped, PP!Typed, PP!TypeOK, PP!PaymentRows
      <3>2. Summable(f) /\ o \notin DOMAIN f /\ DOMAIN f = {}
        BY FS_EmptySet DEF Summable
      <3>3. DOMAIN g = DOMAIN f \cup {o} /\ g[o] = Price[o]
            /\ \A q \in DOMAIN f : g[q] = f[q]
        OBVIOUS
      <3>4. Earned(p, w) = SumFunction(g)
        BY <2>1 DEF Earned
      <3> HIDE DEF f, g
      <3>5. SumFunction(f) = 0
        BY <3>2, SumOfNone
      <3>6. SumFunction(g) = SumFunction(f) + g[o]
        BY <3>1, <3>2, <3>3, SumOneMore
      <3>. QED BY <3>1, <3>3, <3>4, <3>5, <3>6
    <2>. QED BY <2>5, <2>6
  <1>. QED BY <1>1, <1>2

\* A payout posts nothing under PAYMENT.
LEMMA PayoutMovesNoPayment ==
  ASSUME Typed, NEW c \in Calls, PayoutStep(c), NEW w
  PROVE  Moved(w, "PAYMENT")' = Moved(w, "PAYMENT")
  <1>1. CASE ledger' = ledger
    BY <1>1, MovedSum
  <1>2. ASSUME NEW legs, ledger' = Posted(ledger, legs), \A e \in legs : e.category = "PAYOUT"
        PROVE  Moved(w, "PAYMENT")' = Moved(w, "PAYMENT")
    BY <1>2, MovedSame
  <1>3. ASSUME NEW x \in Payouts, InsertPayout(c, x), ledger' # ledger
        PROVE  \E legs : ledger' = Posted(ledger, legs) /\ \A e \in legs : e.category = "PAYOUT"
    BY <1>3 DEF InsertPayout, ReserveLegs, PayoutLeg
  <1>4. ASSUME DecidePayout(c), ledger' # ledger
        PROVE  \E legs : ledger' = Posted(ledger, legs) /\ \A e \in legs : e.category = "PAYOUT"
    <2> DEFINE legs == DecisionLegs(call[c].payout, call[c].at, call[c].status)
    <2>1. ledger' = Posted(ledger, legs)
      BY <1>4 DEF DecidePayout
    <2>2. \A e \in legs : e.category = "PAYOUT"
      BY DEF DecisionLegs, AdminLegs, OwnLegs, PayoutLeg
    <2>. QED BY <2>1, <2>2
  <1>5. ASSUME Start(c) \/ Fail(c)
        PROVE  ledger' = ledger
    BY <1>5 DEF Start, Fail, ReadAvailable, ReadPayout, OwnUpdate
  <1>. QED BY <1>1, <1>2, <1>3, <1>4, <1>5 DEF PayoutStep, Finish

LEMMA NextEarnings ==
  ASSUME BothTyped, Books, EarningsMoved, [SettlementNext]_allVars
  PROVE  EarningsMoved'
  <1>1. CASE /\ Settled' = Settled
             /\ \A p \in Settled : payment'[p].items = payment[p].items
             /\ \A w \in Sellers : Moved(w, "PAYMENT")' = Moved(w, "PAYMENT")
    <2>1. \A w \in Sellers :
             Moved(w, "PAYMENT")' = SumFunction([p \in Settled' |-> Earned(p, w)'])
      BY <1>1, EarningsSame
    <2>. QED BY <1>1, <2>1 DEF EarningsMoved
  <1>2. CASE ledger' = ledger /\ Settled' = Settled
             /\ \A p \in Settled : payment'[p].items = payment[p].items
    <2>1. \A w \in Sellers : Moved(w, "PAYMENT")' = Moved(w, "PAYMENT")
      BY <1>2, MovedSum
    <2>. QED BY <1>1, <1>2, <2>1
  <1>3. CASE UNCHANGED <<payment, ledger>>
    BY <1>2, <1>3 DEF Settled
  <1>4. ASSUME NEW p \in Payments, PP!Inserts(p)
        PROVE  EarningsMoved'
    BY <1>2, <1>4 DEF PP!Inserts, Settled
  <1>5. ASSUME NEW f \in Refunds, PP!PaysBack(f)
        PROVE  EarningsMoved'
    <2>1. ledger' = Posted(ledger, PP!RefundLegs(f)) /\ payment' = payment
      BY <1>5, SameLedgers DEF PP!PaysBack
    <2>2. \A w \in Sellers : Moved(w, "PAYMENT")' = Moved(w, "PAYMENT")
      BY <2>1, LegsOfRefund, MovedSame DEF BothTyped
    <2>. QED BY <1>1, <2>1, <2>2 DEF Settled
  <1>6. ASSUME NEW p \in Payments, NEW s \in PP!PaymentStatus, PP!Decides(p, s)
        PROVE  EarningsMoved'
    <2>1. /\ payment[p].status = "PENDING"
          /\ payment'[p].status = s
          /\ \A q \in Payments : payment'[q].items = payment[q].items
          /\ \A q \in Payments : q # p => payment'[q] = payment[q]
      BY <1>6 DEF PP!Decides, BothTyped, PP!Typed, PP!TypeOK, PP!PaymentRows
    <2>2. CASE s # "SUCCEEDED"
      <3>1. ledger' = ledger
        BY <1>6, <2>2 DEF PP!Decides
      <3>. QED BY <1>2, <2>1, <2>2, <3>1 DEF Settled
    <2>3. CASE s = "SUCCEEDED"
      <3>1. /\ ~PP!KeysCollide(p)
            /\ Postable(ledger, PP!CreditLegs(p))
            /\ ledger' = Posted(ledger, PP!CreditLegs(p))
        BY <1>6, <2>3, SameLedgers DEF PP!Decides
      <3>2. p \notin Settled /\ Settled' = Settled \cup {p}
        BY <2>1, <2>3 DEF Settled
      <3>3. IsFiniteSet(Settled')
        BY <3>2, FS_AddElement DEF EarningsMoved
      <3>4. ASSUME NEW w \in Sellers
            PROVE  Moved(w, "PAYMENT")' = SumFunction([q \in Settled' |-> Earned(q, w)'])
        <4> DEFINE f == [q \in Settled |-> Earned(q, w)]
                   g == [q \in Settled' |-> Earned(q, w)']
        <4>1. \A q \in Payments : Earned(q, w)' = Earned(q, w) /\ Earned(q, w) \in Int
          BY <2>1, SameEarnings, EarnedInt DEF BothTyped
        <4>2. Summable(f)
          BY <4>1 DEF Summable, EarningsMoved, Settled
        <4>3. /\ p \notin DOMAIN f /\ DOMAIN g = DOMAIN f \cup {p}
              /\ \A q \in DOMAIN f : g[q] = f[q]
              /\ g[p] = Earned(p, w) /\ g[p] \in Int
          BY <3>2, <4>1 DEF Settled
        <4>4. Moved(w, "PAYMENT")' = Moved(w, "PAYMENT") + Earned(p, w)
          BY <3>1, SettledMoves
        <4>5. Moved(w, "PAYMENT") = SumFunction(f)
          BY DEF EarningsMoved
        <4> HIDE DEF f, g
        <4>6. SumFunction(g) = SumFunction(f) + g[p]
          BY <4>2, <4>3, SumOneMore
        <4>. QED BY <4>3, <4>4, <4>5, <4>6 DEF g
      <3>. QED BY <3>3, <3>4 DEF EarningsMoved
    <2>. QED BY <2>2, <2>3
  <1>9. CASE PP!Desk
    <2>1. payment' = payment /\ ledger'.entries = ledger.entries
      BY <1>9, SameAssumption, PP!DeskEntries DEF BothTyped
    <2>2. \A w \in Sellers : Moved(w, "PAYMENT")' = Moved(w, "PAYMENT")
      BY <2>1, MovedSum
    <2>. QED BY <1>1, <2>1, <2>2 DEF Settled
  <1>7. CASE PP!Next
    BY <1>3, <1>4, <1>5, <1>6, <1>7, <1>9, SameAssumption, PP!MoneySteps DEF BothTyped
  <1>8. ASSUME NEW c \in Calls, PayoutStep(c), UNCHANGED payVars
        PROVE  EarningsMoved'
    BY <1>1, <1>8, PayoutMovesNoPayment DEF BothTyped, payVars, Settled
  <1>. QED BY <1>3, <1>7, <1>8, Kinds DEF allVars

-----------------------------------------------------------------------------
(* The money of a seller.                                                   *)

LEMMA InitMoney == SettlementInit => PaidOutMoved /\ EarningsMoved
  <1> SUFFICES ASSUME SettlementInit PROVE PaidOutMoved /\ EarningsMoved
    OBVIOUS
  <1>1. ledger.entries = {}
    BY DEF SettlementInit, Init, EmptyLedger
  <1>2. \A w, k : Moved(w, k) = 0
    <2>1. \A w, k : OfKind(ledger.entries, w, k) = {}
      BY <1>1 DEF OfKind
    <2>. QED BY <2>1, MovedSum, SignedSumNone
  <1>3. ASSUME NEW w
        PROVE  Asked(PaidOut(w)) = 0
    <2>1. DOMAIN [x \in PaidOut(w) |-> payout[x].amount] = {}
      BY DEF SettlementInit, Init, PaidOut, NoPayout
    <2>. QED BY <2>1, SumOfNone DEF Asked
  <1>4. Settled = {}
    BY DEF SettlementInit, Pay!Init, Settled
  <1>5. ASSUME NEW w
        PROVE  SumFunction([p \in Settled |-> Earned(p, w)]) = 0
    <2>1. DOMAIN [p \in Settled |-> Earned(p, w)] = {}
      BY <1>4
    <2>. QED BY <2>1, SumOfNone
  <1>. QED BY <1>2, <1>3, <1>4, <1>5, FS_EmptySet DEF PaidOutMoved, EarningsMoved

\* Balances are the sums of their entries, what left a seller's balance is what
\* the paid payouts say, and what came in is what the successful payments say:
\* for any number of handlers of both services at the same time.
THEOREM MoneyAlwaysAccounted ==
  ASSUME "PAID" \notin OwnStatuses
  PROVE  SettlementSpec => []MoneyAccounted
  <1> DEFINE Inv == BothTyped /\ Reserved /\ Paired /\ Books /\ PaidOutMoved /\ EarningsMoved
  <1>1. SettlementInit => Inv
    BY InitBothTyped, InitReserved, InitBooks, InitMoney DEF SettlementInit
  <1>2. Inv /\ [SettlementNext]_allVars => Inv'
    <2> SUFFICES ASSUME Inv, [SettlementNext]_allVars
                 PROVE  Inv'
      OBVIOUS
    <2>1. [Next]_vars
      BY SettlementStep DEF BothTyped
    <2>2. Typed
      BY DEF BothTyped
    <2>. QED BY <2>1, <2>2, NextBothTyped, NextReserved, NextPaired, NextBooks, NextPaidOut,
                NextEarnings
  <1>3. Inv => MoneyAccounted
    BY DEF Books, PaidOutMoved, EarningsMoved, Asked, MoneyAccounted
  <1>. QED BY <1>1, <1>2, <1>3, PTL DEF SettlementSpec

-----------------------------------------------------------------------------
(* What was proved of Payments, with the payouts beside them.               *)

PaymentsKept == PP!SettledIffCredited /\ PP!RefundPostedWhole /\ PP!PaidOrderWasPaid

LEMMA SameProperties ==
  /\ Pay!SettledIffCredited <=> PP!SettledIffCredited
  /\ Pay!RefundPostedWhole <=> PP!RefundPostedWhole
  /\ Pay!PaidOrderWasPaid <=> PP!PaidOrderWasPaid
  <1>1. Pay!SettledIffCredited <=> PP!SettledIffCredited
    BY DEF Pay!SettledIffCredited, PP!SettledIffCredited, Pay!EntriesOf, PP!EntriesOf,
           Pay!CreditLegs, PP!CreditLegs, Pay!Credit, PP!Credit
  <1>2. Pay!RefundPostedWhole <=> PP!RefundPostedWhole
    BY DEF Pay!RefundPostedWhole, PP!RefundPostedWhole, Pay!EntriesOf, PP!EntriesOf,
           Pay!RefundLegs, PP!RefundLegs, Pay!NoRefund, PP!NoRefund
  <1>3. Pay!PaidOrderWasPaid <=> PP!PaidOrderWasPaid
    BY DEF Pay!PaidOrderWasPaid, PP!PaidOrderWasPaid
  <1>. QED BY <1>1, <1>2, <1>3

\* The entries of a payout step are those of its payout.
LEMMA PayoutKeepsEntries ==
  ASSUME Typed, NEW c \in Calls, PayoutStep(c), NEW t, t \notin Payouts
  PROVE  PP!EntriesOf(t)' = PP!EntriesOf(t)
  <1>1. CASE ledger' = ledger
    BY <1>1 DEF PP!EntriesOf
  <1>2. ASSUME NEW x \in Payouts, NEW legs, ledger' = Posted(ledger, legs),
               \A e \in legs : e.txn = x
        PROVE  PP!EntriesOf(t)' = PP!EntriesOf(t)
    BY <1>2, PostedFields DEF PP!EntriesOf, Typed, TypeOK
  <1>3. ASSUME NEW x \in Payouts, InsertPayout(c, x), ledger' # ledger
        PROVE  PP!EntriesOf(t)' = PP!EntriesOf(t)
    <2>1. ledger' = Posted(ledger, ReserveLegs(call[c].seller, x, call[c].amount))
      BY <1>3 DEF InsertPayout
    <2>. QED BY <1>2, <2>1, LegTxns
  <1>4. ASSUME DecidePayout(c), ledger' # ledger
        PROVE  PP!EntriesOf(t)' = PP!EntriesOf(t)
    <2>1. ledger' = Posted(ledger, DecisionLegs(call[c].payout, call[c].at, call[c].status))
      BY <1>4 DEF DecidePayout
    <2>2. call[c].payout \in Payouts
      BY <1>4, HandlerFields DEF DecidePayout, Typed, TypeOK
    <2>. QED BY <1>2, <2>1, <2>2, LegTxns
  <1>5. ASSUME Start(c) \/ Fail(c)
        PROVE  ledger' = ledger
    BY <1>5 DEF Start, Fail, ReadAvailable, ReadPayout, OwnUpdate
  <1>. QED BY <1>1, <1>3, <1>4, <1>5 DEF PayoutStep, Finish

LEMMA NextPaymentsKept ==
  ASSUME BothTyped, PaymentsKept, [SettlementNext]_allVars
  PROVE  PaymentsKept'
  <1>1. CASE PP!Next
    BY <1>1, SameAssumption, PP!NextSettled, PP!NextPostedWhole, PP!NextPaid
       DEF BothTyped, PaymentsKept
  <1>2. CASE /\ UNCHANGED <<order, payment, refund>>
             /\ \A t : t \notin Payouts => PP!EntriesOf(t)' = PP!EntriesOf(t)
    <2>1. /\ \A p \in Payments : PP!EntriesOf(p)' = PP!EntriesOf(p)
          /\ \A f \in Refunds : PP!EntriesOf(f)' = PP!EntriesOf(f)
      BY <1>2, TxnsDiffer
    <2>2. /\ \A p : PP!CreditLegs(p)' = PP!CreditLegs(p)
          /\ \A f : PP!RefundLegs(f)' = PP!RefundLegs(f)
      BY <1>2 DEF PP!CreditLegs, PP!Credit, PP!RefundLegs
    <2>3. PP!SettledIffCredited'
      BY <1>2, <2>1, <2>2 DEF PaymentsKept, PP!SettledIffCredited
    <2>4. PP!RefundPostedWhole'
      BY <1>2, <2>1, <2>2 DEF PaymentsKept, PP!RefundPostedWhole
    <2>5. PP!PaidOrderWasPaid'
      BY <1>2 DEF PaymentsKept, PP!PaidOrderWasPaid
    <2>. QED BY <2>3, <2>4, <2>5 DEF PaymentsKept
  <1>3. CASE UNCHANGED allVars
    BY <1>2, <1>3 DEF allVars, PP!EntriesOf
  <1>4. CASE (\E c \in Calls : PayoutStep(c)) /\ UNCHANGED payVars
    BY <1>2, <1>4, PayoutKeepsEntries DEF BothTyped, payVars
  <1>. QED BY <1>1, <1>3, <1>4, Kinds

\* Sellers are credited for the successful payments and no others, refunds are
\* posted whole, and an order that reads SUCCEEDED was paid, also while payouts
\* are asked for and decided on the same accounts.
THEOREM PaymentsInSettlement ==
  SettlementSpec => [](Pay!SettledIffCredited /\ Pay!RefundPostedWhole /\ Pay!PaidOrderWasPaid)
  <1>1. SettlementInit => PaymentsKept
    BY SameInit, SameAssumption, PP!InitSettled, PP!InitPostedWhole
       DEF SettlementInit, PaymentsKept, PP!PaidOrderWasPaid, PP!Init
  <1>2. BothTyped /\ PaymentsKept /\ [SettlementNext]_allVars => PaymentsKept'
    BY NextPaymentsKept
  <1>3. PaymentsKept
          => Pay!SettledIffCredited /\ Pay!RefundPostedWhole /\ Pay!PaidOrderWasPaid
    BY SameProperties DEF PaymentsKept
  <1>. QED BY <1>1, <1>2, <1>3, AlwaysBothTyped, PTL DEF SettlementSpec

-----------------------------------------------------------------------------
(* Handlers that have not overlapped, in either service.                    *)

Sole ==
    /\ \A r, q \in Requests : request[r] # PP!Idle /\ request[q] # PP!Idle => r = q
    /\ \A c, d \in Calls : call[c] # Idle /\ call[d] # Idle => c = d
    /\ \A r \in Requests, c \in Calls : request[r] = PP!Idle \/ call[c] = Idle

\* A handler about to create a payout knows that the seller has the money, what
\* was taken by hand put back.
KnowsAvailable ==
    \A c \in Calls : call[c].at = "create" => call[c].amount <= PP!Spare(call[c].seller)

InTurn == ~overlapped => Sole /\ PP!Serial /\ KnowsAvailable

LEMMA SameTaken ==
  ASSUME NEW L, NEW a
  PROVE  PP!TakenByHand(L, a) = TakenByHand(L, a)
  BY DEF PP!TakenByHand, TakenByHand, PP!SignedSum, SignedSum, PP!Signed, Signed,
         PP!SumFunction, SumFunction, PP!SumFunctionOnSet, SumFunctionOnSet,
         PP!FoldFunctionOnSet, FoldFunctionOnSet, PP!MapThenFoldSet, MapThenFoldSet

LEMMA SpareMeans ==
  ASSUME NEW u
  PROVE  PP!Spare(u) = ledger.balance[<<u, "SELLER_AVAILABLE">>]
                          + TakenByHand(ledger, <<u, "SELLER_AVAILABLE">>)
  BY SameTaken DEF PP!Spare

LEMMA SameFiniteBook == FiniteBook(ledger) => PP!FiniteBook(ledger)
  BY SameFinite DEF FiniteBook, PP!FiniteBook

LEMMA SpareOfOwner ==
  ASSUME BothTyped, FiniteBook(ledger), NEW u \in Owners
  PROVE  /\ PP!Spare(u) \in Int
         /\ ledger.balance[<<u, "SELLER_AVAILABLE">>] \in Int
         /\ ledger.balance[<<u, "SELLER_AVAILABLE">>] <= PP!Spare(u)
  <1>1. /\ ledger.balance[<<u, "SELLER_AVAILABLE">>] \in Int
        /\ PP!TakenByHand(ledger, <<u, "SELLER_AVAILABLE">>) \in Nat
        /\ PP!Spare(u) \in Int
    BY SameAssumption, SameFiniteBook, PP!SpareInt DEF BothTyped
  <1>. QED BY <1>1 DEF PP!Spare

LEMMA SameIdle == Pay!Idle = PP!Idle
  BY DEF Pay!Idle, PP!Idle

LEMMA AllIdle ==
  ASSUME ~Busy
  PROVE  /\ \A r \in Requests : request[r] = PP!Idle
         /\ \A c \in Calls : call[c] = Idle
  BY SameIdle DEF Busy

LEMMA InitInTurn == SettlementInit => InTurn
  <1> SUFFICES ASSUME SettlementInit PROVE InTurn
    OBVIOUS
  <1>1. /\ \A r \in Requests : request[r] = PP!Idle
        /\ \A c \in Calls : call[c] = Idle
    BY SameIdle DEF SettlementInit, Init, Pay!Init
  <1>2. PP!Serial
    BY SameInit, SameAssumption, PP!InitSerial DEF SettlementInit
  <1>3. Sole
    BY <1>1 DEF Sole
  <1>4. KnowsAvailable
    BY <1>1 DEF KnowsAvailable, Idle
  <1>. QED BY <1>2, <1>3, <1>4 DEF InTurn

\* The handler of a payment step, the other handlers of both services idle.
LEMMA PayInTurn ==
  ASSUME PP!Typed, FiniteBook(ledger), PP!Serial, NEW r \in Requests, PP!Alone(r),
         PP!Call(r) \/ PP!Advance(r) \/ PP!Fail(r),
         UNCHANGED outVars, \A c \in Calls : call[c] = Idle
  PROVE  InTurn'
  <1>1. PP!Serial' /\ PP!Alone(r)'
    BY SameAssumption, SameFiniteBook, PP!SerialStep
  <1>2. \A c \in Calls : call'[c] = Idle
    BY DEF outVars
  <1>3. Sole'
    BY <1>1, <1>2 DEF Sole, PP!Alone, Idle, PP!Idle
  <1>4. KnowsAvailable'
    BY <1>2 DEF KnowsAvailable, Idle
  <1>. QED BY <1>1, <1>3, <1>4 DEF InTurn

\* A payout takes no more from a seller than what it knows to be there.
LEMMA PayoutFunded ==
  ASSUME BothTyped, FiniteBook(ledger), PP!Funded, KnowsAvailable, NEW c \in Calls, PayoutStep(c)
  PROVE  PP!Funded'
  <1>0. Typed /\ PP!Typed /\ ledger \in Ledgers /\ PP!FiniteBook(ledger)
    BY SameFiniteBook DEF BothTyped, Typed, TypeOK
  <1> SUFFICES ASSUME NEW u \in Owners
               PROVE  PP!Spare(u)' >= 0
    BY DEF PP!Funded
  <1> DEFINE a == <<u, "SELLER_AVAILABLE">>
             spare == PP!Spare(u)
             next == PP!Spare(u)'
  <1>1. a \in Accounts
    BY DEF Accounts, AccountTypes
  <1>2. spare \in Int /\ spare >= 0
    BY SpareOfOwner DEF PP!Funded
  <1>a. ASSUME NEW legs, legs \subseteq Entries, ledger' = Posted(ledger, legs)
        PROVE  next = spare + Delta(legs, a)
    <2>1. legs \subseteq PP!Entries /\ ledger' = PP!Posted(ledger, legs)
      BY <1>a, SameLedgers
    <2>2. next = spare + PP!Delta(legs, <<u, "SELLER_AVAILABLE">>)
      BY <1>0, <2>1, SameAssumption, PP!SparePosted
    <2>. QED BY <2>2, SameLedgers
  <1>3. CASE ledger' = ledger
    <2>1. next = spare
      BY <1>3 DEF PP!Spare
    <2>. QED BY <1>2, <2>1
  <1> HIDE DEF a, spare, next
  <1>4. ASSUME NEW legs, legs \subseteq Entries, ledger' = Posted(ledger, legs),
               Delta(legs, a) \in Nat
        PROVE  next >= 0
    <2>1. next = spare + Delta(legs, a)
      BY <1>4, <1>a
    <2>2. \A m \in Int, n \in Nat : m >= 0 => m + n >= 0
      OBVIOUS
    <2>. QED BY <1>2, <1>4, <2>1, <2>2
  <1>5. ASSUME NEW x \in Payouts, InsertPayout(c, x), ledger' # ledger
        PROVE  next >= 0
    <2> DEFINE w == call[c].seller
               n == call[c].amount
               leg == PayoutLeg(Available(w), x, "DEBIT", n)
    <2>1. w \in Sellers /\ n \in Nat /\ n <= PP!Spare(w)
      BY <1>0, <1>5, HandlerFields DEF InsertPayout, KnowsAvailable, Typed, TypeOK
    <2>2. ledger' = Posted(ledger, {leg})
      BY <1>5 DEF InsertPayout, ReserveLegs
    <2>3. leg.account = Available(w) /\ Signed(leg) = -n /\ leg \in Entries
      BY <2>1, SellerAccounts, LegType DEF PayoutLeg, Signed, EntryTypes
    <2> HIDE DEF n, leg
    <2>6. next = spare + Delta({leg}, a)
      BY <1>a, <2>2, <2>3
    <2>4. CASE Available(w) = a
      <3>1. w = u
        BY <2>4 DEF Available, a
      <3>2. n <= spare
        BY <2>1, <3>1 DEF spare
      <3>3. Delta({leg}, a) = -n
        BY <2>3, <2>4, OneLegDelta
      <3>. QED BY <1>2, <2>1, <2>6, <3>2, <3>3
    <2>5. CASE Available(w) # a
      <3>1. Delta({leg}, a) = 0
        BY <2>3, <2>5, OneLegDelta
      <3>. QED BY <1>2, <2>6, <3>1
    <2>. QED BY <2>4, <2>5
  <1>6. ASSUME DecidePayout(c), ledger' # ledger
        PROVE  next >= 0
    <2> DEFINE x == call[c].payout
               legs == DecisionLegs(x, call[c].at, call[c].status)
    <2>1. ledger' = Posted(ledger, legs)
      BY <1>6 DEF DecidePayout
    <2>2. payout[x] \in PayoutRows /\ payout[x].amount \in Nat
      BY <1>0, <1>6, HandlerFields DEF DecidePayout, Typed, TypeOK, NamesPayout, PayoutRows
    <2>3. \A v : Total(v) # a
      BY DEF Total, a
    <2>4. \A e \in legs : e.account = a => Signed(e) \in Nat
      BY <2>2, <2>3 DEF DecisionLegs, AdminLegs, OwnLegs, PayoutLeg, Signed
    <2>5. Delta(legs, a) \in Nat
      BY <2>4, DeltaAdds
    <2>6. x \in Payouts
      BY <1>0, <1>6, HandlerFields DEF DecidePayout, Typed, TypeOK
    <2>7. legs \subseteq Entries
      BY <2>2, <2>6, DecisionType
    <2>. QED BY <1>4, <2>1, <2>5, <2>7
  <1>7. ASSUME Start(c) \/ Fail(c)
        PROVE  ledger' = ledger
    BY <1>7 DEF Start, Fail, ReadAvailable, ReadPayout, OwnUpdate
  <1>. QED BY <1>3, <1>5, <1>6, <1>7 DEF PayoutStep, Finish, next

\* A payout step while no handler of Payments is in flight.
LEMMA PayoutSerial ==
  ASSUME BothTyped, FiniteBook(ledger), PP!Serial, KnowsAvailable, NEW c \in Calls, PayoutStep(c),
         UNCHANGED payVars,
         \A r \in Requests : request[r] = PP!Idle
  PROVE  PP!Serial'
  <1>1. PP!Tables
    BY DEF PP!Serial
  <1>2. \A f \in Refunds : PP!EntriesOf(f)' = PP!EntriesOf(f)
    BY TxnsDiffer, PayoutKeepsEntries DEF BothTyped
  <1>3. PP!Funded'
    BY <1>1, PayoutFunded DEF PP!Tables
  <1>4. PP!RefundedIffPosted'
    BY <1>1, <1>2 DEF PP!Tables, PP!RefundedIffPosted, payVars
  <1>5. /\ PP!ItemsApart' /\ PP!OrderMirrorsPayment' /\ PP!PaidOrderWasPaid'
        /\ PP!RefundsOfPaid' /\ PP!OneActiveRefund'
    BY <1>1 DEF PP!Tables, PP!ItemsApart, PP!OrderMirrorsPayment, PP!PaidOrderWasPaid,
           PP!RefundsOfPaid, PP!OneActiveRefund, PP!ActiveRefunds, payVars
  <1>6. \A r \in Requests : PP!Knows(request[r])'
    BY DEF PP!Knows, PP!Idle, payVars
  <1>. QED BY <1>3, <1>4, <1>5, <1>6 DEF PP!Serial, PP!Tables

LEMMA NextInTurn ==
  ASSUME BothTyped, FiniteBook(ledger), InTurn, [SettlementNext]_allVars
  PROVE  InTurn'
  <1> SUFFICES ASSUME ~overlapped' PROVE InTurn'
    BY DEF InTurn
  <1>1. CASE UNCHANGED allVars
    <2>1. Sole' <=> Sole
      BY <1>1 DEF allVars, Sole
    <2>2. KnowsAvailable' <=> KnowsAvailable
      BY <1>1 DEF allVars, KnowsAvailable, PP!Spare
    <2>3. PP!Serial' <=> PP!Serial
      BY <1>1 DEF allVars, PP!Serial, PP!Tables, PP!ItemsApart, PP!OrderMirrorsPayment,
             PP!PaidOrderWasPaid, PP!RefundedIffPosted, PP!RefundsOfPaid, PP!OneActiveRefund,
             PP!ActiveRefunds, PP!Funded, PP!Spare, PP!EntriesOf, PP!Knows, PP!AvailableOf
    <2>. QED BY <1>1, <2>1, <2>2, <2>3 DEF allVars, InTurn
  <1>2. ASSUME Begin
        PROVE  Sole /\ PP!Serial /\ KnowsAvailable /\ ~Busy
    BY <1>2 DEF Begin, InTurn
  <1>3. ASSUME overlapped' = overlapped
        PROVE  Sole /\ PP!Serial /\ KnowsAvailable
    BY <1>3 DEF InTurn
  <1>4. ASSUME Begin, NEW r \in Requests, Pay!Call(r), UNCHANGED outVars
        PROVE  InTurn'
    <2>1. PP!Call(r)
      BY <1>4, SameCall
    <2>2. PP!Alone(r) /\ \A c \in Calls : call[c] = Idle
      BY <1>2, <1>4, AllIdle DEF PP!Alone
    <2>. QED BY <1>2, <1>4, <2>1, <2>2, PayInTurn DEF BothTyped
  <1>5. ASSUME NEW r \in Requests, Pay!Advance(r) \/ Pay!Fail(r), UNCHANGED <<outVars, overlapped>>
        PROVE  InTurn'
    <2>1. PP!Advance(r) \/ PP!Fail(r)
      BY <1>5, SameAdvance, SameFail
    <2>2. request[r] # PP!Idle
      BY <2>1 DEF PP!Advance, PP!Fail, PP!FindPendingPayments, PP!InsertPayment,
             PP!ApplyPaymentStatus, PP!FindExistingRefund, PP!InsertRefund, PP!BeginApproval,
             PP!CommitApproval, PP!RejectRefund, PP!Idle
    <2>3. PP!Alone(r) /\ \A c \in Calls : call[c] = Idle
      BY <1>3, <1>5, <2>2 DEF PP!Alone, Sole
    <2>. QED BY <1>3, <1>5, <2>1, <2>3, PayInTurn DEF BothTyped
  <1>6. ASSUME Begin, NEW c \in Calls, Start(c), UNCHANGED payVars
        PROVE  InTurn'
    <2>1. /\ \A r \in Requests : request'[r] = PP!Idle
          /\ \A d \in Calls \ {c} : call'[d] = Idle
      BY <1>2, <1>6, AllIdle
         DEF Start, ReadAvailable, ReadPayout, OwnUpdate, Goto, payVars, BothTyped, Typed, TypeOK
    <2>2. Sole'
      BY <2>1 DEF Sole
    <2>3. PP!Serial'
      BY <1>2, <1>6, AllIdle, PayoutSerial DEF PayoutStep, BothTyped
    <2>4. KnowsAvailable'
      <3>1. ledger' = ledger
        BY <1>6 DEF Start, ReadAvailable, ReadPayout, OwnUpdate
      <3>2. ASSUME call'[c].at = "create"
            PROVE  call'[c].amount <= PP!Spare(call'[c].seller)
        <4>1. PICK w \in Sellers, n \in 1..MaxPayout : ReadAvailable(c, w, n)
          BY <1>6, <3>2 DEF Start, ReadPayout, OwnUpdate, Goto, BothTyped, Typed, TypeOK
        <4>2. call'[c].seller = w /\ call'[c].amount = n
          BY <4>1 DEF ReadAvailable, Goto, BothTyped, Typed, TypeOK
        <4>3. n <= ledger.balance[<<w, "SELLER_AVAILABLE">>] /\ n \in Int
          BY <4>1, PayoutsAssumption DEF ReadAvailable, CanWithdraw, Available
        <4>4. w \in Owners
          BY PayoutsAssumption
        <4>. QED BY <4>2, <4>3, <4>4, SpareOfOwner
      <3>3. \A d \in Calls : call'[d].at = "create" => call'[d].amount <= PP!Spare(call'[d].seller)
        BY <2>1, <3>2 DEF Idle
      <3>. QED BY <3>1, <3>3 DEF KnowsAvailable, PP!Spare
    <2>. QED BY <2>2, <2>3, <2>4 DEF InTurn
  <1>7. ASSUME NEW c \in Calls, Finish(c) \/ Fail(c), UNCHANGED <<payVars, overlapped>>
        PROVE  InTurn'
    <2>1. call[c] # Idle
      BY <1>7 DEF Finish, Fail, InsertPayout, DecidePayout, Idle
    <2>2. \A r \in Requests : request[r] = PP!Idle
      BY <1>3, <1>7, <2>1 DEF Sole
    <2>3. /\ \A r \in Requests : request'[r] = PP!Idle
          /\ \A d \in Calls : call'[d] = Idle
      BY <1>3, <1>7, <2>1, <2>2
         DEF Sole, Finish, Fail, InsertPayout, DecidePayout, Return, Goto, payVars, BothTyped, Typed, TypeOK
    <2>4. Sole'
      BY <2>3 DEF Sole
    <2>5. PP!Serial'
      BY <1>3, <1>7, <2>2, PayoutSerial DEF PayoutStep, BothTyped
    <2>6. KnowsAvailable'
      BY <2>3 DEF KnowsAvailable, Idle
    <2>. QED BY <2>4, <2>5, <2>6 DEF InTurn
  <1>8. ASSUME Desk, UNCHANGED <<payVars, overlapped>>
        PROVE  InTurn'
    <2>1. PP!Desk /\ UNCHANGED outVars
      BY <1>8, SameDesk DEF Desk, PP!Desk, payVars, outVars
    <2>2. PP!Serial'
      BY <1>3, <1>8, <2>1, SameAssumption, SameFiniteBook, PP!DeskSerial DEF BothTyped
    <2>3. Sole'
      BY <1>3, <1>8, <2>1 DEF Sole, payVars, outVars
    <2>4. KnowsAvailable'
      <3> SUFFICES ASSUME NEW c \in Calls, call'[c].at = "create"
                   PROVE  (call[c].amount <= PP!Spare(call[c].seller))'
        BY DEF KnowsAvailable
      <3>1. /\ call' = call /\ call[c].seller \in Sellers /\ call[c].amount \in Nat
            /\ call[c].amount <= PP!Spare(call[c].seller)
        BY <1>3, <1>8, HandlerFields DEF Desk, KnowsAvailable, BothTyped, Typed, TypeOK
      <3>2. \A w \in Owners : /\ PP!Spare(w) \in Int /\ PP!Spare(w)' \in Int
                               /\ PP!Spare(w)' >= PP!Spare(w)
        BY <2>1, SameAssumption, SameFiniteBook, PP!DeskSpare DEF BothTyped
      <3>3. PICK w \in Owners : w = call[c].seller
        BY <3>1, PayoutsAssumption
      <3>4. PP!Spare(call[c].seller)' = PP!Spare(w)'
        BY <3>1, <3>3 DEF PP!Spare
      <3>5. call[c].amount <= PP!Spare(w) /\ call[c].amount \in Int
        BY <3>1, <3>3
      <3>. QED BY <3>1, <3>2, <3>4, <3>5
    <2>. QED BY <2>2, <2>3, <2>4 DEF InTurn
  <1>. QED BY <1>1, <1>4, <1>5, <1>6, <1>7, <1>8 DEF SettlementNext

LEMMA AlwaysFinite == SettlementSpec => []FiniteBook(ledger)
  <1>1. Books => FiniteBook(ledger)
    BY DEF Books
  <1>. QED BY <1>1, SettlementIsPayouts, AlwaysBooks, PTL

LEMMA AlwaysInTurn == SettlementSpec => []InTurn
  <1>1. BothTyped /\ FiniteBook(ledger) /\ InTurn /\ [SettlementNext]_allVars => InTurn'
    BY NextInTurn
  <1>. QED BY <1>1, InitInTurn, AlwaysBothTyped, AlwaysFinite, PTL DEF SettlementSpec

LEMMA SameSerial ==
  /\ Pay!OnePaymentPerOrder <=> PP!OnePaymentPerOrder
  /\ Pay!OrderMirrorsPayment <=> PP!OrderMirrorsPayment
  /\ Pay!RefundedIffPosted <=> PP!RefundedIffPosted
  /\ Pay!RefundWithinPrice <=> PP!RefundWithinPrice
  <1>1. Pay!OnePaymentPerOrder <=> PP!OnePaymentPerOrder
    BY DEF Pay!OnePaymentPerOrder, PP!OnePaymentPerOrder
  <1>2. Pay!OrderMirrorsPayment <=> PP!OrderMirrorsPayment
    BY DEF Pay!OrderMirrorsPayment, PP!OrderMirrorsPayment
  <1>3. Pay!RefundedIffPosted <=> PP!RefundedIffPosted
    BY DEF Pay!RefundedIffPosted, PP!RefundedIffPosted, Pay!EntriesOf, PP!EntriesOf
  <1>4. Pay!RefundWithinPrice <=> PP!RefundWithinPrice
    BY DEF Pay!RefundWithinPrice, PP!RefundWithinPrice, Pay!EntriesOf, PP!EntriesOf,
           Pay!SumFunction, PP!SumFunction, Pay!SumFunctionOnSet, PP!SumFunctionOnSet,
           Pay!FoldFunctionOnSet, PP!FoldFunctionOnSet, Pay!MapThenFoldSet, PP!MapThenFoldSet
  <1>. QED BY <1>1, <1>2, <1>3, <1>4

\* What the tables say as long as handlers have not overlapped.
LEMMA InTurnMeans ==
  ASSUME BothTyped, InTurn, ~overlapped
  PROVE  /\ Pay!OnePaymentPerOrder /\ Pay!OrderMirrorsPayment
         /\ Pay!RefundedIffPosted /\ Pay!RefundWithinPrice
  <1>1. PP!Tables /\ PP!Typed
    BY DEF InTurn, PP!Serial, BothTyped
  <1>2. PP!OnePaymentPerOrder /\ PP!RefundWithinPrice
    BY <1>1, SameAssumption, PP!PaidOncePerOrder, PP!PaidBackWithinPrice
  <1>. QED BY <1>1, <1>2, SameSerial DEF PP!Tables

\* Handlers one at a time never give an order two payments that can be settled.
THEOREM OrdersPaidOnce == SettlementSpec => []OnePaymentEach
  <1>1. BothTyped /\ InTurn => OnePaymentEach
    BY InTurnMeans DEF OnePaymentEach
  <1>. QED BY <1>1, AlwaysBothTyped, AlwaysInTurn, PTL

\* Handlers one at a time keep an order saying what its payment says, and FAILED
\* once its refund is paid.
THEOREM OrdersMirrored == SettlementSpec => []MirrorsPayment
  <1>1. BothTyped /\ InTurn => MirrorsPayment
    BY InTurnMeans DEF MirrorsPayment
  <1>. QED BY <1>1, AlwaysBothTyped, AlwaysInTurn, PTL

\* Handlers one at a time post the entries of a refund exactly when it reads
\* REFUNDED.
THEOREM RefundsPosted == SettlementSpec => []RefundedAndPosted
  <1>1. BothTyped /\ InTurn => RefundedAndPosted
    BY InTurnMeans DEF RefundedAndPosted
  <1>. QED BY <1>1, AlwaysBothTyped, AlwaysInTurn, PTL

\* Handlers one at a time give a buyer back no more than an order cost, by
\* however many refunds.
THEOREM RefundsBounded == SettlementSpec => []RefundsWithinPrice
  <1>1. BothTyped /\ InTurn => RefundsWithinPrice
    BY InTurnMeans DEF RefundsWithinPrice
  <1>. QED BY <1>1, AlwaysBothTyped, AlwaysInTurn, PTL

\* Handlers one at a time, payouts and refunds, take no more from a seller than
\* what is available, whatever the desk records between a handler's check and
\* its transaction: it is overdrawn by what was taken by hand at most.
THEOREM BalancesNotOverdrawn == SettlementSpec => []NeverOverdrawn
  <1>1. BothTyped /\ FiniteBook(ledger) /\ InTurn => NeverOverdrawn
    <2> SUFFICES ASSUME BothTyped, FiniteBook(ledger), InTurn, ~overlapped, NEW w \in Sellers
                 PROVE  ledger.balance[Available(w)] >= -TakenByHand(ledger, Available(w))
      BY DEF NeverOverdrawn
    <2>1. w \in Owners /\ Available(w) \in Accounts /\ ledger \in Ledgers
      BY PayoutsAssumption, SellerAccounts DEF BothTyped, Typed, TypeOK
    <2>2. PP!Spare(w) >= 0
      BY <2>1 DEF InTurn, PP!Serial, PP!Tables, PP!Funded
    <2>3. PP!Spare(w) = ledger.balance[Available(w)] + TakenByHand(ledger, Available(w))
      BY SpareMeans DEF Available
    <2>4. ledger.balance[Available(w)] \in Int /\ TakenByHand(ledger, Available(w)) \in Int
      BY <2>1, TakenNat, MadeInt
    <2>. QED BY <2>2, <2>3, <2>4
  <1>. QED BY <1>1, AlwaysBothTyped, AlwaysFinite, AlwaysInTurn, PTL

=============================================================================
