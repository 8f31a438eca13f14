------------------------------ MODULE Defaults -------------------------------
(***************************************************************************)
(* One of many is the default: the bank account a payout goes to, the        *)
(* address of a buyer, the primary image of a product.  Each is a flag of a  *)
(* row, and whoever sets one clears the others first.                        *)
(*                                                                         *)
(* The two statements run at Postgres' default isolation, read committed: a  *)
(* statement looks for its rows among those that are committed when it       *)
(* starts, waits for the locks on them, and looks at each one again when it  *)
(* has it.  A request reads what it checks before its transaction.           *)
(*                                                                         *)
(* The aggregate UserFinancialProfile of the domain keeps the same rule in   *)
(* memory; no repository stores it.                                         *)
(***************************************************************************)

CONSTANTS
    Ids,     \* ids of rows
    Calls,   \* requests about the rows of one owner; each is made once (a bound)
    Kinds    \* the kinds of rows to look at

VARIABLES
    kind,    \* the kind of the rows
    item,    \* the rows of one owner
    call,    \* the requests
    raced    \* history: a default was set in a way that does not see all others

vars == <<kind, item, call, raced>>

Live == {i \in Ids : item[i] \in {"plain", "default"}}
DefaultsOf(rows) == {i \in Ids : rows[i] = "default"}
AtMostOne(rows) == \A i, j \in DefaultsOf(rows) : i = j

NoWrites == [i \in {} |-> "plain"]
Idle == [at |-> "idle", writes |-> NoWrites]
Done == [at |-> "done", writes |-> NoWrites]

\* There may be rows of earlier requests.
Init ==
    /\ kind \in Kinds
    /\ item \in [Ids -> {"none", "plain", "default"}]
    /\ AtMostOne(item)
    /\ call = [c \in Calls |-> Idle]
    /\ raced = FALSE

Goto(c, step) == call' = [call EXCEPT ![c] = step]

\* Somebody else has written row i and not committed yet.
Locked(i, c) == \E d \in Calls \ {c} : i \in DOMAIN call[d].writes

\* It is between the first and the last statement.
Open(c) == call[c].at \in {"clear", "write", "commit"}

Inserts(r) == r.op \in {"create", "payoutCreate", "save"}

\* The flag is cleared where it is set, or everywhere: the routes of accounts
\* and AddressPrismaRepository do the former.
Narrow(r) == kind = "account" \/ r.op = "repositorySet"

-----------------------------------------------------------------------------
Begin(c, op, i, def) ==
    /\ call[c] = Idle
    /\ Goto(c, [at |-> "begin", op |-> op, id |-> i, def |-> def, was |-> item[i],
                targets |-> {}, writes |-> NoWrites])
    /\ UNCHANGED <<kind, item, raced>>

NewId(i) == item[i] = "none" /\ \A d \in Calls : (call[d] \notin {Idle, Done}) => call[d].id # i

\* createAddress
CreateAddress(c, i, def) == NewId(i) /\ kind = "address" /\ Begin(c, "create", i, def)

\* addProductImage
AddImage(c, i, def) == NewId(i) /\ kind = "image" /\ Begin(c, "create", i, def)

\* createBankAccount of UsersService
CreateAccount(c, i, def) == NewId(i) /\ kind = "account" /\ Begin(c, "create", i, def)

\* createBankAccount of PayoutsService, without a transaction
PayoutsCreate(c, i, def) == NewId(i) /\ kind = "account" /\ Begin(c, "payoutCreate", i, def)

\* updateAddress
UpdateAddress(c, i, def) == i \in Live /\ kind = "address" /\ Begin(c, "update", i, def)

\* updateBankAccount
UpdateAccount(c, i, def) == i \in Live /\ kind = "account" /\ Begin(c, "update", i, def)

\* setDefaultAddress
SetDefaultAddress(c, i) == i \in Live /\ kind = "address" /\ Begin(c, "set", i, "yes")

\* setDefault of AddressPrismaRepository, which checks nothing
RepositorySet(c, i) == item[i] # "none" /\ kind = "address" /\ Begin(c, "repositorySet", i, "yes")

\* setPrimaryProductImage
SetPrimary(c, i) == i \in Live /\ kind = "image" /\ Begin(c, "set", i, "yes")

\* setDefaultBankAccount of UsersService
SetDefaultAccount(c, i) == i \in Live /\ kind = "account" /\ Begin(c, "set", i, "yes")

\* setDefaultBankAccount of PayoutsService, in the same words
PayoutsSetDefault(c, i) == SetDefaultAccount(c, i)

\* deleteAddress
DeleteAddress(c, i) == i \in Live /\ kind = "address" /\ Begin(c, "delete", i, "kept")

\* deleteProductImage, of the primary image too
DeleteImage(c, i) == i \in Live /\ kind = "image" /\ Begin(c, "delete", i, "kept")

\* Mutated: any account is deleted.
DeletableAlways(i) == i \in Live

Deletable(i) == i \in Live /\ item[i] # "default"

\* deleteBankAccount of UsersService
DeleteAccount(c, i) == kind = "account" /\ Deletable(i) /\ Begin(c, "delete", i, "kept")

\* deleteBankAccount of PayoutsService, with the same check
PayoutsDelete(c, i) == DeleteAccount(c, i)

\* The first row of an owner becomes the default; no other is cleared.
SaveNew(c, i, def) == NewId(i) /\ Begin(c, "save", i, IF Live = {} THEN "yes" ELSE def)

\* save of a new account by BankAccountPrismaRepository
SaveAccount(c, i, def) == kind = "account" /\ SaveNew(c, i, def)

\* save of a new address by AddressPrismaRepository, which has no flag in the entity
SaveAddress(c, i) == kind = "address" /\ SaveNew(c, i, "no")

-----------------------------------------------------------------------------
\* Mutated: nothing is cleared.
NoTargets(c) == {}

\* The rows that the clearing statement finds.
Targets(c) ==
    {i \in Live : /\ Narrow(call[c]) => item[i] = "default"
                  /\ call[c].op = "update" => i # call[c].id}

Clears(r) == r.def = "yes" /\ r.op # "save"

\* Another request has looked for the flags to clear and will set its own.
SetsElsewhere(c) == {d \in Calls \ {c} : Open(d) /\ call[d].def = "yes"}

\* Two set a default and one of them does not look at rows without the flag.
Races(c) ==
    /\ call[c].def = "yes"
    /\ \/ call[c].op = "save" /\ Live # {}
       \/ \E d \in SetsElsewhere(c) : Narrow(call[c]) \/ Narrow(call[d])

Start(c) ==
    /\ call[c].at = "begin"
    /\ call[c].op # "delete"
    /\ IF Clears(call[c])
       THEN Goto(c, [call[c] EXCEPT !.at = "clear", !.targets = Targets(c)])
       ELSE Goto(c, [call[c] EXCEPT !.at = "write"])
    /\ raced' = (raced \/ Races(c))
    /\ UNCHANGED <<kind, item>>

\* The rows are looked at again when their locks are there.
Clear(c) ==
    LET now == {i \in call[c].targets \cap Live : Narrow(call[c]) => item[i] = "default"}
        cleared == [i \in now |-> "plain"]
    IN  /\ call[c].at = "clear"
        /\ \A i \in call[c].targets : ~Locked(i, c)
        /\ IF call[c].op = "payoutCreate"
           THEN /\ item' = [i \in Ids |-> IF i \in now THEN "plain" ELSE item[i]]
                /\ Goto(c, [call[c] EXCEPT !.at = "write"])
           ELSE /\ Goto(c, [call[c] EXCEPT !.at = "write", !.writes = cleared])
                /\ UNCHANGED item
        /\ UNCHANGED <<kind, raced>>

\* The row is inserted or updated; what is deleted softly is updated unseen.
Write(c) ==
    LET r == call[c]
        value == CASE r.def = "yes"  -> "default"
                   [] r.def = "no"   -> "plain"
                   [] r.def = "kept" -> item[r.id]
        written == IF item[r.id] = "gone" THEN "gone" ELSE value
    IN  /\ r.at = "write"
        /\ ~Locked(r.id, c)
        /\ item[r.id] = "gone" => kind = "address"
        /\ Goto(c, [r EXCEPT !.at = "commit",
                             !.writes = [i \in DOMAIN r.writes \cup {r.id} |->
                                           IF i = r.id THEN written ELSE r.writes[i]]])
        /\ UNCHANGED <<kind, item, raced>>

Commit(c) ==
    /\ call[c].at = "commit"
    /\ item' = [i \in Ids |-> IF i \in DOMAIN call[c].writes THEN call[c].writes[i] ELSE item[i]]
    /\ Goto(c, Done)
    /\ raced' = (raced \/ (Inserts(call[c]) /\ SetsElsewhere(c) # {}))
    /\ UNCHANGED kind

\* The one statement of a deletion.
Remove(c) ==
    /\ call[c].at = "begin"
    /\ call[c].op = "delete"
    /\ ~Locked(call[c].id, c)
    /\ item' = [item EXCEPT ![call[c].id] = "gone"]
    /\ Goto(c, Done)
    /\ UNCHANGED <<kind, raced>>

\* The row is gone, two requests wait for each other, or the process dies.
Abort(c) ==
    /\ call[c] \notin {Idle, Done}
    /\ Goto(c, Done)
    /\ UNCHANGED <<kind, item, raced>>

-----------------------------------------------------------------------------
(* UserFinancialProfile.  What a method has done before it throws stays.    *)

ProfileSetDefault(i) ==
    /\ kind = "profile"
    /\ item' = [j \in Ids |-> CASE j \notin Live -> item[j]
                                [] j = i         -> "default"
                                [] OTHER         -> "plain"]
    /\ UNCHANGED <<kind, call, raced>>

\* A default replaces the one there is; the first account becomes it.
ProfileAdd(i, default) ==
    /\ kind = "profile"
    /\ LET others == [j \in Ids |-> IF default /\ item[j] = "default" THEN "plain" ELSE item[j]]
       IN  item' = IF i \in Live THEN others
                   ELSE [others EXCEPT ![i] = IF default \/ Live = {} THEN "default" ELSE "plain"]
    /\ UNCHANGED <<kind, call, raced>>

\* The default cannot be removed; if there is none, another account becomes it.
ProfileRemove(i) ==
    /\ kind = "profile"
    /\ item[i] = "plain"
    /\ LET left == [item EXCEPT ![i] = "none"]
       IN  IF Live \ {i} # {} /\ DefaultsOf(item) = {}
           THEN \E j \in Live \ {i} : item' = [left EXCEPT ![j] = "default"]
           ELSE item' = left
    /\ UNCHANGED <<kind, call, raced>>

-----------------------------------------------------------------------------
Flags == {"yes", "no"}

Request(c, i) ==
    \/ \E def \in Flags : CreateAddress(c, i, def) \/ AddImage(c, i, def)
    \/ \E def \in Flags : CreateAccount(c, i, def) \/ PayoutsCreate(c, i, def)
    \/ \E def \in Flags : SaveAccount(c, i, def)
    \/ SaveAddress(c, i)
    \/ \E def \in Flags \cup {"kept"} : UpdateAddress(c, i, def) \/ UpdateAccount(c, i, def)
    \/ SetDefaultAddress(c, i)
    \/ RepositorySet(c, i)
    \/ SetPrimary(c, i)
    \/ SetDefaultAccount(c, i) \/ PayoutsSetDefault(c, i)
    \/ DeleteAddress(c, i) \/ DeleteImage(c, i)
    \/ DeleteAccount(c, i) \/ PayoutsDelete(c, i)

Step(c) == Start(c) \/ Clear(c) \/ Write(c) \/ Commit(c) \/ Remove(c) \/ Abort(c)

Next ==
    \/ \E c \in Calls : Step(c)
    \/ \E c \in Calls, i \in Ids : Request(c, i)
    \/ \E i \in Ids : ProfileSetDefault(i) \/ ProfileRemove(i)
    \/ \E i \in Ids, default \in BOOLEAN : ProfileAdd(i, default)

Spec == Init /\ [][Next]_vars

-----------------------------------------------------------------------------
(* There is at most one default, however requests overlap, unless a row was *)
(* inserted, or a default set by the narrow filter, while a default was set: *)
(* then neither statement sees the other's flag.  Requests that set          *)
(* addresses or images clear every row, and so wait for each other.         *)
OneDefault == ~raced => AtMostOne(item)

(* A seller with a default bank account, to which payouts go, does not lose *)
(* it: what clears the flag sets another one in the same transaction.  It   *)
(* is lost to an update that takes the flag away, to createBankAccount of   *)
(* PayoutsService between its two statements, and to a deletion that was    *)
(* checked before the account became the default.                           *)
KeepsDefault ==
    kind = "account" /\ DefaultsOf(item) # {} /\ DefaultsOf(item') = {}
    => \E c \in Calls :
         /\ call'[c] # call[c]
         /\ \/ call[c].op = "update" /\ call[c].def = "no"
            \/ call[c].op = "payoutCreate" /\ call[c].at = "clear"
            \/ call[c].op = "delete" /\ call[c].was # "default"

DefaultKept == [][KeepsDefault]_vars
=============================================================================
