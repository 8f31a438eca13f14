------------------------------ MODULE ShopEntity -----------------------------
(* The Shop entity of the domain and how ShopPrismaRepository stores it,     *)
(* beside the use cases, ShopsService and the admins, who write the same     *)
(* rows through Prisma.  An entity keeps the events it has recorded.         *)
EXTENDS Aggregate

ShopOwners == {"o1", "o2"}
Names == {"n1", "n2"}
Events == {"created", "updated", "deleted"}

Entities == [owner : ShopOwners, name : Names, deleted : BOOLEAN, events : SUBSET Events]

New == {[owner |-> o, name |-> n, deleted |-> FALSE, events |-> {"created"}] : o \in ShopOwners, n \in Names}

UpdateInfo(e, n) ==
    When(~e.deleted,
         [e EXCEPT !.name = n, !.events = @ \cup {v \in {"updated"} : n # e.name}])

SoftDelete(e) ==
    {IF e.deleted THEN e ELSE [e EXCEPT !.deleted = TRUE, !.events = @ \cup {"deleted"}]}

Change(e) == SoftDelete(e) \cup UNION {UpdateInfo(e, n) : n \in Names}

-----------------------------------------------------------------------------
\* save leaves deletedAt out: a deletion of the entity is lost.
Columns(e) == [owner |-> e.owner, name |-> e.name]

\* Only rows that are not deleted are loaded.
ToDomain(r) == {[owner |-> r.owner, name |-> r.name, deleted |-> FALSE, events |-> {}]}

\* CreateShopUseCase, which finds no shop of the owner, not even a deleted one.
Inserted == {[owner |-> o, name |-> n] : o \in ShopOwners, n \in Names}

\* UpdateShopUseCase.update.
Direct(r) == {[r EXCEPT !.name = n] : n \in Names}

\* ownerId is unique.
Keys(r) == {r.owner}

Queries == [find : {"byOwner"}, owner : ShopOwners] \cup [find : {"byName"}, name : Names] \cup [find : {"byIds"}]

Matches(q, r) ==
    CASE q.find = "byOwner" -> r.owner = q.owner
      [] q.find = "byName"  -> r.name = q.name
      [] q.find = "byIds"   -> TRUE

\* existsByNameAndOwner, and in the same words CheckShopNameUseCase.
Taken(r, name, owner) == r.name = name /\ r.owner = owner
=============================================================================
