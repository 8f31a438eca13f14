---------------------------- MODULE ProductEntity ----------------------------
(* The Product entity of the domain, its state classes, the use cases that   *)
(* load it, and how ProductPrismaRepository stores it, beside the service,   *)
(* which inserts and updates the same rows through Prisma.  Name, slug,       *)
(* description, category and unit are left out: nothing depends on them.      *)
EXTENDS Naturals, Aggregate

CONSTANT Prices

Status == {"DRAFT", "PENDING", "ACTIVE", "OUT_OF_STOCK", "DISCONTINUED"}

NoWholesale == 0
Certifications == {"organic"}

Entities == [status : Status, retail : Prices, wholesale : {NoWholesale, 1}, seasonal : BOOLEAN,
             certifications : SUBSET Certifications]

\* Product.create, which does not compare the prices.
Create(retail, wholesale, seasonal, certifications) ==
    [status |-> "DRAFT", retail |-> retail, wholesale |-> wholesale, seasonal |-> seasonal,
     certifications |-> certifications]

\* ProductMapper.toDomain: wholesale needs a price and a quantity, a season both its days.
New == {Create(p, w, s, cs) : p \in Prices, w \in {NoWholesale, 1}, s \in BOOLEAN,
                              cs \in SUBSET Certifications}

-----------------------------------------------------------------------------
(* The methods of the entity.                                               *)

SetPricing(e, retail, wholesale) ==
    When(wholesale < retail, [e EXCEPT !.retail = retail, !.wholesale = wholesale])

SetSeason(e, seasonal) == {[e EXCEPT !.seasonal = seasonal]}

\* ProductCertifications are a set in all but name.
Certify(cs, c) == cs \cup {c}
Decertify(cs, c) == cs \ {c}

\* The state classes: when a product may move.  DiscontinuedState refuses all.
CanPublish(e) == e.status = "DRAFT"
CanConfirm(e) == e.status = "PENDING"
CanMarkOutOfStock(e) == e.status = "ACTIVE"
CanMarkInStock(e) == e.status = "OUT_OF_STOCK"
CanUnpublish(e) == e.status \in {"PENDING", "ACTIVE"}

SetState(e, s) == {[e EXCEPT !.status = s]}

Move(e, can, s) == When(can, [e EXCEPT !.status = s])

-----------------------------------------------------------------------------
(* The use cases: what each leaves of the product it has loaded.             *)

\* Nothing of it but the origin, which is one either way, is kept here.
UpdateInfo(e) == {e}

\* What the request leaves out stays; half of the wholesale data removes all.
UpdatePrice(e) ==
    UNION {SetPricing(e, p, w) : p \in Prices, w \in {e.wholesale, NoWholesale, 1}}

UpdateStatus(e) == UNION {SetState(e, s) : s \in Status}

\* The same for each product of a list.
BulkUpdateStatus(e) == UpdateStatus(e)

UpdateSeasonalInfo(e) == UNION {SetSeason(e, s) : s \in BOOLEAN}

AddCertification(e) == {[e EXCEPT !.certifications = Certify(@, c)] : c \in Certifications}
RemoveCertification(e) == {[e EXCEPT !.certifications = Decertify(@, c)] : c \in Certifications}

Publish(e) == Move(e, CanPublish(e), "PENDING")
Unpublish(e) == Move(e, CanUnpublish(e), "DRAFT")
Approve(e) == Move(e, CanConfirm(e), "ACTIVE")
Reject(e) == Move(e, CanUnpublish(e), "DRAFT")

\* No use case calls these two.
MarkOutOfStock(e) == Move(e, CanMarkOutOfStock(e), "OUT_OF_STOCK")
MarkInStock(e) == Move(e, CanMarkInStock(e), "ACTIVE")

Change(e) ==
    UpdateInfo(e) \cup UpdatePrice(e) \cup UpdateStatus(e) \cup BulkUpdateStatus(e)
    \cup UpdateSeasonalInfo(e) \cup AddCertification(e) \cup RemoveCertification(e)
    \cup Publish(e) \cup Unpublish(e) \cup Approve(e) \cup Reject(e)
    \cup MarkOutOfStock(e) \cup MarkInStock(e)

-----------------------------------------------------------------------------
\* The columns of save; an entity has an origin.
Columns(e) ==
    [status |-> e.status, retail |-> e.retail, wholesale |-> e.wholesale, seasonal |-> e.seasonal,
     certifications |-> e.certifications, origin |-> TRUE]

\* createStateFromStatus and reconstitute.
Reconstituted(r) ==
    [status |-> r.status, retail |-> r.retail, wholesale |-> r.wholesale, seasonal |-> r.seasonal,
     certifications |-> r.certifications]

\* Mutated: a price may be 0 and an origin empty.
ToDomainAnyhow(r) == {Reconstituted(r)}

\* ProductPrice refuses 0 and ProductOrigin an empty name.
ToDomain(r) == When(r.retail > 0 /\ r.origin, Reconstituted(r))

Draft(retail) ==
    [status |-> "DRAFT", retail |-> retail, wholesale |-> NoWholesale, seasonal |-> FALSE,
     certifications |-> {}, origin |-> FALSE]

\* duplicateProduct copies the price and neither the wholesale data nor the origin.
Duplicate(r) == Draft(r.retail)

\* createProduct: the request has neither a price nor an origin.  A copy may be
\* one of any product.
Inserted == {Draft(0)} \cup {Duplicate(Columns(e)) : e \in Entities}

\* updateProduct writes name, slug, description and categories.
Direct(r) == {r}

\* findMany and the finders by seller, category, status, season, wholesale and text.
Queries ==
    [find : {"byStatus"}, status : Status]
    \cup [find : {"findMany"}, isSeasonal : BOOLEAN, hasWholesale : BOOLEAN, maxPrice : Prices]
    \cup [find : {"bySeller", "inSeason", "withWholesale"}]

Matches(q, r) ==
    CASE q.find = "byStatus"      -> r.status = q.status
      [] q.find = "findMany"      -> /\ r.seasonal = q.isSeasonal
                                     /\ (r.wholesale > 0) = q.hasWholesale
                                     /\ r.retail <= q.maxPrice
      [] q.find = "bySeller"      -> TRUE
      [] q.find = "inSeason"      -> r.seasonal
      [] q.find = "withWholesale" -> r.wholesale > 0

\* buildPublicProductWhere, which the lists and the pages of products use.
Public(r) == r.status = "ACTIVE"

\* What buyers see has a price and an origin: only the entity moves a product
\* out of the drafts, and only a whole row becomes one.
Fits(r) == Public(r) => r.retail > 0 /\ r.origin
=============================================================================
