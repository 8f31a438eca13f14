----------------------------- MODULE Categories ------------------------------
(***************************************************************************)
(* The category tree: CategoriesService and AdminService, which change it   *)
(* in the same way, the Category entity with its repository, which places a  *)
(* category by other rules, and the products that are put into categories.   *)
(*                                                                         *)
(* No route writes in a transaction with what it has read: each reads the    *)
(* parent or counts, and then writes.  The foreign keys are those of the     *)
(* migration: a category that a product is in cannot be deleted, and the     *)
(* children of one that is deleted lose their parent.                        *)
(***************************************************************************)
EXTENDS Naturals, Sequences, FiniteSets

CONSTANTS
    Ids,         \* ids of categories
    Slugs,
    Products,
    Calls,       \* requests; each is made at most once (a bound)
    EntityCalls  \* those of them that may use the entity and its repository

ASSUME IdsAssumption == IsFiniteSet(Ids)

VARIABLES
    category,  \* the rows
    mapping,   \* the rows of ProductCategoryMapping: pairs of a product and a category
    call,      \* the requests
    renamed,   \* history: categories whose path or level has changed
    torn,      \* history: categories whose parent was deleted under them
    byEntity   \* history: categories that the repository of the entity wrote

vars == <<category, mapping, call, renamed, torn, byEntity>>

NoRow == [none |-> TRUE]
Gone == [gone |-> TRUE]      \* an id is not given again

Fresh(i) == category[i] = NoRow
Stored(i) == category[i] \notin {NoRow, Gone}
Listed(i) == Stored(i) /\ ~category[i].deleted
Children(i) == {j \in Ids : Stored(j) /\ category[j].parent = {i}}
InUse(i) == \E p \in Products : <<p, i>> \in mapping

\* A parent is a set with at most one category.
ParentSets == {{}} \cup {{i} : i \in Ids}

Idle == [at |-> "idle"]
Done == [at |-> "done"]

Init ==
    /\ category = [i \in Ids |-> NoRow]
    /\ mapping = {}
    /\ call = [c \in Calls |-> Idle]
    /\ renamed = {}
    /\ torn = {}
    /\ byEntity = {}

Goto(c, step) == call' = [call EXCEPT ![c] = step]
Return(c) == Goto(c, Done)

\* A slug is unique among all rows, the deleted ones included.
SlugFree(i, slug) == \A j \in Ids \ {i} : Stored(j) => category[j].slug # slug

-----------------------------------------------------------------------------
(* The routes.                                                              *)

\* Mutated: the level of the parent is taken over.
PlaceBeside(parent, slug) ==
    IF parent = {} THEN [path |-> <<slug>>, level |-> 0]
    ELSE LET p == category[CHOOSE i \in parent : TRUE]
         IN  [path |-> Append(p.path, slug), level |-> p.level]

\* resolveCategoryPath: a category is placed by the row of its parent.
PlaceUnder(parent, slug) ==
    IF parent = {} THEN [path |-> <<slug>>, level |-> 0]
    ELSE LET p == category[CHOOSE i \in parent : TRUE]
         IN  [path |-> Append(p.path, slug), level |-> p.level + 1]

\* createCategory reads the parent, which may be a deleted one, ...
CreateCategory(c, i, parent, slug) ==
    /\ call[c] = Idle
    /\ Fresh(i)
    /\ \A p \in parent : Stored(p)
    /\ Goto(c, [at |-> "insert", id |-> i, parent |-> parent, slug |-> slug,
                place |-> PlaceUnder(parent, slug)])
    /\ UNCHANGED <<category, mapping, renamed, torn, byEntity>>

\* ... and inserts the row, if the parent is still there.
InsertCategory(c) ==
    LET r == call[c]
    IN  /\ r.at = "insert"
        /\ Fresh(r.id)
        /\ SlugFree(r.id, r.slug)
        /\ \A p \in r.parent : Stored(p)
        /\ category' = [category EXCEPT ![r.id] =
             [slug |-> r.slug, parent |-> r.parent, path |-> r.place.path,
              level |-> r.place.level, deleted |-> FALSE]]
        /\ Return(c)
        /\ UNCHANGED <<mapping, renamed, torn, byEntity>>

PlaceOf(i) == [path |-> category[i].path, level |-> category[i].level]

\* updateCategory: a request for another parent is refused.
UpdateCategory(c, i, slug) ==
    /\ call[c] = Idle
    /\ Stored(i)
    /\ Goto(c, [at |-> "update", id |-> i, slug |-> slug,
                place |-> PlaceUnder(category[i].parent, slug)])
    /\ UNCHANGED <<category, mapping, renamed, torn, byEntity>>

WriteCategory(c) ==
    LET r == call[c]
    IN  /\ r.at = "update"
        /\ Stored(r.id)
        /\ SlugFree(r.id, r.slug)
        /\ category' = [category EXCEPT ![r.id].slug = r.slug, ![r.id].path = r.place.path,
                                        ![r.id].level = r.place.level]
        /\ renamed' = renamed \cup {i \in {r.id} : PlaceOf(i) # r.place}
        /\ Return(c)
        /\ UNCHANGED <<mapping, torn, byEntity>>

\* deleteCategory counts the children, ...
DeleteCategory(c, i) ==
    /\ call[c] = Idle
    /\ Stored(i)
    /\ Children(i) = {}
    /\ Goto(c, [at |-> "count", id |-> i])
    /\ UNCHANGED <<category, mapping, renamed, torn, byEntity>>

\* ... counts the products, ...
CountProducts(c) ==
    /\ call[c].at = "count"
    /\ ~InUse(call[c].id)
    /\ Goto(c, [call[c] EXCEPT !.at = "delete"])
    /\ UNCHANGED <<category, mapping, renamed, torn, byEntity>>

\* Mutated: the children stay with the parent that is gone.
ChildrenKept(i) == category

\* The foreign key of parentId: ON DELETE SET NULL.
ChildrenFreed(i) ==
    [j \in Ids |-> IF j \in Children(i) THEN [category[j] EXCEPT !.parent = {}] ELSE category[j]]

\* ... and deletes the row, which the key of the mapping may forbid.
RemoveCategory(c) ==
    LET i == call[c].id
    IN  /\ call[c].at = "delete"
        /\ Stored(i)
        /\ ~InUse(i)
        /\ category' = [ChildrenFreed(i) EXCEPT ![i] = Gone]
        /\ torn' = torn \cup Children(i)
        /\ Return(c)
        /\ UNCHANGED <<mapping, renamed, byEntity>>

\* The routes of the admins take the same steps.  Their update has no parent to
\* refuse, and their two counts are two statements of one transaction.
AdminCreateCategory(c, i, parent, slug) == CreateCategory(c, i, parent, slug)
AdminUpdateCategory(c, i, slug) == UpdateCategory(c, i, slug)
AdminDeleteCategory(c, i) == DeleteCategory(c, i)

\* createProduct, updateProduct: assertCategories ...
AssertCategories(c, p, ids) ==
    /\ call[c] = Idle
    /\ \A i \in ids : Listed(i)
    /\ Goto(c, [at |-> "map", product |-> p, ids |-> ids])
    /\ UNCHANGED <<category, mapping, renamed, torn, byEntity>>

\* ... and then the rows, all of them or none.
MapProduct(c) ==
    LET r == call[c]
    IN  /\ r.at = "map"
        /\ \A i \in r.ids : Stored(i)
        /\ mapping' = {m \in mapping : m[1] # r.product} \cup {<<r.product, i>> : i \in r.ids}
        /\ Return(c)
        /\ UNCHANGED <<category, renamed, torn, byEntity>>

\* duplicateProduct has read the categories of the product it copies.
DuplicateProduct(c, p, q) ==
    /\ call[c] = Idle
    /\ p # q
    /\ ~\E m \in mapping : m[1] = q
    /\ Goto(c, [at |-> "map", product |-> q, ids |-> {m[2] : m \in {n \in mapping : n[1] = p}}])
    /\ UNCHANGED <<category, mapping, renamed, torn, byEntity>>

\* A request fails: a key is violated, a row is gone, the process dies.
Fail(c) ==
    /\ call[c] \notin {Idle, Done}
    /\ Return(c)
    /\ UNCHANGED <<category, mapping, renamed, torn, byEntity>>

-----------------------------------------------------------------------------
(* The entity and its repository.                                           *)

\* findById; a new entity has no row yet.
LoadEntity(c, i) ==
    /\ c \in EntityCalls
    /\ call[c] = Idle
    /\ Listed(i)
    /\ Goto(c, [at |-> "entity", id |-> i, parent |-> category[i].parent, slug |-> category[i].slug])
    /\ UNCHANGED <<category, mapping, renamed, torn, byEntity>>

\* Category.create: its parent may be any other category.
NewEntity(c, i, parent, slug) ==
    /\ c \in EntityCalls
    /\ call[c] = Idle
    /\ Fresh(i)
    /\ i \notin parent
    /\ Goto(c, [at |-> "entity", id |-> i, parent |-> parent, slug |-> slug])
    /\ UNCHANGED <<category, mapping, renamed, torn, byEntity>>

\* changeName and changeSlug, changeParent: only the category itself is refused.
ChangeEntity(c, parent, slug) ==
    /\ call[c].at = "entity"
    /\ call[c].id \notin parent
    /\ <<parent, slug>> # <<call[c].parent, call[c].slug>>
    /\ Goto(c, [call[c] EXCEPT !.parent = parent, !.slug = slug])
    /\ UNCHANGED <<category, mapping, renamed, torn, byEntity>>

\* computePath and computeLevel: the path of the repository ends with the id of
\* the parent, and a root has an empty one.
PlaceOfEntity(parent) ==
    IF \E p \in parent : Stored(p)
    THEN LET p == CHOOSE i \in parent : TRUE
         IN  [path |-> Append(category[p].path, p), level |-> category[p].level + 1]
    ELSE [path |-> <<>>, level |-> 0]

SaveEntity(c) ==
    LET r == call[c]
    IN  /\ r.at = "entity"
        /\ Fresh(r.id) \/ Stored(r.id)
        /\ SlugFree(r.id, r.slug)
        /\ \A p \in r.parent : Stored(p)
        /\ category' = [category EXCEPT ![r.id] =
             [slug |-> r.slug, parent |-> r.parent, path |-> PlaceOfEntity(r.parent).path,
              level |-> PlaceOfEntity(r.parent).level,
              deleted |-> Stored(r.id) /\ category[r.id].deleted]]
        /\ byEntity' = byEntity \cup {r.id}
        /\ Return(c)
        /\ UNCHANGED <<mapping, renamed, torn>>

SoftDelete(c, i) ==
    /\ c \in EntityCalls
    /\ call[c] = Idle
    /\ Listed(i)
    /\ category' = [category EXCEPT ![i].deleted = TRUE]
    /\ byEntity' = byEntity \cup {i}
    /\ Return(c)
    /\ UNCHANGED <<mapping, renamed, torn>>

-----------------------------------------------------------------------------
Request(c, i) ==
    \/ \E parent \in ParentSets, slug \in Slugs : CreateCategory(c, i, parent, slug)
    \/ \E slug \in Slugs : UpdateCategory(c, i, slug)
    \/ DeleteCategory(c, i)
    \/ \E parent \in ParentSets, slug \in Slugs : AdminCreateCategory(c, i, parent, slug)
    \/ \E slug \in Slugs : AdminUpdateCategory(c, i, slug)
    \/ AdminDeleteCategory(c, i)
    \/ LoadEntity(c, i)
    \/ \E parent \in ParentSets, slug \in Slugs : NewEntity(c, i, parent, slug)
    \/ SoftDelete(c, i)

ProductRequest(c, p) ==
    \/ \E ids \in SUBSET Ids : AssertCategories(c, p, ids)
    \/ \E q \in Products : DuplicateProduct(c, p, q)

Step(c) ==
    \/ InsertCategory(c)
    \/ WriteCategory(c)
    \/ CountProducts(c)
    \/ RemoveCategory(c)
    \/ MapProduct(c)
    \/ Fail(c)
    \/ \E parent \in ParentSets, slug \in Slugs : ChangeEntity(c, parent, slug)
    \/ SaveEntity(c)

Next ==
    \/ \E c \in Calls : Step(c)
    \/ \E c \in Calls, i \in Ids : Request(c, i)
    \/ \E c \in Calls, p \in Products : ProductRequest(c, p)

Spec == Init /\ [][Next]_vars

-----------------------------------------------------------------------------
\* buildTree: the roots, and below each node the nodes that name it as parent.
\* A node whose parent is not listed appears nowhere.
Roots == {i \in Ids : Listed(i) /\ category[i].parent = {}}
Below(nodes) == {i \in Ids : Listed(i) /\ \E p \in nodes : category[i].parent = {p}}

\* The nodes down to a level.
UpTo[n \in 0 .. Cardinality(Ids)] ==
    IF n = 0 THEN Roots ELSE UpTo[n - 1] \cup Below(UpTo[n - 1])

Tree == UpTo[Cardinality(Ids)]

(* Whatever the requests of the routes do to each other, every category is  *)
(* in the tree that listCategories answers: no cycle, and nothing below a   *)
(* category that is gone.  (The entity can be moved below its own child, and *)
(* its repository can hide a category that has children.)                   *)
TreeComplete == byEntity = {} => {i \in Ids : Stored(i)} \subseteq Tree

(* A category is where its parent is, one level down and with the path of   *)
(* the parent before its own slug, unless the parent has been moved to       *)
(* another path or level since, or was deleted while the category was        *)
(* created below it.                                                        *)
PlacedUnderParent ==
    \A i \in Ids :
        /\ Stored(i)
        /\ i \notin torn \cup byEntity
        /\ category[i].parent \cap (renamed \cup byEntity) = {}
        =>
            LET r == category[i]
            IN  /\ r.parent = {} => r.path = <<r.slug>> /\ r.level = 0
                /\ \A p \in r.parent :
                      /\ r.path = Append(category[p].path, r.slug)
                      /\ r.level = category[p].level + 1
=============================================================================
