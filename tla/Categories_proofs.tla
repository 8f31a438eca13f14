-------------------------- MODULE Categories_proofs --------------------------
(* Proofs about Categories, for any number of requests, categories and      *)
(* slugs; then about Defaults, for any number of requests and rows.          *)
EXTENDS MCCategories, FiniteSetTheorems, WellFoundedInduction, TLAPS

Places == [path : Seq(Slugs \cup Ids), level : Nat]
Rows == [slug : Slugs, parent : ParentSets, path : Seq(Slugs \cup Ids), level : Nat, deleted : BOOLEAN]

Requests ==
    {Idle, Done}
        \cup [at : {"insert"}, id : Ids, parent : ParentSets, slug : Slugs, place : Places]
        \cup [at : {"update"}, id : Ids, slug : Slugs, place : Places]
        \cup [at : {"count", "delete"}, id : Ids]
        \cup [at : {"map"}, product : Products, ids : SUBSET Ids]
        \cup [at : {"entity"}, id : Ids, parent : ParentSets, slug : Slugs]

Typed ==
    /\ category \in [Ids -> Rows \cup {NoRow, Gone}]
    /\ call \in [Calls -> Requests]

Mapped == mapping \subseteq Products \X Ids

\* The foreign key.
ParentsStored == \A i \in Ids : Stored(i) => \A p \in category[i].parent : Stored(p)

\* No parent has been placed twice, or by the entity's rules.
Steady(parent) == parent \cap (renamed \cup byEntity) = {}

RowPlaced(i) ==
    /\ Stored(i)
    /\ i \notin torn \cup byEntity
    /\ Steady(category[i].parent)
    => PlaceOf(i) = PlaceUnder(category[i].parent, category[i].slug)

\* What createCategory has read is still so when it inserts the row, ...
InsertPlaced(c) ==
    LET r == call[c]
    IN  r.at = "insert" =>
          /\ \A p \in r.parent : category[p] # NoRow
          /\ (\A p \in r.parent : Stored(p)) /\ Steady(r.parent)
                => r.place = PlaceUnder(r.parent, r.slug)

\* ... and what updateCategory has read when it writes the row.
UpdatePlaced(c) ==
    LET r == call[c]
    IN  r.at = "update" =>
          /\ category[r.id] # NoRow
          /\ Stored(r.id) /\ r.id \notin torn \cup byEntity /\ Steady(category[r.id].parent)
                => r.place = PlaceUnder(category[r.id].parent, r.slug)

CallPlaced(c) == InsertPlaced(c) /\ UpdatePlaced(c)

\* Without the entity there is no cycle: the category inserted first among some
\* has its parent elsewhere.
Rooted ==
    byEntity = {} =>
        /\ \A i \in Ids : Stored(i) => ~category[i].deleted
        /\ \A T \in SUBSET Ids :
              T # {} /\ (\A i \in T : Stored(i)) => \E i \in T : category[i].parent \cap T = {}

AllPlaced ==
    /\ Typed
    /\ Mapped
    /\ ParentsStored
    /\ Rooted
    /\ \A i \in Ids : RowPlaced(i)
    /\ \A c \in Calls : CallPlaced(c)

-----------------------------------------------------------------------------
(* Rows and places.                                                         *)

LEMMA RowsDiffer ==
  /\ \A r \in Rows : r # NoRow /\ r # Gone
  /\ NoRow # Gone
  <1>1. DOMAIN NoRow = {"none"} /\ DOMAIN Gone = {"gone"}
    BY DEF NoRow, Gone
  <1>2. \A r \in Rows : DOMAIN r = {"slug", "parent", "path", "level", "deleted"}
    BY DEF Rows
  <1>. QED BY <1>1, <1>2

LEMMA RowFields ==
  ASSUME Typed, NEW i \in Ids
  PROVE  /\ Stored(i) <=> category[i] \in Rows
         /\ Stored(i) => category[i].parent \in ParentSets /\ PlaceOf(i) \in Places
  BY RowsDiffer DEF Typed, Stored, Rows, Places, PlaceOf

LEMMA ParentFact ==
  ASSUME NEW parent \in ParentSets, NEW p \in parent
  PROVE  p \in Ids /\ parent = {p}
  BY DEF ParentSets

\* Where a category is placed depends on the path and the level of its parent.
LEMMA PlaceFact ==
  ASSUME Typed, NEW parent \in ParentSets, \A p \in parent : Stored(p), NEW slug \in Slugs
  PROVE  /\ PlaceUnder(parent, slug) \in Places
         /\ parent = {} => PlaceUnder(parent, slug) = [path |-> <<slug>>, level |-> 0]
         /\ \A p \in parent : PlaceUnder(parent, slug) =
              [path |-> Append(category[p].path, slug), level |-> category[p].level + 1]
  <1>1. CASE parent = {}
    BY <1>1 DEF PlaceUnder, Places
  <1>2. ASSUME NEW p \in parent
        PROVE  /\ PlaceUnder(parent, slug) =
                    [path |-> Append(category[p].path, slug), level |-> category[p].level + 1]
               /\ PlaceUnder(parent, slug) \in Places
    <2>1. parent = {p} /\ p \in Ids
      BY <1>2, ParentFact
    <2>2. (CHOOSE i \in parent : TRUE) = p
      BY <2>1
    <2>3. PlaceUnder(parent, slug) =
            [path |-> Append(category[p].path, slug), level |-> category[p].level + 1]
      BY <2>1, <2>2 DEF PlaceUnder
    <2>4. category[p].path \in Seq(Slugs \cup Ids) /\ category[p].level \in Nat
      BY <2>1, RowFields DEF Rows
    <2>5. Append(category[p].path, slug) \in Seq(Slugs \cup Ids)
      BY <2>4
    <2>. QED BY <2>3, <2>4, <2>5 DEF Places
  <1>. QED BY <1>1, <1>2

-----------------------------------------------------------------------------
(* How rows change: their ids are not given again, their parents change when *)
(* these are deleted, and who is placed anew is renamed.                     *)
Evolves ==
    /\ torn \subseteq torn' /\ renamed \subseteq renamed' /\ byEntity \subseteq byEntity'
    /\ \A i \in Ids :
         /\ category[i] # NoRow => category'[i] # NoRow
         /\ Stored(i)' => Stored(i) \/ category[i] = NoRow
         /\ Stored(i) /\ Stored(i)' /\ i \notin (torn \cup byEntity)' =>
               category'[i].parent = category[i].parent
         /\ Stored(i) /\ Stored(i)' /\ i \notin (renamed \cup byEntity)' =>
               PlaceOf(i)' = PlaceOf(i)

LEMMA SamePlace ==
  ASSUME Typed, Typed', Evolves, NEW parent \in ParentSets, NEW slug \in Slugs,
         \A p \in parent : Stored(p) /\ Stored(p)', Steady(parent)'
  PROVE  PlaceUnder(parent, slug)' = PlaceUnder(parent, slug)
  <1>1. CASE parent = {}
    BY <1>1 DEF PlaceUnder
  <1>2. ASSUME NEW p \in parent
        PROVE  PlaceUnder(parent, slug)' = PlaceUnder(parent, slug)
    <2>1. parent = {p} /\ p \in Ids
      BY <1>2, ParentFact
    <2>2. PlaceOf(p)' = PlaceOf(p)
      BY <2>1 DEF Evolves, Steady
    <2>3. category'[p].path = category[p].path /\ category'[p].level = category[p].level
      BY <2>2 DEF PlaceOf
    <2>4. (CHOOSE i \in parent : TRUE) = p
      BY <2>1
    <2>. QED BY <2>1, <2>3, <2>4 DEF PlaceUnder
  <1>. QED BY <1>1, <1>2

LEMMA SteadyBefore ==
  ASSUME Evolves, NEW parent, Steady(parent)'
  PROVE  Steady(parent)
  BY DEF Evolves, Steady

\* What a request has read stays so while others take their steps.
LEMMA OthersPlaced ==
  ASSUME Typed, Typed', ParentsStored, ParentsStored', Evolves,
         NEW c \in Calls, CallPlaced(c), call'[c] = call[c]
  PROVE  CallPlaced(c)'
  <1> DEFINE r == call[c]
  <1>1. ASSUME r.at = "insert" PROVE InsertPlaced(c)'
    <2>1. r.parent \in ParentSets /\ r.slug \in Slugs
      BY <1>1 DEF Typed, Requests, Idle, Done
    <2>2. \A p \in r.parent : p \in Ids
      BY <2>1, ParentFact
    <2>3. \A p \in r.parent : category'[p] # NoRow
      BY <1>1, <2>2 DEF CallPlaced, InsertPlaced, Evolves
    <2>4. ASSUME \A p \in r.parent : Stored(p)', Steady(r.parent)'
          PROVE  r.place = PlaceUnder(r.parent, r.slug)'
      <3>1. \A p \in r.parent : Stored(p)
        BY <1>1, <2>2, <2>4 DEF CallPlaced, InsertPlaced, Evolves
      <3>2. r.place = PlaceUnder(r.parent, r.slug)
        BY <1>1, <2>4, <3>1, SteadyBefore DEF CallPlaced, InsertPlaced
      <3>. QED BY <2>1, <2>4, <3>1, <3>2, SamePlace
    <2>. QED BY <2>3, <2>4 DEF InsertPlaced
  <1>2. ASSUME r.at = "update" PROVE UpdatePlaced(c)'
    <2>1. r.id \in Ids /\ r.slug \in Slugs
      BY <1>2 DEF Typed, Requests, Idle, Done
    <2>2. category'[r.id] # NoRow
      BY <1>2, <2>1 DEF CallPlaced, UpdatePlaced, Evolves
    <2>3. ASSUME Stored(r.id)', r.id \notin (torn \cup byEntity)', Steady(category[r.id].parent)'
          PROVE  r.place = PlaceUnder(category[r.id].parent, r.slug)'
      <3>1. Stored(r.id)
        BY <1>2, <2>1, <2>3 DEF CallPlaced, UpdatePlaced, Evolves
      <3>2. PICK parent \in ParentSets : parent = category[r.id].parent
        BY <2>1, <3>1, RowFields
      <3>3. category'[r.id].parent = parent
        BY <2>1, <2>3, <3>1, <3>2 DEF Evolves
      <3>4. /\ \A p \in parent : Stored(p) /\ Stored(p)'
            /\ Steady(parent)'
        BY <2>1, <2>3, <3>1, <3>2, <3>3 DEF ParentsStored, Steady
      <3>5. r.id \notin torn \cup byEntity /\ Steady(category[r.id].parent)
        BY <2>3, <3>2, <3>3 DEF Evolves, Steady
      <3>6. r.place = PlaceUnder(parent, r.slug)
        BY <1>2, <3>1, <3>2, <3>5 DEF CallPlaced, UpdatePlaced
      <3>7. PICK slug \in Slugs : slug = r.slug
        BY <2>1
      <3>8. PlaceUnder(parent, slug)' = PlaceUnder(parent, slug)
        BY <3>4, SamePlace
      <3>. QED BY <3>3, <3>6, <3>7, <3>8
    <2>. QED BY <2>2, <2>3 DEF UpdatePlaced
  <1>. QED BY <1>1, <1>2 DEF CallPlaced, InsertPlaced, UpdatePlaced

LEMMA RowStays ==
  ASSUME Typed, Typed', ParentsStored, ParentsStored', Evolves, NEW i \in Ids, RowPlaced(i),
         Stored(i)' => /\ Stored(i)
                       /\ category'[i].slug = category[i].slug
                       /\ PlaceOf(i)' = PlaceOf(i)
  PROVE  RowPlaced(i)'
  <1>1. SUFFICES ASSUME Stored(i)', i \notin (torn \cup byEntity)', Steady(category[i].parent)'
                 PROVE  PlaceOf(i)' = PlaceUnder(category[i].parent, category[i].slug)'
    BY DEF RowPlaced
  <1>2. PICK parent \in ParentSets, slug \in Slugs : parent = category[i].parent /\ slug = category[i].slug
    BY <1>1, RowFields DEF Rows
  <1>3. category'[i].parent = parent /\ category'[i].slug = slug
    BY <1>1, <1>2 DEF Evolves
  <1>4. /\ \A p \in parent : Stored(p) /\ Stored(p)'
        /\ Steady(parent)'
    BY <1>1, <1>2, <1>3 DEF ParentsStored, Steady
  <1>5. PlaceOf(i) = PlaceUnder(parent, slug)
    <2>1. i \notin torn \cup byEntity /\ Steady(category[i].parent)
      BY <1>1, <1>2, <1>3 DEF Evolves, Steady
    <2>. QED BY <1>1, <1>2, <2>1 DEF RowPlaced
  <1>6. PlaceUnder(parent, slug)' = PlaceUnder(parent, slug)
    BY <1>4, SamePlace
  <1>. QED BY <1>1, <1>3, <1>5, <1>6

\* Categories that stay where they are or move to the top.
LEMMA StaysRooted ==
  ASSUME Rooted, byEntity \subseteq byEntity',
         \A i \in Ids : Stored(i)' => /\ Stored(i)
                                      /\ category'[i].parent \subseteq category[i].parent
                                      /\ category'[i].deleted = category[i].deleted
  PROVE  Rooted'
  <1>1. SUFFICES ASSUME byEntity' = {}
                 PROVE  /\ \A i \in Ids : Stored(i)' => ~category'[i].deleted
                        /\ \A T \in SUBSET Ids : T # {} /\ (\A i \in T : Stored(i)')
                               => \E i \in T : category'[i].parent \cap T = {}
    BY DEF Rooted
  <1>2. byEntity = {}
    BY <1>1
  <1>3. ASSUME NEW T \in SUBSET Ids, T # {}, \A i \in T : Stored(i)'
        PROVE  \E i \in T : category'[i].parent \cap T = {}
    <2>1. PICK i \in T : category[i].parent \cap T = {}
      BY <1>2, <1>3 DEF Rooted
    <2>. QED BY <1>3, <2>1
  <1>. QED BY <1>2, <1>3 DEF Rooted

-----------------------------------------------------------------------------
(* Every step preserves the invariant.                                      *)

\* A step of one request that writes no category.
LEMMA QuietStep ==
  ASSUME AllPlaced, NEW c \in Calls, NEW x \in Requests, call' = [call EXCEPT ![c] = x],
         UNCHANGED <<category, renamed, torn, byEntity>>, UNCHANGED mapping \/ Mapped', CallPlaced(c)'
  PROVE  AllPlaced'
  <1>1. Typed' /\ ParentsStored'
    BY DEF AllPlaced, Typed, ParentsStored, Stored
  <1>2. Evolves
    BY DEF Evolves, Stored, PlaceOf
  <1>3. \A i \in Ids : RowPlaced(i)'
    BY DEF AllPlaced, RowPlaced, Stored, Steady, PlaceOf, PlaceUnder
  <1>4. \A d \in Calls \ {c} : call'[d] = call[d]
    BY DEF AllPlaced, Typed
  <1>5. \A d \in Calls : CallPlaced(d)'
    BY <1>1, <1>2, <1>4, OthersPlaced DEF AllPlaced
  <1>6. Mapped' /\ Rooted'
    BY DEF AllPlaced, Mapped, Rooted, Stored
  <1>. QED BY <1>1, <1>3, <1>5, <1>6 DEF AllPlaced

\* A request that is no insertion and no update now.
LEMMA ReadsOn ==
  ASSUME AllPlaced, NEW c \in Calls, NEW x \in Requests, call' = [call EXCEPT ![c] = x],
         UNCHANGED <<category, renamed, torn, byEntity>>, UNCHANGED mapping \/ Mapped',
         x.at \notin {"insert", "update"}
  PROVE  AllPlaced'
  <1>1. call'[c] = x
    BY DEF AllPlaced, Typed
  <1>2. CallPlaced(c)'
    BY <1>1 DEF CallPlaced, InsertPlaced, UpdatePlaced
  <1>. QED BY <1>2, QuietStep

\* A step that writes category i and ends the request.
LEMMA WritingStep ==
  ASSUME AllPlaced, NEW c \in Calls, call' = [call EXCEPT ![c] = Done], UNCHANGED mapping,
         Typed', ParentsStored', Rooted', Evolves, \A i \in Ids : RowPlaced(i)'
  PROVE  AllPlaced'
  <1>1. call'[c] = Done /\ \A d \in Calls \ {c} : call'[d] = call[d]
    BY DEF AllPlaced, Typed
  <1>2. CallPlaced(c)'
    BY <1>1 DEF CallPlaced, InsertPlaced, UpdatePlaced, Done
  <1>3. \A d \in Calls : CallPlaced(d)'
    BY <1>1, <1>2, OthersPlaced DEF AllPlaced
  <1>4. Mapped'
    BY DEF AllPlaced, Mapped
  <1>. QED BY <1>3, <1>4 DEF AllPlaced

LEMMA CreatePlaced ==
  ASSUME AllPlaced, NEW c \in Calls, NEW i \in Ids, NEW parent \in ParentSets, NEW slug \in Slugs,
         CreateCategory(c, i, parent, slug)
  PROVE  AllPlaced'
  <1> DEFINE x == [at |-> "insert", id |-> i, parent |-> parent, slug |-> slug,
                   place |-> PlaceUnder(parent, slug)]
  <1>1. /\ call' = [call EXCEPT ![c] = x] /\ \A p \in parent : Stored(p)
        /\ UNCHANGED <<category, renamed, torn, byEntity, mapping>>
    BY DEF CreateCategory, Goto
  <1>2. x \in Requests
    BY <1>1, PlaceFact DEF AllPlaced, Requests
  <1>3. call'[c] = x
    BY <1>1 DEF AllPlaced, Typed
  <1>4. CallPlaced(c)'
    <2>1. PlaceUnder(parent, slug)' = PlaceUnder(parent, slug)
      BY <1>1 DEF PlaceUnder
    <2>. QED BY <1>1, <1>3, <2>1 DEF CallPlaced, InsertPlaced, UpdatePlaced, Stored
  <1>. QED BY <1>1, <1>2, <1>4, QuietStep

LEMMA UpdatePlacedStep ==
  ASSUME AllPlaced, NEW c \in Calls, NEW i \in Ids, NEW slug \in Slugs, UpdateCategory(c, i, slug)
  PROVE  AllPlaced'
  <1>1. PICK parent \in ParentSets : parent = category[i].parent
    BY RowFields DEF AllPlaced, UpdateCategory
  <1> DEFINE x == [at |-> "update", id |-> i, slug |-> slug, place |-> PlaceUnder(parent, slug)]
  <1>2. /\ call' = [call EXCEPT ![c] = x] /\ Stored(i) /\ \A p \in parent : Stored(p)
        /\ UNCHANGED <<category, renamed, torn, byEntity, mapping>>
    BY <1>1 DEF AllPlaced, ParentsStored, UpdateCategory, Goto
  <1>3. x \in Requests
    BY <1>2, PlaceFact DEF AllPlaced, Requests
  <1>4. call'[c] = x
    BY <1>2 DEF AllPlaced, Typed
  <1>5. CallPlaced(c)'
    <2>1. PlaceUnder(parent, slug)' = PlaceUnder(parent, slug)
      BY <1>2 DEF PlaceUnder
    <2>. QED BY <1>1, <1>2, <1>4, <2>1 DEF CallPlaced, InsertPlaced, UpdatePlaced, Stored
  <1>. QED BY <1>2, <1>3, <1>5, QuietStep

LEMMA InsertPlacedStep ==
  ASSUME AllPlaced, NEW c \in Calls, InsertCategory(c)
  PROVE  AllPlaced'
  <1>1. PICK i \in Ids, parent \in ParentSets, slug \in Slugs, place \in Places :
            call[c] = [at |-> "insert", id |-> i, parent |-> parent, slug |-> slug, place |-> place]
    BY DEF AllPlaced, InsertCategory, Typed, Requests, Idle, Done
  <1> DEFINE row == [slug |-> slug, parent |-> parent, path |-> place.path,
                     level |-> place.level, deleted |-> FALSE]
  <1>2. /\ category[i] = NoRow /\ \A p \in parent : Stored(p)
        /\ category' = [category EXCEPT ![i] = row]
        /\ call' = [call EXCEPT ![c] = Done]
        /\ UNCHANGED <<renamed, torn, byEntity, mapping>>
    BY <1>1 DEF InsertCategory, Fresh, Return, Goto
  <1>3. row \in Rows
    BY DEF Rows, Places
  <1>4. Typed'
    BY <1>2, <1>3 DEF AllPlaced, Typed, Requests
  <1>5. /\ category'[i] = row /\ Stored(i)' /\ ~Stored(i)
        /\ \A j \in Ids \ {i} : category'[j] = category[j] /\ (Stored(j)' <=> Stored(j))
    BY <1>2, <1>3, RowsDiffer DEF AllPlaced, Typed, Stored
  <1>6. Evolves
    BY <1>2, <1>5 DEF Evolves, PlaceOf, Stored
  <1>7. \A p \in parent : p \in Ids \ {i} /\ Stored(p)'
    BY <1>2, <1>5, ParentFact
  <1>8. ParentsStored'
    <2>1. ASSUME NEW j \in Ids, Stored(j)', NEW p \in category'[j].parent PROVE Stored(p)'
      <3>1. CASE j = i
        BY <1>5, <1>7, <2>1, <3>1
      <3>2. CASE j # i
        <4>1. Stored(j) /\ p \in category[j].parent
          BY <1>5, <2>1, <3>2
        <4>2. Stored(p) /\ p \in Ids
          BY <4>1, RowFields, ParentFact DEF AllPlaced, ParentsStored
        <4>. QED BY <1>5, <4>2
      <3>. QED BY <3>1, <3>2
    <2>. QED BY <2>1 DEF ParentsStored
  <1>9. RowPlaced(i)'
    <2>1. SUFFICES ASSUME Steady(parent)' PROVE PlaceOf(i)' = PlaceUnder(parent, slug)'
      BY <1>5 DEF RowPlaced
    <2>2. Steady(parent)
      BY <1>6, <2>1, SteadyBefore
    <2>3. place = PlaceUnder(parent, slug)
      BY <1>1, <1>2, <2>2 DEF AllPlaced, CallPlaced, InsertPlaced
    <2>4. PlaceUnder(parent, slug)' = PlaceUnder(parent, slug)
      BY <1>2, <1>4, <1>6, <1>7, <2>1, SamePlace DEF AllPlaced
    <2>5. PlaceOf(i)' = place
      BY <1>5 DEF PlaceOf, Places
    <2>. QED BY <2>3, <2>4, <2>5
  <1>10. ASSUME NEW j \in Ids, j # i PROVE RowPlaced(j)'
    BY <1>4, <1>5, <1>6, <1>8, <1>10, RowStays DEF AllPlaced, PlaceOf
  <1>11. Rooted'
    <2>1. SUFFICES ASSUME byEntity = {}
                   PROVE  /\ \A j \in Ids : Stored(j)' => ~category'[j].deleted
                          /\ \A T \in SUBSET Ids : T # {} /\ (\A j \in T : Stored(j)')
                                 => \E j \in T : category'[j].parent \cap T = {}
      BY <1>2 DEF Rooted
    <2>2. \A j \in Ids : Stored(j)' => ~category'[j].deleted
      BY <1>5, <2>1 DEF AllPlaced, Rooted
    <2>3. ASSUME NEW T \in SUBSET Ids, T # {}, \A j \in T : Stored(j)'
          PROVE  \E j \in T : category'[j].parent \cap T = {}
      <3>1. CASE T \ {i} = {}
        BY <1>5, <1>7, <2>3, <3>1
      <3>2. CASE T \ {i} # {}
        <4>1. \A j \in T \ {i} : Stored(j)
          BY <1>5, <2>3
        <4>2. PICK j \in T \ {i} : category[j].parent \cap (T \ {i}) = {}
          BY <2>1, <3>2, <4>1 DEF AllPlaced, Rooted
        <4>3. i \notin category[j].parent
          BY <1>5, <4>1 DEF AllPlaced, ParentsStored
        <4>. QED BY <1>5, <4>2, <4>3
      <3>. QED BY <3>1, <3>2
    <2>. QED BY <2>2, <2>3
  <1>. QED BY <1>2, <1>4, <1>6, <1>8, <1>9, <1>10, <1>11, WritingStep

LEMMA WritePlaced ==
  ASSUME AllPlaced, NEW c \in Calls, WriteCategory(c)
  PROVE  AllPlaced'
  <1>1. PICK i \in Ids, slug \in Slugs, place \in Places :
            call[c] = [at |-> "update", id |-> i, slug |-> slug, place |-> place]
    BY DEF AllPlaced, WriteCategory, Typed, Requests, Idle, Done
  <1>2. /\ Stored(i)
        /\ category' = [category EXCEPT ![i].slug = slug, ![i].path = place.path, ![i].level = place.level]
        /\ renamed' = renamed \cup {j \in {i} : PlaceOf(j) # place}
        /\ call' = [call EXCEPT ![c] = Done]
        /\ UNCHANGED <<torn, byEntity, mapping>>
    BY <1>1 DEF WriteCategory, Return, Goto
  <1>3. PICK row \in Rows : row = category[i]
    BY <1>2, RowFields DEF AllPlaced
  <1> DEFINE new == [row EXCEPT !.slug = slug, !.path = place.path, !.level = place.level]
  <1>4. /\ new \in Rows
        /\ new.slug = slug /\ new.path = place.path /\ new.level = place.level
        /\ new.parent = row.parent /\ new.deleted = row.deleted
    BY DEF Rows, Places
  <1>5. /\ category'[i] = new
        /\ \A j \in Ids \ {i} : category'[j] = category[j]
        /\ category' = [j \in Ids |-> category'[j]]
    BY <1>2, <1>3 DEF AllPlaced, Typed
  <1> HIDE DEF new
  <1>6. Typed'
    <2>1. \A j \in Ids : category'[j] \in Rows \cup {NoRow, Gone}
      BY <1>4, <1>5 DEF AllPlaced, Typed
    <2>2. category' \in [Ids -> Rows \cup {NoRow, Gone}]
      BY <1>5, <2>1
    <2>. QED BY <1>2, <2>2 DEF AllPlaced, Typed, Requests
  <1>7. /\ Stored(i)' /\ PlaceOf(i)' = place
        /\ \A j \in Ids : Stored(j)' <=> Stored(j)
    <2>1. Stored(i)'
      BY <1>4, <1>5, RowsDiffer DEF Stored
    <2>2. PlaceOf(i)' = place
      BY <1>4, <1>5 DEF PlaceOf, Places
    <2>. QED BY <1>2, <1>5, <2>1, <2>2 DEF Stored
  <1>8. Evolves
    <2>1. \A j \in Ids \ {i} : PlaceOf(j)' = PlaceOf(j)
      BY <1>5 DEF PlaceOf
    <2>2. PlaceOf(i) # place => i \in renamed'
      BY <1>2
    <2>3. category'[i].parent = category[i].parent
      BY <1>3, <1>4, <1>5
    <2>4. \A j \in Ids : category[j] # NoRow => category'[j] # NoRow
      BY <1>5, <1>7 DEF Stored
    <2>. QED BY <1>2, <1>5, <1>7, <2>1, <2>2, <2>3, <2>4 DEF Evolves
  <1>9. ParentsStored'
    <2>1. \A j \in Ids : Stored(j) => category'[j].parent = category[j].parent
      BY <1>3, <1>4, <1>5
    <2>2. \A j \in Ids : Stored(j) => \A p \in category[j].parent : p \in Ids
      BY RowFields, ParentFact DEF AllPlaced
    <2>. QED BY <1>7, <2>1, <2>2 DEF AllPlaced, ParentsStored
  <1>10. RowPlaced(i)'
    <2>1. SUFFICES ASSUME i \notin (torn \cup byEntity)', Steady(row.parent)'
                   PROVE  place = PlaceUnder(row.parent, slug)'
      BY <1>4, <1>5, <1>7 DEF RowPlaced
    <2>2. PICK parent \in ParentSets : parent = row.parent
      BY DEF Rows
    <2>3. Steady(parent)' /\ Steady(parent)
      BY <1>8, <2>1, <2>2, SteadyBefore
    <2>4. place = PlaceUnder(parent, slug)
      BY <1>1, <1>2, <1>3, <2>1, <2>2, <2>3 DEF AllPlaced, CallPlaced, UpdatePlaced
    <2>5. \A p \in parent : Stored(p) /\ Stored(p)'
      BY <1>2, <1>3, <1>7, <2>2, ParentFact DEF AllPlaced, ParentsStored
    <2>6. PlaceUnder(parent, slug)' = PlaceUnder(parent, slug)
      BY <1>6, <1>8, <2>3, <2>5, SamePlace DEF AllPlaced
    <2>. QED BY <2>2, <2>4, <2>6
  <1>11. ASSUME NEW j \in Ids, j # i PROVE RowPlaced(j)'
    BY <1>5, <1>6, <1>7, <1>8, <1>9, <1>11, RowStays DEF AllPlaced, PlaceOf
  <1>12. Rooted'
    BY <1>2, <1>3, <1>4, <1>5, <1>7, StaysRooted DEF AllPlaced
  <1>. QED BY <1>2, <1>6, <1>8, <1>9, <1>10, <1>11, <1>12, WritingStep

LEMMA RemovePlaced ==
  ASSUME AllPlaced, NEW c \in Calls, RemoveCategory(c)
  PROVE  AllPlaced'
  <1>1. PICK i \in Ids : call[c].id = i
    BY DEF AllPlaced, RemoveCategory, Typed, Requests, Idle, Done
  <1>2. /\ Stored(i)
        /\ category' = [ChildrenFreed(i) EXCEPT ![i] = Gone]
        /\ torn' = torn \cup Children(i)
        /\ call' = [call EXCEPT ![c] = Done]
        /\ UNCHANGED <<renamed, byEntity, mapping>>
    BY <1>1 DEF RemoveCategory, Return, Goto
  <1>3. /\ category'[i] = Gone /\ ~Stored(i)'
        /\ \A j \in Ids \ {i} : j \notin Children(i) => category'[j] = category[j]
        /\ \A j \in Ids \ {i} : j \in Children(i) => category'[j] = [category[j] EXCEPT !.parent = {}]
    BY <1>2 DEF ChildrenFreed, Stored
  <1>4. ASSUME NEW j \in Ids \ {i}, j \in Children(i)
        PROVE  /\ category'[j] \in Rows /\ category'[j].parent = {}
               /\ category'[j].slug = category[j].slug /\ PlaceOf(j)' = PlaceOf(j)
               /\ category'[j].deleted = category[j].deleted
               /\ Stored(j) /\ Stored(j)'
    <2>1. Stored(j) /\ category[j] \in Rows
      BY <1>4, RowFields DEF AllPlaced, Children
    <2>2. PICK row \in Rows : row = category[j]
      BY <2>1
    <2>3. category'[j] = [slug |-> row.slug, parent |-> {}, path |-> row.path, level |-> row.level,
                          deleted |-> row.deleted]
      BY <1>3, <1>4, <2>2 DEF Rows
    <2>4. category'[j] \in Rows
      BY <2>3 DEF Rows, ParentSets
    <2>. QED BY <2>1, <2>2, <2>3, <2>4, RowsDiffer DEF Stored, PlaceOf
  <1>5. Typed'
    <2>1. DOMAIN category' = Ids /\ category' = [j \in Ids |-> category'[j]]
      BY <1>2 DEF ChildrenFreed
    <2>2. \A j \in Ids : category'[j] \in Rows \cup {NoRow, Gone}
      BY <1>3, <1>4 DEF AllPlaced, Typed
    <2>3. category' \in [Ids -> Rows \cup {NoRow, Gone}]
      BY <2>1, <2>2
    <2>. QED BY <1>2, <2>3 DEF AllPlaced, Typed, Requests
  <1>6. \A j \in Ids \ {i} : /\ Stored(j)' <=> Stored(j)
                             /\ PlaceOf(j)' = PlaceOf(j)
                             /\ Stored(j) => category'[j].slug = category[j].slug
                             /\ Stored(j) => category'[j].deleted = category[j].deleted
                             /\ j \notin Children(i) => category'[j].parent = category[j].parent
    BY <1>3, <1>4 DEF Stored, PlaceOf
  <1>7. Evolves
    <2>1. category'[i] # NoRow /\ \A j \in Ids : category[j] # NoRow => category'[j] # NoRow
      BY <1>3, <1>4, RowsDiffer DEF Stored
    <2>. QED BY <1>2, <1>3, <1>6, <2>1 DEF Evolves
  <1>8. ParentsStored'
    <2>1. SUFFICES ASSUME NEW j \in Ids, Stored(j)', NEW p \in category'[j].parent PROVE Stored(p)'
      BY DEF ParentsStored
    <2>2. j # i /\ j \notin Children(i) /\ Stored(j) /\ p \in category[j].parent
      BY <1>3, <1>4, <1>6, <2>1
    <2>3. category[j].parent = {p} /\ p \in Ids /\ Stored(p)
      BY <2>2, RowFields, ParentFact DEF AllPlaced, ParentsStored
    <2>4. p # i
      BY <2>2, <2>3 DEF Children
    <2>. QED BY <1>6, <2>3, <2>4
  <1>9. ASSUME NEW j \in Ids PROVE RowPlaced(j)'
    BY <1>3, <1>5, <1>6, <1>7, <1>8, RowStays DEF AllPlaced
  <1>10. Rooted'
    BY <1>2, <1>3, <1>4, <1>6, StaysRooted DEF AllPlaced
  <1>. QED BY <1>2, <1>5, <1>7, <1>8, <1>9, <1>10, WritingStep

\* A row that the entity has written is outside the property.
LEMMA EntityWrites ==
  ASSUME AllPlaced, NEW c \in Calls, NEW i \in Ids, NEW row \in Rows,
         category' = [category EXCEPT ![i] = row], category[i] # Gone,
         call' = [call EXCEPT ![c] = Done], UNCHANGED <<renamed, torn, mapping>>, byEntity' = byEntity \cup {i},
         \A p \in row.parent : Stored(p)
  PROVE  AllPlaced'
  <1>1. Typed'
    BY DEF AllPlaced, Typed, Requests
  <1>2. /\ category'[i] = row /\ Stored(i)'
        /\ \A j \in Ids \ {i} : category'[j] = category[j] /\ (Stored(j)' <=> Stored(j))
    BY RowsDiffer DEF AllPlaced, Typed, Stored
  <1>3. Evolves
    BY <1>2 DEF Evolves, PlaceOf, Stored
  <1>4. ParentsStored'
    <2>1. SUFFICES ASSUME NEW j \in Ids, Stored(j)', NEW p \in category'[j].parent PROVE Stored(p)'
      BY DEF ParentsStored
    <2>2. Stored(p) /\ p \in Ids
      <3>1. CASE j = i
        BY <1>2, <2>1, <3>1, ParentFact DEF Rows
      <3>2. CASE j # i
        BY <1>2, <2>1, <3>2, RowFields, ParentFact DEF AllPlaced, ParentsStored
      <3>. QED BY <3>1, <3>2
    <2>. QED BY <1>2, <2>2
  <1>5. RowPlaced(i)'
    BY DEF RowPlaced
  <1>6. ASSUME NEW j \in Ids, j # i PROVE RowPlaced(j)'
    BY <1>1, <1>2, <1>3, <1>4, <1>6, RowStays DEF AllPlaced, PlaceOf
  <1>7. Rooted'
    BY DEF Rooted
  <1>. QED BY <1>1, <1>3, <1>4, <1>5, <1>6, <1>7, WritingStep

LEMMA SaveEntityPlaced ==
  ASSUME AllPlaced, NEW c \in Calls, SaveEntity(c)
  PROVE  AllPlaced'
  <1>1. PICK i \in Ids, parent \in ParentSets, slug \in Slugs :
            call[c] = [at |-> "entity", id |-> i, parent |-> parent, slug |-> slug]
    BY DEF AllPlaced, SaveEntity, Typed, Requests, Idle, Done
  <1> DEFINE row == [slug |-> slug, parent |-> parent, path |-> PlaceOfEntity(parent).path,
                     level |-> PlaceOfEntity(parent).level,
                     deleted |-> Stored(i) /\ category[i].deleted]
  <1>2. /\ category[i] = NoRow \/ Stored(i)
        /\ \A p \in parent : Stored(p)
        /\ category' = [category EXCEPT ![i] = row]
        /\ byEntity' = byEntity \cup {i} /\ UNCHANGED <<renamed, torn, mapping>>
        /\ call' = [call EXCEPT ![c] = Done]
    BY <1>1 DEF SaveEntity, Fresh, Return, Goto
  <1>3. PlaceOfEntity(parent) \in Places
    <2>1. CASE parent = {}
      BY <2>1 DEF PlaceOfEntity, Places
    <2>2. ASSUME NEW p \in parent PROVE PlaceOfEntity(parent) \in Places
      <3>1. p \in Ids /\ parent = {p} /\ Stored(p)
        BY <1>2, <2>2, ParentFact
      <3>2. (CHOOSE j \in parent : TRUE) = p
        BY <3>1
      <3>3. category[p].path \in Seq(Slugs \cup Ids) /\ category[p].level \in Nat
        BY <3>1, RowFields DEF AllPlaced, Rows
      <3>4. PlaceOfEntity(parent) = [path |-> Append(category[p].path, p), level |-> category[p].level + 1]
        BY <3>1, <3>2 DEF PlaceOfEntity
      <3>5. Append(category[p].path, p) \in Seq(Slugs \cup Ids)
        BY <3>1, <3>3
      <3>. QED BY <3>3, <3>4, <3>5 DEF Places
    <2>. QED BY <2>1, <2>2
  <1>4. (Stored(i) /\ category[i].deleted) \in BOOLEAN
    BY RowFields DEF AllPlaced, Rows
  <1>5. row \in Rows
    BY <1>3, <1>4 DEF Rows, Places
  <1>6. category[i] # Gone
    BY <1>2, RowsDiffer DEF Stored
  <1>. QED BY <1>2, <1>5, <1>6, EntityWrites

LEMMA SoftDeletePlaced ==
  ASSUME AllPlaced, NEW c \in Calls, NEW i \in Ids, SoftDelete(c, i)
  PROVE  AllPlaced'
  <1>1. /\ Stored(i)
        /\ category' = [category EXCEPT ![i].deleted = TRUE]
        /\ byEntity' = byEntity \cup {i} /\ UNCHANGED <<renamed, torn, mapping>>
        /\ call' = [call EXCEPT ![c] = Done]
    BY DEF SoftDelete, Listed, Return, Goto
  <1>2. PICK row \in Rows : row = category[i]
    BY <1>1, RowFields DEF AllPlaced
  <1> DEFINE new == [row EXCEPT !.deleted = TRUE]
  <1>3. new \in Rows /\ new.parent = row.parent
    BY DEF Rows
  <1>4. category' = [category EXCEPT ![i] = new]
    BY <1>1, <1>2 DEF AllPlaced, Typed
  <1>5. \A p \in row.parent : Stored(p)
    BY <1>1, <1>2 DEF AllPlaced, ParentsStored
  <1>6. category[i] # Gone
    BY <1>1 DEF Stored
  <1>. QED BY <1>1, <1>3, <1>4, <1>5, <1>6, EntityWrites

LEMMA RequestPlaced ==
  ASSUME AllPlaced, NEW c \in Calls, NEW i \in Ids, Request(c, i)
  PROVE  AllPlaced'
  <1>1. ASSUME NEW parent \in ParentSets, NEW slug \in Slugs,
               CreateCategory(c, i, parent, slug) \/ AdminCreateCategory(c, i, parent, slug)
        PROVE  AllPlaced'
    BY <1>1, CreatePlaced DEF AdminCreateCategory
  <1>2. ASSUME NEW slug \in Slugs, UpdateCategory(c, i, slug) \/ AdminUpdateCategory(c, i, slug)
        PROVE  AllPlaced'
    BY <1>2, UpdatePlacedStep DEF AdminUpdateCategory
  <1>3. ASSUME DeleteCategory(c, i) \/ AdminDeleteCategory(c, i) PROVE AllPlaced'
    <2> DEFINE x == [at |-> "count", id |-> i]
    <2>1. x \in Requests
      BY DEF Requests
    <2>. QED BY <1>3, <2>1, ReadsOn DEF DeleteCategory, AdminDeleteCategory, Goto
  <1>4. ASSUME NEW parent \in ParentSets, NEW slug \in Slugs,
               call' = [call EXCEPT ![c] = [at |-> "entity", id |-> i, parent |-> parent, slug |-> slug]],
               UNCHANGED <<category, renamed, torn, byEntity>>, UNCHANGED mapping
        PROVE  AllPlaced'
    <2> DEFINE x == [at |-> "entity", id |-> i, parent |-> parent, slug |-> slug]
    <2>1. x \in Requests
      BY DEF Requests
    <2>. QED BY <1>4, <2>1, ReadsOn
  <1>5. CASE LoadEntity(c, i)
    <2>1. category[i].parent \in ParentSets /\ category[i].slug \in Slugs
      BY <1>5, RowFields DEF AllPlaced, LoadEntity, Listed, Rows
    <2>. QED BY <1>4, <1>5, <2>1 DEF LoadEntity, Goto
  <1>6. ASSUME NEW parent \in ParentSets, NEW slug \in Slugs, NewEntity(c, i, parent, slug)
        PROVE  AllPlaced'
    BY <1>4, <1>6 DEF NewEntity, Goto
  <1>7. CASE SoftDelete(c, i)
    BY <1>7, SoftDeletePlaced
  <1>. QED BY <1>1, <1>2, <1>3, <1>5, <1>6, <1>7 DEF Request

LEMMA ProductRequestPlaced ==
  ASSUME AllPlaced, NEW c \in Calls, NEW p \in Products, ProductRequest(c, p)
  PROVE  AllPlaced'
  <1>1. ASSUME NEW q \in Products, NEW ids \in SUBSET Ids,
               call' = [call EXCEPT ![c] = [at |-> "map", product |-> q, ids |-> ids]],
               UNCHANGED <<category, renamed, torn, byEntity>>, UNCHANGED mapping
        PROVE  AllPlaced'
    <2> DEFINE x == [at |-> "map", product |-> q, ids |-> ids]
    <2>1. x \in Requests
      BY DEF Requests
    <2>. QED BY <1>1, <2>1, ReadsOn
  <1>2. \A q \in Products : {m[2] : m \in {n \in mapping : n[1] = q}} \in SUBSET Ids
    BY DEF AllPlaced, Mapped
  <1>3. ASSUME NEW ids \in SUBSET Ids, AssertCategories(c, p, ids) PROVE AllPlaced'
    BY <1>1, <1>3 DEF AssertCategories, Goto
  <1>4. ASSUME NEW q \in Products, DuplicateProduct(c, p, q) PROVE AllPlaced'
    BY <1>1, <1>2, <1>4 DEF DuplicateProduct, Goto
  <1>. QED BY <1>3, <1>4 DEF ProductRequest

LEMMA StepPlaced ==
  ASSUME AllPlaced, NEW c \in Calls, Step(c)
  PROVE  AllPlaced'
  <1>1. ASSUME call' = [call EXCEPT ![c] = Done], UNCHANGED <<category, renamed, torn, byEntity>>,
               UNCHANGED mapping \/ Mapped'
        PROVE  AllPlaced'
    <2>1. Done \in Requests /\ Done.at \notin {"insert", "update"}
      BY DEF Requests, Done
    <2>. QED BY <1>1, <2>1, ReadsOn
  <1>2. CASE CountProducts(c)
    <2> DEFINE x == [at |-> "delete", id |-> call[c].id]
    <2>1. PICK i \in Ids : call[c] = [at |-> "count", id |-> i]
      BY <1>2 DEF AllPlaced, CountProducts, Typed, Requests, Idle, Done
    <2>2. x \in Requests /\ [call[c] EXCEPT !.at = "delete"] = x
      BY <2>1 DEF Requests
    <2>. QED BY <1>2, <2>2, ReadsOn DEF CountProducts, Goto
  <1>3. CASE MapProduct(c)
    <2>1. PICK p \in Products, ids \in SUBSET Ids : call[c] = [at |-> "map", product |-> p, ids |-> ids]
      BY <1>3 DEF AllPlaced, MapProduct, Typed, Requests, Idle, Done
    <2>2. Mapped'
      BY <1>3, <2>1 DEF AllPlaced, MapProduct, Mapped
    <2>. QED BY <1>1, <1>3, <2>2 DEF MapProduct, Return, Goto
  <1>4. CASE Fail(c)
    BY <1>1, <1>4 DEF Fail, Return, Goto
  <1>5. ASSUME NEW parent \in ParentSets, NEW slug \in Slugs, ChangeEntity(c, parent, slug)
        PROVE  AllPlaced'
    <2>1. PICK r \in [at : {"entity"}, id : Ids, parent : ParentSets, slug : Slugs] : call[c] = r
      BY <1>5 DEF AllPlaced, ChangeEntity, Typed, Requests, Idle, Done
    <2> DEFINE x == [r EXCEPT !.parent = parent, !.slug = slug]
    <2>2. x \in [at : {"entity"}, id : Ids, parent : ParentSets, slug : Slugs]
      OBVIOUS
    <2>3. x \in Requests /\ x.at \notin {"insert", "update"}
      BY <2>2 DEF Requests
    <2> HIDE DEF x
    <2>4. call' = [call EXCEPT ![c] = x] /\ UNCHANGED <<category, renamed, torn, byEntity, mapping>>
      BY <1>5, <2>1 DEF ChangeEntity, Goto, x
    <2>. QED BY <2>3, <2>4, ReadsOn
  <1>. QED BY <1>2, <1>3, <1>4, <1>5, InsertPlacedStep, WritePlaced, RemovePlaced, SaveEntityPlaced DEF Step

LEMMA InitPlaced == Init => AllPlaced
  <1>. SUFFICES ASSUME Init PROVE AllPlaced
    OBVIOUS
  <1>1. /\ Typed /\ Mapped
        /\ \A i \in Ids : ~Stored(i)
        /\ \A c \in Calls : call[c].at = "idle"
    BY DEF Init, Typed, Mapped, Requests, Stored, Idle
  <1>2. Rooted
    BY <1>1 DEF Rooted
  <1>. QED BY <1>1, <1>2 DEF AllPlaced, ParentsStored, RowPlaced, CallPlaced, InsertPlaced, UpdatePlaced

LEMMA NextPlaced == AllPlaced /\ [Next]_vars => AllPlaced'
  <1>. SUFFICES ASSUME AllPlaced, [Next]_vars PROVE AllPlaced'
    OBVIOUS
  <1>1. CASE UNCHANGED vars
    <2>1. Typed' /\ Mapped' /\ ParentsStored' /\ Rooted'
      BY <1>1 DEF vars, AllPlaced, Typed, Mapped, ParentsStored, Rooted, Stored
    <2>2. \A i \in Ids : RowPlaced(i)'
      BY <1>1 DEF vars, AllPlaced, RowPlaced, Stored, Steady, PlaceOf, PlaceUnder
    <2>3. Evolves
      BY <1>1 DEF vars, Evolves, Stored, PlaceOf
    <2>4. \A c \in Calls : CallPlaced(c)'
      BY <1>1, <2>1, <2>3, OthersPlaced DEF vars, AllPlaced
    <2>. QED BY <2>1, <2>2, <2>4 DEF AllPlaced
  <1>. QED BY <1>1, StepPlaced, RequestPlaced, ProductRequestPlaced DEF Next

(* The rows keep their places, and a request knows the place it will write,  *)
(* except where a place has changed or the repository has written one.       *)
THEOREM PlacedInvariant == PartsSpec => []AllPlaced
  <1>1. PartsInit => AllPlaced
    BY InitPlaced DEF PartsInit
  <1>2. AllPlaced /\ [PartsNext]_<<part, vars, flags>> => AllPlaced'
    BY NextPlaced DEF PartsNext, CategoriesNext, DefaultsNext
  <1>. QED BY <1>1, <1>2, PTL DEF PartsSpec

LEMMA PlacedFollows == AllPlaced => PlacedUnderParent
  <1>. SUFFICES ASSUME AllPlaced, NEW i \in Ids, Stored(i), i \notin torn \cup byEntity,
                       Steady(category[i].parent)
                PROVE  /\ category[i].parent = {} =>
                              category[i].path = <<category[i].slug>> /\ category[i].level = 0
                       /\ \A p \in category[i].parent :
                              /\ category[i].path = Append(category[p].path, category[i].slug)
                              /\ category[i].level = category[p].level + 1
    BY DEF PlacedUnderParent, Steady
  <1>1. PICK parent \in ParentSets, slug \in Slugs : parent = category[i].parent /\ slug = category[i].slug
    BY RowFields DEF AllPlaced, Rows
  <1>2. PlaceOf(i) = PlaceUnder(parent, slug)
    BY <1>1 DEF AllPlaced, RowPlaced
  <1>3. \A p \in parent : Stored(p)
    BY <1>1 DEF AllPlaced, ParentsStored
  <1>. QED BY <1>1, <1>2, <1>3, PlaceFact DEF AllPlaced, PlaceOf

-----------------------------------------------------------------------------
(* The tree.  UpTo is defined recursively; that it exists, and that it has    *)
(* come to an end when it has gone down as far as there are categories, is    *)
(* shown by taking the first level for which it fails.                       *)

LEMMA FirstOf ==
  ASSUME NEW B \in SUBSET Nat, B # {}
  PROVE  \E m \in B : \A k \in B : ~(k < m)
  <1>1. PICK b \in B : TRUE
    OBVIOUS
  <1> DEFINE S == 0 .. b
             T == {0 .. k : k \in {j \in B : j <= b}}
  <1>2. T \subseteq FiniteSubsetsOf(S) /\ T # {}
    <2>1. b \in Nat /\ IsFiniteSet(S)
      BY <1>1, FS_Interval
    <2>2. \A k \in B : k <= b => 0 .. k \subseteq S
      BY <2>1
    <2>. QED BY <2>1, <2>2, FS_FiniteSubsetsOfFinite
  <1>3. PICK X \in T : \A Y \in T : <<Y, X>> \notin StrictSubsetOrdering(S)
    <2>1. IsFiniteSet(S)
      BY <1>1, FS_Interval
    <2>. HIDE DEF S, T
    <2>. QED BY <1>2, <2>1, WFMin, FS_StrictSubsetOrderingWellFounded
  <1>4. PICK m \in B : m <= b /\ X = 0 .. m
    BY <1>3
  <1>5. ASSUME NEW k \in B, k < m PROVE FALSE
    <2>1. k \in Nat /\ m \in Nat /\ b \in Nat /\ k <= b
      BY <1>1, <1>4, <1>5
    <2>2. 0 .. k \in T
      BY <2>1
    <2>3. 0 .. k \subseteq 0 .. m /\ m \in 0 .. m /\ m \notin 0 .. k
      BY <1>5, <2>1
    <2>4. 0 .. k \subseteq S /\ 0 .. m \subseteq S
      BY <1>4, <2>1
    <2>5. <<0 .. k, X>> \in StrictSubsetOrdering(S)
      BY <1>2, <1>3, <1>4, <2>2, <2>3, <2>4 DEF StrictSubsetOrdering
    <2>. QED BY <1>3, <2>2, <2>5
  <1>. QED BY <1>4, <1>5

Depth == Cardinality(Ids)

LEMMA DepthFact == Depth \in Nat
  BY IdsAssumption, FS_CardinalityType DEF Depth

\* The first levels of the tree, down to m.
LevelsTo(f, m) ==
    f = [n \in 0 .. m |-> IF n = 0 THEN Roots ELSE f[n - 1] \cup Below(f[n - 1])]

LEMMA LevelsExist == \A m \in Nat : \E f : LevelsTo(f, m)
  <1> DEFINE B == {m \in Nat : ~\E f : LevelsTo(f, m)}
  <1>1. SUFFICES ASSUME B # {} PROVE FALSE
    OBVIOUS
  <1>2. PICK m \in B : \A k \in B : ~(k < m)
    BY <1>1, FirstOf
  <1>3. CASE m = 0
    <2>1. LevelsTo([n \in 0 .. 0 |-> Roots], 0)
      BY DEF LevelsTo
    <2>. QED BY <1>3, <2>1
  <1>4. CASE m # 0
    <2>1. m - 1 \in Nat /\ m - 1 < m /\ m \in Nat
      BY <1>4
    <2>2. PICK f : LevelsTo(f, m - 1)
      BY <1>2, <2>1
    <2> DEFINE g == [n \in 0 .. m |-> IF n = m THEN f[m - 1] \cup Below(f[m - 1]) ELSE f[n]]
    <2>3. ASSUME NEW n \in 0 .. m
          PROVE  g[n] = IF n = 0 THEN Roots ELSE g[n - 1] \cup Below(g[n - 1])
      <3>1. CASE n = m
        <4>1. g[n - 1] = f[m - 1]
          BY <1>4, <2>1, <3>1
        <4>. QED BY <1>4, <2>1, <3>1, <4>1
      <3>2. CASE n # m
        <4>1. n \in 0 .. m - 1 /\ (n # 0 => n - 1 \in 0 .. m - 1 /\ n - 1 # m)
          BY <2>1, <3>2
        <4>2. f[n] = IF n = 0 THEN Roots ELSE f[n - 1] \cup Below(f[n - 1])
          BY <2>2, <4>1 DEF LevelsTo
        <4>3. g[n] = f[n] /\ (n # 0 => g[n - 1] = f[n - 1])
          BY <2>1, <3>2, <4>1
        <4>. QED BY <4>2, <4>3
      <3>. QED BY <3>1, <3>2
    <2> HIDE DEF g
    <2>4. g = [n \in 0 .. m |-> g[n]]
      BY DEF g
    <2>5. LevelsTo(g, m)
      BY <2>3, <2>4 DEF LevelsTo
    <2>. QED BY <2>1, <2>5
  <1>. QED BY <1>3, <1>4

LEMMA TreeLevels ==
  /\ UpTo[0] = Roots
  /\ \A n \in 1 .. Depth : UpTo[n] = UpTo[n - 1] \cup Below(UpTo[n - 1])
  <1>1. LevelsTo(UpTo, Depth)
    BY LevelsExist, DepthFact DEF LevelsTo, UpTo, Depth
  <1>2. \A n \in 0 .. Depth : UpTo[n] = IF n = 0 THEN Roots ELSE UpTo[n - 1] \cup Below(UpTo[n - 1])
    BY <1>1 DEF LevelsTo
  <1>3. 0 \in 0 .. Depth /\ \A n \in 1 .. Depth : n \in 0 .. Depth /\ n # 0
    BY DepthFact
  <1>. QED BY <1>2, <1>3

\* Every level adds a category, unless all are there.
LEMMA TreeFull ==
  ASSUME AllPlaced, byEntity = {}
  PROVE  {i \in Ids : Stored(i)} \subseteq Tree
  <1> DEFINE All == {i \in Ids : Stored(i)}
  <1>1. \A i \in Ids : Listed(i) <=> Stored(i)
    BY DEF AllPlaced, Rooted, Listed
  <1>2. Roots \subseteq All /\ \A X : Below(X) \subseteq All
    BY DEF Roots, Below, Listed
  \* A set of categories with the roots and all that are below it has them all.
  <1>3. ASSUME NEW X \in SUBSET All, Roots \subseteq X, Below(X) \subseteq X PROVE X = All
    <2>1. SUFFICES ASSUME All \ X # {} PROVE FALSE
      OBVIOUS
    <2>2. PICK i \in All \ X : category[i].parent \cap (All \ X) = {}
      BY <2>1 DEF AllPlaced, Rooted
    <2>3. i \in Ids /\ Stored(i) /\ category[i].parent \in ParentSets
      BY RowFields DEF AllPlaced
    <2>4. CASE category[i].parent = {}
      BY <1>1, <1>3, <2>2, <2>3, <2>4 DEF Roots
    <2>5. ASSUME NEW p \in category[i].parent PROVE FALSE
      <3>1. category[i].parent = {p} /\ p \in All
        BY <2>3, <2>5, ParentFact DEF AllPlaced, ParentsStored
      <3>2. p \in X
        BY <2>2, <3>1
      <3>3. i \in Below(X)
        BY <1>1, <2>3, <3>1, <3>2 DEF Below
      <3>. QED BY <1>3, <2>2, <3>3
    <2>. QED BY <2>4, <2>5
  <1> HIDE DEF All
  <1> DEFINE Grown(n) == /\ UpTo[n] \subseteq All /\ Roots \subseteq UpTo[n]
                         /\ UpTo[n] = All \/ Cardinality(UpTo[n]) >= n
             Fails == {n \in 0 .. Depth : ~Grown(n)}
  <1>4. IsFiniteSet(All) /\ \A X \in SUBSET All : IsFiniteSet(X) /\ Cardinality(X) \in Nat
    <2>1. IsFiniteSet(All)
      BY IdsAssumption, FS_Subset DEF All
    <2>. QED BY <2>1, FS_Subset, FS_CardinalityType
  <1>5. ASSUME NEW n \in Fails, \A k \in Fails : ~(k < n) PROVE FALSE
    <2>1. CASE n = 0
      <3>1. UpTo[n] = Roots
        BY <2>1, TreeLevels
      <3>2. Cardinality(UpTo[n]) >= n
        BY <1>2, <1>4, <2>1, <3>1
      <3>. QED BY <1>2, <1>5, <3>1, <3>2
    <2>2. CASE n # 0
      <3>1. /\ n \in 1 .. Depth /\ n - 1 \in 0 .. Depth /\ n - 1 < n /\ n \in Nat
        BY <1>5, <2>2, DepthFact
      <3>2. Grown(n - 1)
        BY <1>5, <3>1
      <3> DEFINE X == UpTo[n - 1]
                 Y == UpTo[n]
      <3>3. Y = X \cup Below(X)
        BY <3>1, TreeLevels
      <3>4. Y \subseteq All /\ Roots \subseteq Y /\ X \subseteq Y
        BY <1>2, <3>2, <3>3
      <3>5. CASE Below(X) \subseteq X
        <4>1. X = All
          BY <1>3, <3>2, <3>5
        <4>. QED BY <1>5, <3>4, <4>1
      <3>6. CASE ~(Below(X) \subseteq X)
        <4>1. X # Y
          BY <3>3, <3>6
        <4>2. X # All
          BY <3>4, <4>1
        <4>3. Cardinality(X) >= n - 1
          BY <3>2, <4>2
        <4>4. Cardinality(X) <= Cardinality(Y) /\ Cardinality(X) # Cardinality(Y)
          BY <1>4, <3>4, <4>1, FS_Subset
        <4>5. Cardinality(X) \in Nat /\ Cardinality(Y) \in Nat
          BY <1>4, <3>4
        <4>6. Cardinality(Y) >= n
          <5>. HIDE DEF X, Y
          <5>. QED BY <3>1, <4>3, <4>4, <4>5
        <4>. QED BY <1>5, <3>4, <4>6
      <3>. QED BY <3>5, <3>6
    <2>. QED BY <2>1, <2>2
  <1>6. Fails = {}
    <2>1. Fails \in SUBSET Nat
      BY DepthFact
    <2>. HIDE DEF Fails
    <2>. QED BY <1>5, <2>1, FirstOf
  <1>7. Grown(Depth)
    BY <1>6, DepthFact
  <1>8. UpTo[Depth] = All
    <2>1. CASE Cardinality(UpTo[Depth]) >= Depth
      <3>1. UpTo[Depth] \in SUBSET Ids /\ All \subseteq Ids
        BY <1>7 DEF All
      <3>2. Cardinality(UpTo[Depth]) <= Cardinality(Ids) /\ Cardinality(UpTo[Depth]) \in Nat
        BY <3>1, IdsAssumption, FS_Subset, FS_CardinalityType
      <3>3. Cardinality(UpTo[Depth]) = Cardinality(Ids)
        BY <2>1, <3>2, DepthFact DEF Depth
      <3>4. UpTo[Depth] = Ids
        BY <3>1, <3>3, IdsAssumption, FS_Subset
      <3>. QED BY <1>7, <3>1, <3>4
    <2>. QED BY <1>7, <2>1
  <1>. QED BY <1>8 DEF Tree, Depth, All

(* A category is where its parent is, whatever the two requests that create, *)
(* change and delete categories did between their reads and their writes,    *)
(* unless the parent was moved or deleted: CategoriesService, AdminService.  *)
THEOREM PlacedWhereParentIs == PartsSpec => []PlacedUnderParent
  BY PlacedInvariant, PlacedFollows, PTL

(* While the entity is not used, every category is in the tree that          *)
(* listCategories answers, so there is no cycle and nothing hangs below a    *)
(* category that is gone, however requests overlap: buildTree.               *)
THEOREM AllInTree == PartsSpec => []TreeComplete
  <1>1. AllPlaced => TreeComplete
    BY TreeFull DEF TreeComplete
  <1>. QED BY <1>1, PlacedInvariant, PTL

-----------------------------------------------------------------------------
(* Defaults.  A request that sets a default holds the locks of all rows that *)
(* may have the flag, or is still going to look at them.                    *)

Values == {"plain", "default", "gone"}
Writings == UNION {[D -> Values] : D \in SUBSET Ids}
Operations == {"create", "payoutCreate", "save", "update", "set", "repositorySet", "delete"}
Under == {"begin", "clear", "write", "commit"}

BusySettings ==
    [at : Under, op : Operations, id : Ids, def : {"yes", "no", "kept"}, was : {"none"} \cup Values,
     targets : SUBSET Ids, writes : Writings]

FlagsTyped ==
    /\ item \in [Ids -> {"none"} \cup Values]
    /\ setting \in [Setters -> {Flagged!Idle, Flagged!Done} \cup BusySettings]
    /\ raced \in BOOLEAN

Busy(c) == setting[c].at \in Under
Setter(c) == Flagged!Open(c) /\ setting[c].def = "yes"
Written(c) == DOMAIN setting[c].writes

LocksApart == \A c, d \in Setters : c # d => Written(c) \cap Written(d) = {}

\* A row that is inserted is known to nobody else.
OwnRow(c) ==
    Busy(c) =>
        IF Flagged!Inserts(setting[c])
        THEN /\ item[setting[c].id] = "none"
             /\ \A d \in Setters \ {c} : Busy(d) => setting[d].id # setting[c].id
        ELSE item[setting[c].id] # "none"

OperationKnown(c) ==
    LET r == setting[c]
    IN  Busy(c) =>
          /\ kind # "profile"
          /\ r.def = "kept" => r.op \in {"update", "delete"}
          /\ r.op \in {"set", "repositorySet"} => r.def = "yes"
          /\ r.op = "delete" => r.at = "begin" /\ (kind = "account" => r.was # "default")
          /\ r.op = "payoutCreate" => kind = "account"
          /\ r.at = "clear" => Flagged!Clears(r)

Cleared(c, i) == item[i] \in {"plain", "default"} /\ setting[c].writes[i] = "plain"

\* What a request has written and not committed.
WritesKnown(c) ==
    LET r == setting[c]
    IN  /\ r.at \in {"begin", "clear"} => Written(c) = {}
        /\ r.at \in {"write", "commit"} /\ ~Flagged!Clears(r) => Written(c) \subseteq {r.id}
        /\ r.at = "write" => \A i \in Written(c) : Cleared(c, i)
        /\ r.at = "write" /\ ~Flagged!Clears(r) => Written(c) = {}
        /\ r.at = "commit" =>
             /\ r.id \in Written(c)
             /\ \A i \in Written(c) \ {r.id} : Cleared(c, i)
             /\ item[r.id] = "gone" => kind # "account" /\ r.writes[r.id] = "gone"
             /\ item[r.id] # "gone" =>
                  /\ r.def = "yes" => r.writes[r.id] = "default"
                  /\ r.def = "no" => r.writes[r.id] = "plain"
                  /\ r.def = "kept" => r.writes[r.id] = item[r.id]

\* The rows that somebody who sets a default has to look at.
Uncleared(c) ==
    IF Flagged!Narrow(setting[c]) THEN Flagged!DefaultsOf(item) ELSE Flagged!Live

Covers(c) ==
    LET r == setting[c]
    IN  Setter(c) =>
          /\ r.at = "clear" =>
               Uncleared(c) \subseteq r.targets \cup (IF r.op = "update" THEN {r.id} ELSE {})
          /\ r.at # "clear" => Uncleared(c) \subseteq Written(c) \cup {r.id}

\* Who looks only at rows with the flag does not see those of others.
NarrowAlone == \A c, d \in Setters : Setter(c) /\ Setter(d) /\ Flagged!Narrow(setting[c]) => c = d

Flagging ==
    /\ FlagsTyped
    /\ LocksApart
    /\ \A c \in Setters : OwnRow(c) /\ OperationKnown(c) /\ WritesKnown(c)

OneByOneDefault == ~raced => NarrowAlone /\ Flagged!AtMostOne(item) /\ \A c \in Setters : Covers(c)

FlagInv == Flagging /\ OneByOneDefault

-----------------------------------------------------------------------------
(* Requests and what they have written.                                     *)

LEMMA WritingsFact ==
  /\ \A f \in Writings : DOMAIN f \subseteq Ids /\ \A i \in DOMAIN f : f[i] \in Values
  /\ \A D \in SUBSET Ids : [D -> Values] \subseteq Writings
  BY DEF Writings

LEMMA NothingWritten ==
  Flagged!NoWrites \in Writings /\ DOMAIN Flagged!NoWrites = {}
  <1>1. Flagged!NoWrites \in [{} -> Values]
    BY DEF Flagged!NoWrites, Values
  <1>. QED BY <1>1, WritingsFact

LEMMA BusyFact ==
  ASSUME FlagsTyped, NEW c \in Setters
  PROVE  /\ Busy(c) <=> setting[c] \in BusySettings
         /\ ~Busy(c) => Written(c) = {} /\ ~Setter(c)
         /\ Busy(c) <=> setting[c] \notin {Flagged!Idle, Flagged!Done}
         /\ Setter(c) => Busy(c)
         /\ Written(c) \subseteq Ids
         /\ \A i \in Written(c) : setting[c].writes[i] \in Values
  <1>1. /\ Flagged!Idle.at \notin Under /\ Flagged!Idle.writes = Flagged!NoWrites
        /\ Flagged!Done.at \notin Under /\ Flagged!Done.writes = Flagged!NoWrites
    BY DEF Flagged!Idle, Flagged!Done, Under
  <1>2. \A r \in BusySettings : r.at \in Under /\ r.writes \in Writings
    BY DEF BusySettings
  <1>3. Flagged!Open(c) => Busy(c)
    BY DEF Flagged!Open, Busy, Under
  <1>. QED BY <1>1, <1>2, <1>3, NothingWritten, WritingsFact DEF FlagsTyped, Busy, Written, Setter

LEMMA LockedFact ==
  ASSUME NEW c \in Setters, NEW i, ~Flagged!Locked(i, c), NEW d \in Setters \ {c}
  PROVE  i \notin Written(d)
  BY DEF Flagged!Locked, Written

\* What holds of the other requests after a step of one.
LEMMA OneMoves ==
  ASSUME Flagging, NEW c \in Setters, NEW x \in {Flagged!Done} \cup BusySettings,
         setting' = [setting EXCEPT ![c] = x], kind' = kind, raced' \in BOOLEAN,
         item' \in [Ids -> {"none"} \cup Values],
         \A d \in Setters \ {c} : \A i \in Written(d) : item'[i] = item[i],
         \A i \in Ids : item[i] # "none" => item'[i] # "none",
         \A i \in Ids : item[i] = "none" /\ item'[i] # "none" =>
            Busy(c) /\ Flagged!Inserts(setting[c]) /\ i = setting[c].id /\ x = Flagged!Done,
         x # Flagged!Done => Busy(c) /\ x.id = setting[c].id /\ x.op = setting[c].op,
         \A d \in Setters \ {c} : DOMAIN x.writes \cap Written(d) = {},
         OperationKnown(c)', WritesKnown(c)'
  PROVE  Flagging'
  <1>1. FlagsTyped'
    BY DEF Flagging, FlagsTyped
  <1>2. setting'[c] = x /\ \A d \in Setters \ {c} : setting'[d] = setting[d]
    BY DEF Flagging, FlagsTyped
  <1>3. LocksApart'
    BY <1>2 DEF Flagging, LocksApart, Written
  <1>4. Busy(c)' => Busy(c) /\ x # Flagged!Done /\ x.id = setting[c].id /\ x.op = setting[c].op
    <2>1. Flagged!Done.at \notin Under
      BY DEF Flagged!Done, Under
    <2>. QED BY <1>2, <2>1 DEF Busy
  <1>5. ASSUME NEW d \in Setters PROVE OwnRow(d)'
    <2>1. ASSUME Busy(d)', Flagged!Inserts(setting[d])'
          PROVE  item'[setting'[d].id] = "none" /\ \A e \in Setters \ {d} : Busy(e)' => setting'[e].id # setting'[d].id
      <3>1. /\ Busy(d) /\ Flagged!Inserts(setting[d]) /\ setting'[d].id = setting[d].id
        BY <1>2, <1>4, <2>1 DEF Busy, Flagged!Inserts
      <3>2. \A e \in Setters : Busy(e)' => Busy(e) /\ setting'[e].id = setting[e].id
        BY <1>2, <1>4 DEF Busy
      <3>3. setting[d].id \in Ids
        BY <3>1, BusyFact DEF Flagging, BusySettings
      <3>4. /\ item[setting[d].id] = "none"
            /\ \A e \in Setters \ {d} : Busy(e) => setting[e].id # setting[d].id
        BY <3>1 DEF Flagging, OwnRow
      <3>5. item'[setting[d].id] = "none"
        BY <1>4, <2>1, <3>1, <3>3, <3>4 
      <3>. QED BY <3>1, <3>2, <3>4, <3>5
    <2>2. ASSUME Busy(d)', ~Flagged!Inserts(setting[d])' PROVE item'[setting'[d].id] # "none"
      <3>1. Busy(d) /\ ~Flagged!Inserts(setting[d]) /\ setting'[d].id = setting[d].id
        BY <1>2, <1>4, <2>2 DEF Busy, Flagged!Inserts
      <3>2. setting[d].id \in Ids
        BY <3>1, BusyFact DEF Flagging, BusySettings
      <3>. QED BY <3>1, <3>2 DEF Flagging, OwnRow
    <2>. QED BY <2>1, <2>2 DEF OwnRow
  <1>6. ASSUME NEW d \in Setters, d # c PROVE OperationKnown(d)' /\ WritesKnown(d)'
    <2>1. setting'[d] = setting[d] /\ \A i \in Written(d) : item'[i] = item[i]
      BY <1>2, <1>6
    <2>2. OperationKnown(d)'
      BY <2>1 DEF Flagging, OperationKnown, Busy, Flagged!Clears
    <2>3. WritesKnown(d)'
      BY <2>1 DEF Flagging, WritesKnown, Written, Cleared, Flagged!Clears
    <2>. QED BY <2>2, <2>3
  <1>. QED BY <1>1, <1>3, <1>5, <1>6 DEF Flagging

\* What is left of the default, once a request has taken a step.
LEMMA OneMovesDefault ==
  ASSUME FlagInv, NEW c \in Setters, \A d \in Setters \ {c} : setting'[d] = setting[d],
         kind' = kind, raced => raced',
         ~raced' => /\ \A d \in Setters \ {c} : Setter(d) => Uncleared(d)' \subseteq Uncleared(d)
                    /\ NarrowAlone' /\ Flagged!AtMostOne(item)' /\ Covers(c)'
  PROVE  OneByOneDefault'
  <1>1. SUFFICES ASSUME ~raced' PROVE \A d \in Setters : Covers(d)'
    BY DEF OneByOneDefault
  <1>2. ASSUME NEW d \in Setters \ {c} PROVE Covers(d)'
    <2>1. setting'[d] = setting[d] /\ Covers(d)
      BY <1>1 DEF FlagInv, OneByOneDefault
    <2>2. Setter(d)' <=> Setter(d)
      BY <2>1 DEF Setter, Flagged!Open
    <2>3. Setter(d) => Uncleared(d)' \subseteq Uncleared(d)
      BY <1>1
    <2>. QED BY <2>1, <2>2, <2>3 DEF Covers, Written
  <1>. QED BY <1>1, <1>2

\* No other request begins to set a default.
LEMMA StaysAlone ==
  ASSUME NarrowAlone, NEW c \in Setters, \A d \in Setters \ {c} : setting'[d] = setting[d], kind' = kind,
         Setter(c)' => Setter(c) /\ setting'[c].op = setting[c].op
  PROVE  NarrowAlone'
  <1>1. \A d \in Setters : Setter(d)' => Setter(d) /\ setting'[d].op = setting[d].op
    BY DEF Setter, Flagged!Open
  <1>. QED BY <1>1 DEF NarrowAlone, Flagged!Narrow

LEMMA BeginFlags ==
  ASSUME FlagInv, NEW c \in Setters, NEW op \in Operations, NEW i \in Ids, NEW def \in {"yes", "no", "kept"},
         Flagged!Begin(c, op, i, def), kind # "profile",
         IF op \in {"create", "payoutCreate", "save"} THEN Flagged!NewId(i) ELSE item[i] # "none",
         def = "kept" => op \in {"update", "delete"},
         op \in {"set", "repositorySet"} => def = "yes",
         op = "delete" => (kind = "account" => item[i] # "default"),
         op = "payoutCreate" => kind = "account"
  PROVE  FlagInv'
  <1> DEFINE x == [at |-> "begin", op |-> op, id |-> i, def |-> def, was |-> item[i],
                   targets |-> {}, writes |-> Flagged!NoWrites]
  <1>1. /\ setting[c] = Flagged!Idle /\ setting' = [setting EXCEPT ![c] = x]
        /\ UNCHANGED <<kind, item, raced>>
    BY DEF Flagged!Begin, Flagged!Goto
  <1>2. x \in BusySettings
    BY NothingWritten DEF FlagInv, Flagging, FlagsTyped, BusySettings, Under
  <1>3. setting'[c] = x /\ \A d \in Setters \ {c} : setting'[d] = setting[d]
    BY <1>1 DEF FlagInv, Flagging, FlagsTyped
  <1>4. Busy(c)' /\ ~Setter(c)' /\ Written(c)' = {} /\ Written(c) = {}
    BY <1>1, <1>3, NothingWritten
       DEF Busy, Under, Setter, Flagged!Open, Written, Flagged!Idle
  <1>5. FlagsTyped' /\ LocksApart'
    BY <1>1, <1>2, <1>3, <1>4 DEF FlagInv, Flagging, FlagsTyped, LocksApart, Written
  <1>6. OwnRow(c)'
    <2>1. Flagged!Inserts(setting[c])' <=> op \in {"create", "payoutCreate", "save"}
      BY <1>3 DEF Flagged!Inserts
    <2>2. CASE op \in {"create", "payoutCreate", "save"}
      <3>1. item[i] = "none" /\ \A d \in Setters : Busy(d) => setting[d].id # i
        BY <2>2, BusyFact DEF FlagInv, Flagging, Flagged!NewId
      <3>2. \A d \in Setters \ {c} : Busy(d)' => Busy(d)
        BY <1>3 DEF Busy
      <3>. QED BY <1>1, <1>3, <2>1, <2>2, <3>1, <3>2 DEF OwnRow
    <2>3. CASE op \notin {"create", "payoutCreate", "save"}
      BY <1>1, <1>3, <2>1, <2>3 DEF OwnRow
    <2>. QED BY <2>2, <2>3
  <1>7. ASSUME NEW d \in Setters \ {c} PROVE OwnRow(d)'
    <2>1. setting'[d] = setting[d] /\ item' = item /\ OwnRow(d)
      BY <1>1, <1>3 DEF FlagInv, Flagging
    <2>2. SUFFICES ASSUME Busy(d), Flagged!Inserts(setting[d]) PROVE i # setting[d].id
      BY <1>3, <2>1 DEF OwnRow, Busy, Flagged!Inserts
    <2>3. item[setting[d].id] = "none"
      BY <2>1, <2>2 DEF OwnRow
    <2>4. Flagged!NewId(i) => i # setting[d].id
      BY <2>2, BusyFact DEF FlagInv, Flagging, Flagged!NewId
    <2>. QED BY <2>3, <2>4
  <1>8. ASSUME NEW d \in Setters PROVE OperationKnown(d)' /\ WritesKnown(d)'
    <2>1. CASE d = c
      BY <1>1, <1>3, <1>4, <2>1 DEF OperationKnown, WritesKnown
    <2>2. CASE d # c
      <3>1. setting'[d] = setting[d]
        BY <1>3, <2>2
      <3>2. OperationKnown(d)'
        BY <1>1, <3>1 DEF FlagInv, Flagging, OperationKnown, Busy, Flagged!Clears
      <3>3. WritesKnown(d)'
        BY <1>1, <3>1 DEF FlagInv, Flagging, WritesKnown, Written, Cleared, Flagged!Clears
      <3>. QED BY <3>2, <3>3
    <2>. QED BY <2>1, <2>2
  <1>9. Flagging'
    BY <1>5, <1>6, <1>7, <1>8 DEF Flagging
  <1>10. OneByOneDefault'
    <2>1. \A d \in Setters \ {c} : Uncleared(d)' = Uncleared(d)
      BY <1>1, <1>3 DEF Uncleared, Flagged!Narrow, Flagged!Live, Flagged!DefaultsOf
    <2>2. ~raced => NarrowAlone' /\ Flagged!AtMostOne(item)'
      BY <1>1, <1>3, <1>4, StaysAlone DEF FlagInv, OneByOneDefault, Flagged!AtMostOne, Flagged!DefaultsOf
    <2>3. Covers(c)'
      BY <1>4 DEF Covers
    <2>. QED BY <1>1, <1>3, <2>1, <2>2, <2>3, OneMovesDefault
  <1>. QED BY <1>9, <1>10 DEF FlagInv

LEMMA AbortFlags ==
  ASSUME FlagInv, NEW c \in Setters, Flagged!Abort(c)
  PROVE  FlagInv'
  <1>1. /\ setting' = [setting EXCEPT ![c] = Flagged!Done] /\ UNCHANGED <<kind, item, raced>>
    BY DEF Flagged!Abort, Flagged!Goto
  <1>2. setting'[c] = Flagged!Done /\ \A d \in Setters \ {c} : setting'[d] = setting[d]
    BY <1>1 DEF FlagInv, Flagging, FlagsTyped
  <1>3. ~Busy(c)' /\ ~Setter(c)' /\ DOMAIN Flagged!Done.writes = {}
    BY <1>2, NothingWritten DEF Busy, Under, Setter, Flagged!Open, Flagged!Done
  <1>4. OperationKnown(c)' /\ WritesKnown(c)'
    BY <1>2, <1>3 DEF OperationKnown, WritesKnown, Busy, Under
  <1>5. Flagging'
    BY <1>1, <1>3, <1>4, OneMoves DEF FlagInv, Flagging, FlagsTyped
  <1>6. OneByOneDefault'
    <2>1. \A d \in Setters \ {c} : Uncleared(d)' = Uncleared(d)
      BY <1>1, <1>2 DEF Uncleared, Flagged!Narrow, Flagged!Live, Flagged!DefaultsOf
    <2>2. ~raced => NarrowAlone' /\ Flagged!AtMostOne(item)'
      BY <1>1, <1>2, <1>3, StaysAlone DEF FlagInv, OneByOneDefault, Flagged!AtMostOne, Flagged!DefaultsOf
    <2>3. Covers(c)'
      BY <1>3 DEF Covers
    <2>. QED BY <1>1, <1>2, <2>1, <2>2, <2>3, OneMovesDefault
  <1>. QED BY <1>5, <1>6 DEF FlagInv

\* The request looks for the rows whose flag it will clear.
LEMMA StartFlags ==
  ASSUME FlagInv, NEW c \in Setters, Flagged!Start(c)
  PROVE  FlagInv'
  <1>1. PICK r \in BusySettings : setting[c] = r
    BY BusyFact DEF FlagInv, Flagging, Flagged!Start, Busy, Under
  <1>2. /\ r.at = "begin" /\ r.op # "delete" /\ Busy(c) /\ Written(c) = {} /\ ~Setter(c)
        /\ UNCHANGED <<kind, item>> /\ raced' = (raced \/ Flagged!Races(c))
        /\ OperationKnown(c)
    BY <1>1 DEF FlagInv, Flagging, Flagged!Start, Busy, Under, WritesKnown, Setter, Flagged!Open
  <1> DEFINE x == IF Flagged!Clears(r) THEN [r EXCEPT !.at = "clear", !.targets = Flagged!Targets(c)]
                  ELSE [r EXCEPT !.at = "write"]
  <1>3. setting' = [setting EXCEPT ![c] = x]
    BY <1>1 DEF Flagged!Start, Flagged!Goto
  <1>4. /\ x \in BusySettings /\ x.at = (IF Flagged!Clears(r) THEN "clear" ELSE "write")
        /\ x.op = r.op /\ x.id = r.id /\ x.def = r.def /\ x.was = r.was /\ x.writes = r.writes
        /\ Flagged!Clears(r) => x.targets = Flagged!Targets(c)
    <2>1. Flagged!Targets(c) \subseteq Ids
      BY DEF Flagged!Targets, Flagged!Live
    <2>2. CASE Flagged!Clears(r)
      BY <2>1, <2>2 DEF BusySettings, Under
    <2>3. CASE ~Flagged!Clears(r)
      BY <2>3 DEF BusySettings, Under
    <2>. QED BY <2>2, <2>3
  <1> HIDE DEF x
  <1>5. setting'[c] = x /\ \A d \in Setters \ {c} : setting'[d] = setting[d]
    BY <1>3 DEF FlagInv, Flagging, FlagsTyped
  <1>6. Flagged!Clears(x) <=> Flagged!Clears(r)
    BY <1>4 DEF Flagged!Clears
  <1>7. OperationKnown(c)'
    BY <1>1, <1>2, <1>4, <1>5, <1>6 DEF OperationKnown, Busy, Under, Flagged!Clears
  <1>8. WritesKnown(c)' /\ Written(c)' = {}
    BY <1>1, <1>2, <1>4, <1>5, <1>6 DEF WritesKnown, Written, Cleared, Flagged!Clears
  <1>9. raced' \in BOOLEAN
    BY <1>2 DEF Flagged!Races
  <1>10. Flagging'
    <2>1. DOMAIN x.writes = {}
      BY <1>1, <1>2, <1>4 DEF Written
    <2>. QED BY <1>1, <1>2, <1>3, <1>4, <1>7, <1>8, <1>9, <2>1, OneMoves DEF FlagInv, Flagging, FlagsTyped
  <1>11. OneByOneDefault'
    <2>1. \A d \in Setters \ {c} : Uncleared(d)' = Uncleared(d)
      BY <1>2, <1>5 DEF Uncleared, Flagged!Narrow, Flagged!Live, Flagged!DefaultsOf
    <2>2. Setter(c)' => r.def = "yes"
      BY <1>4, <1>5 DEF Setter
    <2>3. ASSUME ~raced' PROVE NarrowAlone'
      <3>1. ~Flagged!Races(c) /\ NarrowAlone
        BY <1>2, <2>3 DEF FlagInv, OneByOneDefault
      <3>2. r.def = "yes" => \A d \in Setters \ {c} :
               Setter(d) => ~Flagged!Narrow(r) /\ ~Flagged!Narrow(setting[d])
        BY <1>1, <3>1 DEF Flagged!Races, Flagged!SetsElsewhere, Setter
      <3>3. Flagged!Narrow(setting[c])' <=> Flagged!Narrow(r)
        BY <1>2, <1>4, <1>5 DEF Flagged!Narrow
      <3>4. \A d \in Setters \ {c} : /\ Setter(d)' <=> Setter(d)
                                     /\ Flagged!Narrow(setting[d])' <=> Flagged!Narrow(setting[d])
        BY <1>2, <1>5 DEF Setter, Flagged!Open, Flagged!Narrow
      <3>. QED BY <2>2, <3>1, <3>2, <3>3, <3>4 DEF NarrowAlone
    <2>4. ASSUME ~raced' PROVE Covers(c)'
      <3>1. SUFFICES ASSUME Setter(c)' PROVE Covers(c)'
        BY DEF Covers
      <3>2. Uncleared(c)' = IF Flagged!Narrow(r) THEN Flagged!DefaultsOf(item) ELSE Flagged!Live
        BY <1>2, <1>4, <1>5 DEF Uncleared, Flagged!Narrow, Flagged!Live, Flagged!DefaultsOf
      <3>3. Flagged!DefaultsOf(item) \subseteq Flagged!Live
        BY DEF Flagged!DefaultsOf, Flagged!Live
      <3>4. CASE Flagged!Clears(r)
        <4>1. (IF Flagged!Narrow(r) THEN Flagged!DefaultsOf(item) ELSE Flagged!Live)
                \subseteq Flagged!Targets(c) \cup (IF r.op = "update" THEN {r.id} ELSE {})
          BY <1>1, <3>3 DEF Flagged!Targets, Flagged!DefaultsOf
        <4>. QED BY <1>4, <1>5, <3>2, <3>4, <4>1 DEF Covers
      <3>5. CASE ~Flagged!Clears(r)
        <4>1. r.op = "save" /\ r.def = "yes"
          BY <2>2, <3>1, <3>5 DEF Flagged!Clears
        <4>2. Flagged!Live = {}
          BY <1>1, <1>2, <2>4, <4>1 DEF Flagged!Races
        <4>. QED BY <1>4, <1>5, <3>2, <3>3, <3>5, <4>2 DEF Covers
      <3>. QED BY <3>4, <3>5
    <2>5. ~raced' => Flagged!AtMostOne(item)'
      BY <1>2 DEF FlagInv, OneByOneDefault, Flagged!AtMostOne, Flagged!DefaultsOf
    <2>. QED BY <1>2, <1>5, <2>1, <2>3, <2>4, <2>5, OneMovesDefault
  <1>. QED BY <1>10, <1>11 DEF FlagInv

\* It has the locks and looks at the rows again.
LEMMA ClearFlags ==
  ASSUME FlagInv, NEW c \in Setters, Flagged!Clear(c)
  PROVE  FlagInv'
  <1>1. PICK r \in BusySettings : setting[c] = r
    BY BusyFact DEF FlagInv, Flagging, Flagged!Clear, Busy, Under
  <1> DEFINE now == {i \in r.targets \cap Flagged!Live : Flagged!Narrow(r) => item[i] = "default"}
             cleared == [i \in now |-> "plain"]
             x == IF r.op = "payoutCreate" THEN [r EXCEPT !.at = "write"]
                  ELSE [r EXCEPT !.at = "write", !.writes = cleared]
  <1>2. /\ r.at = "clear" /\ Busy(c) /\ Written(c) = {} /\ Setter(c)
        /\ OperationKnown(c) /\ Flagged!Clears(r) /\ r.def = "yes"
    BY <1>1 DEF FlagInv, Flagging, Flagged!Clear, Busy, Under, WritesKnown, Setter, Flagged!Open,
                OperationKnown, Flagged!Clears
  <1>3. /\ setting' = [setting EXCEPT ![c] = x] /\ UNCHANGED <<kind, raced>>
        /\ \A i \in r.targets : ~Flagged!Locked(i, c)
        /\ r.op = "payoutCreate" => item' = [i \in Ids |-> IF i \in now THEN "plain" ELSE item[i]]
        /\ r.op # "payoutCreate" => item' = item
    BY <1>1 DEF Flagged!Clear, Flagged!Goto
  <1>4. now \subseteq Ids /\ cleared \in [now -> Values] /\ DOMAIN cleared = now
    BY DEF Flagged!Live, Values
  <1>5. cleared \in Writings
    BY <1>4, WritingsFact
  <1>6. /\ x \in BusySettings /\ x.at = "write"
        /\ x.op = r.op /\ x.id = r.id /\ x.def = r.def /\ x.was = r.was
        /\ x.writes = (IF r.op = "payoutCreate" THEN r.writes ELSE cleared)
    BY <1>5 DEF BusySettings, Under
  <1>7. \A i \in now : item[i] \in {"plain", "default"} /\ \A d \in Setters \ {c} : i \notin Written(d)
    BY <1>3, LockedFact DEF Flagged!Live
  <1> HIDE DEF x, now
  <1>8. setting'[c] = x /\ \A d \in Setters \ {c} : setting'[d] = setting[d]
    BY <1>3 DEF FlagInv, Flagging, FlagsTyped
  <1>9. /\ Written(c)' = IF r.op = "payoutCreate" THEN {} ELSE now
        /\ Written(c)' = DOMAIN x.writes
    BY <1>1, <1>2, <1>6, <1>8 DEF Written
  <1>10. OperationKnown(c)'
    BY <1>1, <1>2, <1>3, <1>6, <1>8 DEF OperationKnown, Busy, Under
  <1>11. Flagged!Clears(x)
    BY <1>2, <1>6 DEF Flagged!Clears
  <1>12. WritesKnown(c)'
    <2>1. \A i \in Written(c)' : Cleared(c, i)'
      BY <1>3, <1>4, <1>6, <1>7, <1>8, <1>9 DEF Cleared
    <2>. QED BY <1>6, <1>8, <1>11, <2>1 DEF WritesKnown
  <1>13. Flagging'
    <2>1. item' \in [Ids -> {"none"} \cup Values]
      BY <1>3 DEF FlagInv, Flagging, FlagsTyped, Values
    <2>2. \A i \in Ids : item'[i] # item[i] => i \in now /\ item'[i] = "plain"
      BY <1>3
    <2>3. \A d \in Setters \ {c} : \A i \in Written(d) : item'[i] = item[i]
      BY <1>7, <2>2, BusyFact DEF FlagInv, Flagging
    <2>4. \A i \in Ids : item[i] # "none" <=> item'[i] # "none"
      BY <1>7, <2>2
    <2>5. \A d \in Setters \ {c} : DOMAIN x.writes \cap Written(d) = {}
      BY <1>7, <1>9
    <2>. QED BY <1>1, <1>2, <1>3, <1>6, <1>10, <1>12, <2>1, <2>3, <2>4, <2>5, OneMoves
             DEF FlagInv, Flagging, FlagsTyped
  <1>14. OneByOneDefault'
    <2>1. /\ Flagged!DefaultsOf(item)' \subseteq Flagged!DefaultsOf(item)
          /\ Flagged!Live' \subseteq Flagged!Live
      BY <1>3, <1>7 DEF Flagged!DefaultsOf, Flagged!Live
    <2>2. \A d \in Setters \ {c} : Uncleared(d)' \subseteq Uncleared(d)
      BY <1>3, <1>8, <2>1 DEF Uncleared, Flagged!Narrow
    <2>3. ~raced => NarrowAlone'
      BY <1>1, <1>2, <1>3, <1>6, <1>8, StaysAlone DEF FlagInv, OneByOneDefault
    <2>4. ~raced => Flagged!AtMostOne(item)'
      BY <2>1 DEF FlagInv, OneByOneDefault, Flagged!AtMostOne
    <2>5. ASSUME ~raced PROVE Covers(c)'
      <3>1. Uncleared(c) \subseteq r.targets \cup (IF r.op = "update" THEN {r.id} ELSE {})
        BY <1>1, <1>2, <2>5 DEF FlagInv, OneByOneDefault, Covers
      <3>2. Uncleared(c) \subseteq Flagged!Live /\ (Flagged!Narrow(r) => Uncleared(c) = Flagged!DefaultsOf(item))
        BY <1>1 DEF Uncleared, Flagged!DefaultsOf, Flagged!Live
      <3>3. Uncleared(c) \subseteq now \cup {r.id}
        BY <3>1, <3>2 DEF now, Flagged!DefaultsOf
      <3>4. Uncleared(c)' \subseteq Uncleared(c)
        BY <1>1, <1>3, <1>6, <1>8, <2>1 DEF Uncleared, Flagged!Narrow
      <3>5. CASE r.op # "payoutCreate"
        BY <1>6, <1>8, <1>9, <3>3, <3>4, <3>5 DEF Covers
      <3>6. CASE r.op = "payoutCreate"
        <4>1. kind = "account" /\ Uncleared(c)' = Flagged!DefaultsOf(item)'
          BY <1>1, <1>2, <1>3, <3>6 DEF OperationKnown, Uncleared, Flagged!Narrow
        <4>2. Flagged!DefaultsOf(item)' \cap now = {}
          BY <1>3, <3>6 DEF Flagged!DefaultsOf
        <4>. QED BY <1>6, <1>8, <3>3, <3>4, <4>1, <4>2 DEF Covers
      <3>. QED BY <3>5, <3>6
    <2>. QED BY <1>3, <1>8, <2>2, <2>3, <2>4, <2>5, OneMovesDefault
  <1>. QED BY <1>13, <1>14 DEF FlagInv

\* It has written its row, which it keeps locked.
LEMMA WriteFlags ==
  ASSUME FlagInv, NEW c \in Setters, Flagged!Write(c)
  PROVE  FlagInv'
  <1>1. PICK r \in BusySettings : setting[c] = r
    BY BusyFact DEF FlagInv, Flagging, Flagged!Write, Busy, Under
  <1> DEFINE value == CASE r.def = "yes" -> "default" [] r.def = "no" -> "plain" [] r.def = "kept" -> item[r.id]
             written == IF item[r.id] = "gone" THEN "gone" ELSE value
             writes == [i \in DOMAIN r.writes \cup {r.id} |-> IF i = r.id THEN written ELSE r.writes[i]]
             x == [r EXCEPT !.at = "commit", !.writes = writes]
  <1>2. /\ r.at = "write" /\ Busy(c) /\ r.id \in Ids /\ item[r.id] \in {"none"} \cup Values
        /\ OperationKnown(c) /\ OwnRow(c) /\ WritesKnown(c)
    BY <1>1 DEF FlagInv, Flagging, FlagsTyped, Flagged!Write, Busy, Under, BusySettings
  <1>3. /\ setting' = [setting EXCEPT ![c] = x] /\ UNCHANGED <<kind, item, raced>>
        /\ ~Flagged!Locked(r.id, c)
        /\ item[r.id] = "gone" => kind = "address"
    BY <1>1 DEF Flagged!Write, Flagged!Goto
  <1>4. /\ Written(c) = DOMAIN r.writes /\ Written(c) \subseteq Ids
        /\ \A i \in Written(c) : r.writes[i] = "plain" /\ item[i] \in {"plain", "default"}
    BY <1>1, <1>2, BusyFact DEF FlagInv, Flagging, Written, WritesKnown, Cleared
  <1>5. /\ r.def = "yes" => value = "default"
        /\ r.def = "no" => value = "plain"
        /\ r.def = "kept" => value = item[r.id] /\ item[r.id] # "none"
    BY <1>1, <1>2 DEF OperationKnown, OwnRow, Flagged!Inserts
  <1>6. written \in Values
    <2>1. r.def \in {"yes", "no", "kept"}
      BY DEF BusySettings
    <2> HIDE DEF value
    <2>2. value \in Values
      BY <1>2, <1>5, <2>1 DEF Values
    <2>. QED BY <2>2 DEF Values
  <1> HIDE DEF value
  <1>7. writes \in Writings
    <2>1. writes \in [DOMAIN r.writes \cup {r.id} -> Values]
      BY <1>4, <1>6 DEF Values
    <2>2. DOMAIN r.writes \cup {r.id} \in SUBSET Ids
      BY <1>2, <1>4
    <2>. QED BY <2>1, <2>2, WritingsFact
  <1>8. /\ DOMAIN writes = Written(c) \cup {r.id}
        /\ writes[r.id] = written
        /\ \A i \in Written(c) \ {r.id} : writes[i] = "plain"
    BY <1>4
  <1> HIDE DEF writes
  <1>9. /\ x \in BusySettings /\ x.at = "commit" /\ x.op = r.op /\ x.id = r.id /\ x.def = r.def
        /\ x.was = r.was /\ x.writes = writes
    BY <1>7 DEF BusySettings, Under
  <1> HIDE DEF x
  <1>10. setting'[c] = x /\ \A d \in Setters \ {c} : setting'[d] = setting[d]
    BY <1>3 DEF FlagInv, Flagging, FlagsTyped
  <1>11. Written(c)' = Written(c) \cup {r.id} /\ Written(c)' = DOMAIN x.writes
    BY <1>8, <1>9, <1>10 DEF Written
  <1>12. OperationKnown(c)'
    BY <1>1, <1>2, <1>3, <1>9, <1>10 DEF OperationKnown, Busy, Under
  <1>13. Flagged!Clears(x) <=> Flagged!Clears(r)
    BY <1>9 DEF Flagged!Clears
  <1>14. WritesKnown(c)'
    <2>1. \A i \in Written(c)' \ {r.id} : Cleared(c, i)'
      BY <1>3, <1>4, <1>8, <1>9, <1>10, <1>11 DEF Cleared
    <2>2. ~Flagged!Clears(x) => Written(c)' \subseteq {r.id}
      BY <1>1, <1>2, <1>11, <1>13 DEF WritesKnown
    <2>3. item[r.id] = "gone" => kind # "account" /\ writes[r.id] = "gone"
      BY <1>3, <1>8
    <2>4. item[r.id] # "gone" => writes[r.id] = value
      BY <1>8
    <2>. QED BY <1>3, <1>5, <1>9, <1>10, <1>11, <2>1, <2>2, <2>3, <2>4 DEF WritesKnown
  <1>15. Flagging'
    <2>1. \A d \in Setters \ {c} : DOMAIN x.writes \cap Written(d) = {}
      BY <1>3, <1>11, LockedFact DEF FlagInv, Flagging, LocksApart
    <2>. QED BY <1>1, <1>2, <1>3, <1>9, <1>12, <1>14, <2>1, OneMoves DEF FlagInv, Flagging, FlagsTyped
  <1>16. OneByOneDefault'
    <2>1. \A d \in Setters : d # c => Uncleared(d)' = Uncleared(d)
      BY <1>3, <1>10 DEF Uncleared, Flagged!Narrow, Flagged!Live, Flagged!DefaultsOf
    <2>2. Setter(c)' <=> Setter(c)
      BY <1>1, <1>2, <1>9, <1>10 DEF Setter, Flagged!Open
    <2>3. ~raced => NarrowAlone' /\ Flagged!AtMostOne(item)'
      BY <1>1, <1>3, <1>9, <1>10, <2>2, StaysAlone DEF FlagInv, OneByOneDefault, Flagged!AtMostOne, Flagged!DefaultsOf
    <2>4. ~raced => Covers(c)'
      <3>1. Uncleared(c)' = Uncleared(c)
        BY <1>1, <1>3, <1>9, <1>10 DEF Uncleared, Flagged!Narrow, Flagged!Live, Flagged!DefaultsOf
      <3>. QED BY <1>1, <1>2, <1>9, <1>10, <1>11, <2>2, <3>1 DEF FlagInv, OneByOneDefault, Covers
    <2>. QED BY <1>3, <1>10, <2>1, <2>3, <2>4, OneMovesDefault
  <1>. QED BY <1>15, <1>16 DEF FlagInv

\* What a commit does to the flags.
LEMMA CommitFact ==
  ASSUME FlagInv, NEW c \in Setters, Flagged!Commit(c)
  PROVE  /\ setting[c] \in BusySettings /\ Busy(c) /\ setting[c].at = "commit"
         /\ setting[c].id \in Written(c) /\ setting[c].op # "delete"
         /\ item' \in [Ids -> {"none"} \cup Values]
         /\ \A i \in Ids \ Written(c) : item'[i] = item[i]
         /\ \A i \in Written(c) : item'[i] = setting[c].writes[i] /\ item'[i] # "none"
         /\ \A i \in Written(c) \ {setting[c].id} : item[i] \in {"plain", "default"} /\ item'[i] = "plain"
         /\ setting[c].def # "yes" =>
                Written(c) = {setting[c].id} /\ Flagged!DefaultsOf(item)' \subseteq Flagged!DefaultsOf(item)
         /\ ~Flagged!Inserts(setting[c]) => Flagged!Live' \subseteq Flagged!Live
  <1>1. PICK r \in BusySettings : setting[c] = r
    BY BusyFact DEF FlagInv, Flagging, Flagged!Commit, Busy, Under
  <1>2. /\ r.at = "commit" /\ Busy(c) /\ OwnRow(c) /\ OperationKnown(c) /\ WritesKnown(c)
        /\ item' = [i \in Ids |-> IF i \in Written(c) THEN r.writes[i] ELSE item[i]]
        /\ r.id \in Ids /\ item \in [Ids -> {"none"} \cup Values] /\ r.def \in {"yes", "no", "kept"}
    BY <1>1 DEF FlagInv, Flagging, FlagsTyped, Flagged!Commit, Busy, Under, Written, BusySettings
  <1>3. r.id \in Written(c) /\ r.op # "delete" /\ Written(c) \subseteq Ids
        /\ \A i \in Written(c) : r.writes[i] \in Values
    BY <1>1, <1>2, BusyFact DEF FlagInv, Flagging, WritesKnown, OperationKnown
  <1>4. /\ item' \in [Ids -> {"none"} \cup Values]
        /\ \A i \in Ids \ Written(c) : item'[i] = item[i]
        /\ \A i \in Written(c) : item'[i] = r.writes[i] /\ item'[i] # "none"
    BY <1>2, <1>3 DEF Values
  <1>5. \A i \in Written(c) \ {r.id} : item[i] \in {"plain", "default"} /\ item'[i] = "plain"
    BY <1>1, <1>2, <1>4 DEF WritesKnown, Cleared
  <1>6. ASSUME r.def # "yes"
        PROVE  Written(c) = {r.id} /\ Flagged!DefaultsOf(item)' \subseteq Flagged!DefaultsOf(item)
    <2>1. Written(c) = {r.id}
      BY <1>1, <1>2, <1>3, <1>6 DEF WritesKnown, Flagged!Clears
    <2>2. r.writes[r.id] = "default" => item[r.id] = "default"
      BY <1>1, <1>2, <1>6 DEF WritesKnown
    <2>. QED BY <1>4, <2>1, <2>2 DEF Flagged!DefaultsOf
  <1>7. ASSUME ~Flagged!Inserts(r) PROVE Flagged!Live' \subseteq Flagged!Live
    <2>1. item[r.id] \in Values
      BY <1>1, <1>2, <1>7 DEF OwnRow
    <2>2. item[r.id] = "gone" => item'[r.id] = "gone"
      BY <1>1, <1>2, <1>3, <1>4 DEF WritesKnown
    <2>3. \A i \in Ids : i # r.id /\ item'[i] \in {"plain", "default"} => item[i] \in {"plain", "default"}
      BY <1>4, <1>5
    <2>. QED BY <2>1, <2>2, <2>3 DEF Flagged!Live, Values
  <1>. QED BY <1>1, <1>2, <1>3, <1>4, <1>5, <1>6, <1>7

LEMMA CommitFlags ==
  ASSUME FlagInv, NEW c \in Setters, Flagged!Commit(c)
  PROVE  FlagInv'
  <1> DEFINE r == setting[c]
  <1>1. /\ setting' = [setting EXCEPT ![c] = Flagged!Done] /\ kind' = kind
        /\ raced' = (raced \/ (Flagged!Inserts(r) /\ Flagged!SetsElsewhere(c) # {}))
    BY DEF Flagged!Commit, Flagged!Goto
  <1>2. setting'[c] = Flagged!Done /\ \A d \in Setters \ {c} : setting'[d] = setting[d]
    BY <1>1 DEF FlagInv, Flagging, FlagsTyped
  <1>3. ~Busy(c)' /\ ~Setter(c)' /\ DOMAIN Flagged!Done.writes = {}
    BY <1>2, NothingWritten DEF Busy, Under, Setter, Flagged!Open, Flagged!Done
  <1>4. OperationKnown(c)' /\ WritesKnown(c)'
    BY <1>2, <1>3 DEF OperationKnown, WritesKnown, Busy, Under
  <1>5. Written(c) \subseteq Ids /\ \A d \in Setters \ {c} : Written(d) \subseteq Ids /\ Written(d) \cap Written(c) = {}
    BY BusyFact DEF FlagInv, Flagging, LocksApart
  <1>6. Flagging'
    <2>1. \A d \in Setters \ {c} : \A i \in Written(d) : item'[i] = item[i]
      BY <1>5, CommitFact
    <2>2. \A i \in Ids : item[i] # "none" => item'[i] # "none"
      BY CommitFact
    <2>3. ASSUME NEW i \in Ids, item[i] = "none", item'[i] # "none" PROVE Flagged!Inserts(r) /\ i = r.id
      <3>1. i = r.id
        BY <2>3, CommitFact
      <3>. QED BY <2>3, <3>1, CommitFact DEF FlagInv, Flagging, OwnRow
    <2>4. raced' \in BOOLEAN
      BY <1>1 DEF FlagInv, Flagging, FlagsTyped
    <2>. QED BY <1>1, <1>3, <1>4, <2>1, <2>2, <2>3, <2>4, CommitFact, OneMoves DEF FlagInv, Flagging
  <1>7. OneByOneDefault'
    <2>1. SUFFICES ASSUME ~raced'
                   PROVE  /\ \A d \in Setters \ {c} : Setter(d) => Uncleared(d)' \subseteq Uncleared(d)
                          /\ Flagged!AtMostOne(item)'
      <3>1. ~raced' => NarrowAlone'
        BY <1>1, <1>2, <1>3, StaysAlone DEF FlagInv, OneByOneDefault
      <3>2. Covers(c)'
        BY <1>3 DEF Covers
      <3>. QED BY <1>1, <1>2, <2>1, <3>1, <3>2, OneMovesDefault
    <2>2. /\ ~raced /\ NarrowAlone /\ Flagged!AtMostOne(item) /\ Covers(c)
          /\ Flagged!Inserts(r) => \A d \in Setters \ {c} : ~Setter(d)
      BY <1>1, <2>1 DEF FlagInv, OneByOneDefault, Flagged!SetsElsewhere, Setter
    <2>3. r.def = "yes" => Setter(c)
      BY CommitFact DEF Setter, Flagged!Open
    <2>4. ASSUME NEW d \in Setters \ {c}, Setter(d) PROVE Uncleared(d)' \subseteq Uncleared(d)
      <3>1. Flagged!Narrow(setting[d])' <=> Flagged!Narrow(setting[d])
        BY <1>1, <1>2 DEF Flagged!Narrow
      <3>2. CASE Flagged!Narrow(setting[d])
        <4>1. r.def # "yes"
          BY <2>2, <2>3, <2>4, <3>2 DEF NarrowAlone
        <4>. QED BY <3>1, <3>2, <4>1, CommitFact DEF Uncleared
      <3>3. CASE ~Flagged!Narrow(setting[d])
        BY <2>2, <2>4, <3>1, <3>3, CommitFact DEF Uncleared
      <3>. QED BY <3>2, <3>3
    <2>5. Flagged!AtMostOne(item)'
      <3>1. CASE r.def # "yes"
        BY <2>2, <3>1, CommitFact DEF Flagged!AtMostOne
      <3>2. CASE r.def = "yes"
        <4>1. Uncleared(c) \subseteq Written(c) \cup {r.id}
          BY <2>2, <2>3, <3>2, CommitFact DEF Covers
        <4>2. Flagged!DefaultsOf(item) \subseteq Uncleared(c)
          BY DEF Uncleared, Flagged!DefaultsOf, Flagged!Live
        <4>3. ASSUME NEW i \in Flagged!DefaultsOf(item)', i # r.id PROVE FALSE
          <5>1. i \in Ids /\ item'[i] = "default"
            BY <4>3 DEF Flagged!DefaultsOf
          <5>2. i \notin Written(c)
            BY <4>3, <5>1, CommitFact
          <5>3. i \in Flagged!DefaultsOf(item)
            BY <5>1, <5>2, CommitFact DEF Flagged!DefaultsOf
          <5>. QED BY <4>1, <4>2, <4>3, <5>2, <5>3
        <4>. QED BY <4>3 DEF Flagged!AtMostOne
      <3>. QED BY <3>1, <3>2
    <2>. QED BY <2>4, <2>5
  <1>. QED BY <1>6, <1>7 DEF FlagInv

LEMMA RemoveFlags ==
  ASSUME FlagInv, NEW c \in Setters, Flagged!Remove(c)
  PROVE  FlagInv'
  <1>1. PICK r \in BusySettings : setting[c] = r
    BY BusyFact DEF FlagInv, Flagging, Flagged!Remove, Busy, Under
  <1>2. /\ r.at = "begin" /\ r.op = "delete" /\ r.id \in Ids /\ OwnRow(c) /\ Busy(c)
        /\ setting' = [setting EXCEPT ![c] = Flagged!Done] /\ UNCHANGED <<kind, raced>>
        /\ item' = [item EXCEPT ![r.id] = "gone"]
        /\ ~Flagged!Locked(r.id, c)
    BY <1>1 DEF FlagInv, Flagging, Flagged!Remove, Flagged!Goto, Busy, Under, BusySettings
  <1>3. setting'[c] = Flagged!Done /\ \A d \in Setters \ {c} : setting'[d] = setting[d]
    BY <1>2 DEF FlagInv, Flagging, FlagsTyped
  <1>4. ~Busy(c)' /\ ~Setter(c)' /\ DOMAIN Flagged!Done.writes = {}
    BY <1>3, NothingWritten DEF Busy, Under, Setter, Flagged!Open, Flagged!Done
  <1>5. OperationKnown(c)' /\ WritesKnown(c)'
    BY <1>3, <1>4 DEF OperationKnown, WritesKnown, Busy, Under
  <1>6. item[r.id] # "none"
    BY <1>1, <1>2 DEF OwnRow, Flagged!Inserts
  <1>7. /\ item' \in [Ids -> {"none"} \cup Values]
        /\ \A i \in Ids : i # r.id => item'[i] = item[i]
        /\ item'[r.id] = "gone"
    BY <1>2 DEF FlagInv, Flagging, FlagsTyped, Values
  <1>8. Flagging'
    <2>1. \A d \in Setters \ {c} : \A i \in Written(d) : item'[i] = item[i]
      BY <1>2, <1>7, LockedFact, BusyFact DEF FlagInv, Flagging
    <2>2. \A i \in Ids : item[i] # "none" <=> item'[i] # "none"
      BY <1>6, <1>7
    <2>. QED BY <1>2, <1>4, <1>5, <1>7, <2>1, <2>2, OneMoves DEF FlagInv, Flagging, FlagsTyped
  <1>9. OneByOneDefault'
    <2>1. Flagged!Live' \subseteq Flagged!Live /\ Flagged!DefaultsOf(item)' \subseteq Flagged!DefaultsOf(item)
      BY <1>7 DEF Flagged!Live, Flagged!DefaultsOf
    <2>2. \A d \in Setters \ {c} : Uncleared(d)' \subseteq Uncleared(d)
      BY <1>2, <1>3, <2>1 DEF Uncleared, Flagged!Narrow
    <2>3. ~raced => NarrowAlone' /\ Flagged!AtMostOne(item)'
      BY <1>2, <1>3, <1>4, <2>1, StaysAlone DEF FlagInv, OneByOneDefault, Flagged!AtMostOne
    <2>4. Covers(c)'
      BY <1>4 DEF Covers
    <2>. QED BY <1>2, <1>3, <2>2, <2>3, <2>4, OneMovesDefault
  <1>. QED BY <1>8, <1>9 DEF FlagInv

Profile ==
    \E i \in Ids :
        Flagged!ProfileSetDefault(i) \/ Flagged!ProfileRemove(i) \/ \E d \in BOOLEAN : Flagged!ProfileAdd(i, d)

\* The aggregate in memory; no request is about it.
LEMMA ProfileFlags ==
  ASSUME FlagInv, Profile
  PROVE  FlagInv'
  <1>1. kind = "profile" /\ UNCHANGED <<kind, setting, raced>>
    BY DEF Profile, Flagged!ProfileSetDefault, Flagged!ProfileRemove, Flagged!ProfileAdd
  <1>2. \A c \in Setters : ~Busy(c) /\ Written(c) = {} /\ ~Setter(c)
    BY <1>1, BusyFact DEF FlagInv, Flagging, OperationKnown
  <1>3. \A c \in Setters : ~Busy(c)' /\ Written(c)' = {} /\ ~Setter(c)'
    BY <1>1, <1>2 DEF Busy, Written, Setter, Flagged!Open
  <1>4. item' \in [Ids -> {"none"} \cup Values] /\ (Flagged!AtMostOne(item) => Flagged!AtMostOne(item)')
    <2>0. item \in [Ids -> {"none"} \cup Values]
      BY DEF FlagInv, Flagging, FlagsTyped
    <2>1. ASSUME NEW i \in Ids, Flagged!ProfileSetDefault(i)
          PROVE  item' \in [Ids -> {"none"} \cup Values] /\ Flagged!AtMostOne(item)'
      BY <2>0, <2>1 DEF Flagged!ProfileSetDefault, Flagged!Live, Flagged!AtMostOne, Flagged!DefaultsOf, Values
    <2>2. ASSUME NEW i \in Ids, NEW d \in BOOLEAN, Flagged!ProfileAdd(i, d)
          PROVE  item' \in [Ids -> {"none"} \cup Values] /\ (Flagged!AtMostOne(item) => Flagged!AtMostOne(item)')
      <3> DEFINE others == [j \in Ids |-> IF d /\ item[j] = "default" THEN "plain" ELSE item[j]]
                 new == IF d \/ Flagged!Live = {} THEN "default" ELSE "plain"
      <3>1. item' = IF i \in Flagged!Live THEN others ELSE [others EXCEPT ![i] = new]
        BY <2>2 DEF Flagged!ProfileAdd
      <3>2. others \in [Ids -> {"none"} \cup Values] /\ new \in Values
        BY <2>0 DEF Values
      <3>3. \A j \in Ids : others[j] = "default" => item[j] = "default" /\ ~d /\ j \in Flagged!Live
        BY <2>0 DEF Flagged!Live
      <3>4. CASE i \in Flagged!Live
        BY <3>1, <3>2, <3>3, <3>4 DEF Flagged!AtMostOne, Flagged!DefaultsOf
      <3>5. CASE i \notin Flagged!Live
        <4> HIDE DEF others
        <4>1. item' = [others EXCEPT ![i] = new]
          BY <3>1, <3>5
        <4>2. CASE new = "default"
          BY <3>2, <3>3, <4>1, <4>2 DEF Flagged!AtMostOne, Flagged!DefaultsOf
        <4>3. CASE new # "default"
          <5> HIDE DEF new
          <5>. QED BY <3>2, <3>3, <4>1, <4>3 DEF Flagged!AtMostOne, Flagged!DefaultsOf
        <4>. QED BY <3>2, <4>1, <4>2, <4>3
      <3>. QED BY <3>4, <3>5
    <2>3. ASSUME NEW i \in Ids, Flagged!ProfileRemove(i)
          PROVE  item' \in [Ids -> {"none"} \cup Values] /\ (Flagged!AtMostOne(item) => Flagged!AtMostOne(item)')
      <3> DEFINE left == [item EXCEPT ![i] = "none"]
      <3>1. left \in [Ids -> {"none"} \cup Values] /\ \A j \in Ids : left[j] = "default" => item[j] = "default"
        BY <2>0
      <3> HIDE DEF left
      <3>2. CASE item' = left
        BY <3>1, <3>2 DEF Flagged!AtMostOne, Flagged!DefaultsOf
      <3>3. ASSUME NEW j \in Ids, item' = [left EXCEPT ![j] = "default"], Flagged!DefaultsOf(item) = {}
            PROVE  item' \in [Ids -> {"none"} \cup Values] /\ Flagged!AtMostOne(item)'
        BY <3>1, <3>3 DEF Flagged!AtMostOne, Flagged!DefaultsOf, Values
      <3>. QED BY <2>3, <3>2, <3>3 DEF Flagged!ProfileRemove, Flagged!Live, left
    <2>. QED BY <2>1, <2>2, <2>3 DEF Profile
  <1>5. Flagging'
    <2>1. FlagsTyped' /\ LocksApart'
      BY <1>1, <1>3, <1>4 DEF FlagInv, Flagging, FlagsTyped, LocksApart
    <2>2. ASSUME NEW c \in Setters PROVE OwnRow(c)' /\ OperationKnown(c)' /\ WritesKnown(c)'
      <3>1. setting'[c].at \notin Under
        BY <1>3 DEF Busy
      <3>. QED BY <1>3, <3>1 DEF OwnRow, OperationKnown, WritesKnown, Under
    <2>. QED BY <2>1, <2>2 DEF Flagging
  <1>6. OneByOneDefault'
    BY <1>1, <1>3, <1>4 DEF FlagInv, OneByOneDefault, NarrowAlone, Covers
  <1>. QED BY <1>5, <1>6 DEF FlagInv

LEMMA RequestFlags ==
  ASSUME FlagInv, NEW c \in Setters, NEW i \in Ids, Flagged!Request(c, i)
  PROVE  FlagInv'
  <1>1. \A j \in Flagged!Live : item[j] # "none"
    BY DEF Flagged!Live
  <1>2. ASSUME NEW def \in {"yes", "no"},
               \/ Flagged!CreateAddress(c, i, def) \/ Flagged!AddImage(c, i, def)
               \/ Flagged!CreateAccount(c, i, def) \/ Flagged!PayoutsCreate(c, i, def)
               \/ Flagged!SaveAccount(c, i, def)
        PROVE  FlagInv'
    BY <1>2, BeginFlags DEF Operations, Flagged!CreateAddress, Flagged!AddImage, Flagged!CreateAccount,
       Flagged!PayoutsCreate, Flagged!SaveAccount, Flagged!SaveNew
  <1>3. CASE Flagged!SaveAddress(c, i)
    BY <1>3, BeginFlags DEF Operations, Flagged!SaveAddress, Flagged!SaveNew
  <1>4. ASSUME NEW def \in {"yes", "no", "kept"},
               Flagged!UpdateAddress(c, i, def) \/ Flagged!UpdateAccount(c, i, def)
        PROVE  FlagInv'
    BY <1>1, <1>4, BeginFlags DEF Operations, Flagged!UpdateAddress, Flagged!UpdateAccount
  <1>5. ASSUME \/ Flagged!SetDefaultAddress(c, i) \/ Flagged!RepositorySet(c, i) \/ Flagged!SetPrimary(c, i)
               \/ Flagged!SetDefaultAccount(c, i) \/ Flagged!PayoutsSetDefault(c, i)
        PROVE  FlagInv'
    BY <1>1, <1>5, BeginFlags DEF Operations, Flagged!SetDefaultAddress, Flagged!RepositorySet,
       Flagged!SetPrimary, Flagged!SetDefaultAccount, Flagged!PayoutsSetDefault
  <1>6. ASSUME \/ Flagged!DeleteAddress(c, i) \/ Flagged!DeleteImage(c, i)
               \/ Flagged!DeleteAccount(c, i) \/ Flagged!PayoutsDelete(c, i)
        PROVE  FlagInv'
    BY <1>1, <1>6, BeginFlags DEF Operations, Flagged!DeleteAddress, Flagged!DeleteImage,
       Flagged!DeleteAccount, Flagged!PayoutsDelete, Flagged!Deletable
  <1>. QED BY <1>2, <1>3, <1>4, <1>5, <1>6 DEF Flagged!Request, Flagged!Flags

-----------------------------------------------------------------------------
(* The theorems about defaults.                                             *)

LEMMA InitFlags == Flagged!Init => FlagInv
  <1>. SUFFICES ASSUME Flagged!Init PROVE FlagInv
    OBVIOUS
  <1>1. /\ item \in [Ids -> {"none"} \cup Values] /\ Flagged!AtMostOne(item) /\ raced = FALSE
        /\ setting = [c \in Setters |-> Flagged!Idle]
    BY DEF Flagged!Init, Values
  <1>2. FlagsTyped
    BY <1>1 DEF FlagsTyped
  <1>3. \A c \in Setters : setting[c] = Flagged!Idle
    BY <1>1
  <1>4. \A c \in Setters : ~Busy(c) /\ Written(c) = {} /\ ~Setter(c)
    BY <1>2, <1>3, BusyFact
  <1>5. \A c \in Setters : OwnRow(c) /\ OperationKnown(c) /\ WritesKnown(c)
    BY <1>4 DEF OwnRow, OperationKnown, WritesKnown, Busy, Under
  <1>. QED BY <1>1, <1>2, <1>4, <1>5
       DEF FlagInv, Flagging, LocksApart, OneByOneDefault, NarrowAlone, Covers

LEMMA NextFlags == FlagInv /\ [Flagged!Next]_flags => FlagInv'
  <1>. SUFFICES ASSUME FlagInv, [Flagged!Next]_flags PROVE FlagInv'
    OBVIOUS
  <1>1. CASE UNCHANGED flags
    <2>1. UNCHANGED <<kind, item, setting, raced>>
      BY <1>1 DEF flags
    <2>2. FlagsTyped' /\ LocksApart'
      BY <2>1 DEF FlagInv, Flagging, FlagsTyped, LocksApart, Written
    <2>3. ASSUME NEW c \in Setters PROVE OwnRow(c)' /\ OperationKnown(c)' /\ WritesKnown(c)'
      <3>1. OwnRow(c)' /\ OperationKnown(c)'
        BY <2>1 DEF FlagInv, Flagging, OwnRow, OperationKnown, Busy, Flagged!Inserts, Flagged!Clears
      <3>2. WritesKnown(c)'
        BY <2>1 DEF FlagInv, Flagging, WritesKnown, Written, Cleared, Flagged!Clears
      <3>. QED BY <3>1, <3>2
    <2>4. \A c \in Setters : Setter(c)' <=> Setter(c)
      BY <2>1 DEF Setter, Flagged!Open
    <2>5. \A c \in Setters : Uncleared(c)' = Uncleared(c)
      BY <2>1 DEF Uncleared, Flagged!Narrow, Flagged!Live, Flagged!DefaultsOf
    <2>6. ~raced => NarrowAlone' /\ Flagged!AtMostOne(item)' /\ \A c \in Setters : Covers(c)'
      BY <2>1, <2>4, <2>5 DEF FlagInv, OneByOneDefault, NarrowAlone, Flagged!AtMostOne, Covers, Written,
         Flagged!Narrow, Flagged!DefaultsOf
    <2>. QED BY <2>1, <2>2, <2>3, <2>6 DEF FlagInv, Flagging, OneByOneDefault
  <1>2. ASSUME NEW c \in Setters, Flagged!Step(c) PROVE FlagInv'
    BY <1>2, StartFlags, ClearFlags, WriteFlags, CommitFlags, RemoveFlags, AbortFlags DEF Flagged!Step
  <1>. QED BY <1>1, <1>2, RequestFlags, ProfileFlags DEF Flagged!Next, Profile

LEMMA RequestReads ==
  ASSUME NEW c \in Setters, NEW i \in Ids, Flagged!Request(c, i)
  PROVE  item' = item
  <1>1. \A op, j, def : Flagged!Begin(c, op, j, def) => item' = item
    BY DEF Flagged!Begin
  <1>2. ASSUME NEW def,
               \/ Flagged!CreateAddress(c, i, def) \/ Flagged!AddImage(c, i, def)
               \/ Flagged!CreateAccount(c, i, def) \/ Flagged!PayoutsCreate(c, i, def)
               \/ Flagged!SaveAccount(c, i, def)
               \/ Flagged!UpdateAddress(c, i, def) \/ Flagged!UpdateAccount(c, i, def)
        PROVE  item' = item
    BY <1>1, <1>2 DEF Flagged!CreateAddress, Flagged!AddImage, Flagged!CreateAccount, Flagged!PayoutsCreate,
       Flagged!SaveAccount, Flagged!SaveNew, Flagged!UpdateAddress, Flagged!UpdateAccount
  <1>3. ASSUME \/ Flagged!SaveAddress(c, i) \/ Flagged!SetDefaultAddress(c, i) \/ Flagged!RepositorySet(c, i)
               \/ Flagged!SetPrimary(c, i) \/ Flagged!SetDefaultAccount(c, i)
               \/ Flagged!PayoutsSetDefault(c, i) \/ Flagged!DeleteAddress(c, i)
               \/ Flagged!DeleteImage(c, i) \/ Flagged!DeleteAccount(c, i) \/ Flagged!PayoutsDelete(c, i)
        PROVE  item' = item
    BY <1>1, <1>3 DEF Flagged!SaveAddress, Flagged!SaveNew, Flagged!SetDefaultAddress, Flagged!RepositorySet,
       Flagged!SetPrimary, Flagged!SetDefaultAccount, Flagged!PayoutsSetDefault, Flagged!DeleteAddress,
       Flagged!DeleteImage, Flagged!DeleteAccount, Flagged!PayoutsDelete
  <1>. QED BY <1>2, <1>3 DEF Flagged!Request

(* Each request holds what it has written, and while a default is being set   *)
(* no flag is left that its statements do not clear.                         *)
THEOREM FlagsInvariant == PartsSpec => []FlagInv
  <1>1. PartsInit => FlagInv
    BY InitFlags DEF PartsInit
  <1>2. FlagInv /\ [PartsNext]_<<part, vars, flags>> => FlagInv'
    BY NextFlags DEF PartsNext, CategoriesNext, DefaultsNext
  <1>. QED BY <1>1, <1>2, PTL DEF PartsSpec

(* There is at most one default address, account or primary image, in any    *)
(* overlap of requests that insert no row while a default is being set and   *)
(* do not set one by the narrow filter while another is being set.           *)
THEOREM AtMostOneDefault == PartsSpec => []OneDefault
  <1>1. FlagInv => OneDefault
    BY DEF OneDefault, Flagged!OneDefault, FlagInv, OneByOneDefault
  <1>. QED BY <1>1, FlagsInvariant, PTL

(* A seller's default account is lost only to an update that takes the flag  *)
(* away, to the two statements of createBankAccount of PayoutsService, and to *)
(* a deletion that was checked before the account became the default.        *)
THEOREM DefaultNotLost == PartsSpec => DefaultKept
  <1>1. FlagInv /\ [PartsNext]_<<part, vars, flags>> => [Flagged!KeepsDefault]_flags
    <2>. SUFFICES ASSUME FlagInv, Flagged!Next, kind = "account",
                         NEW k \in Flagged!DefaultsOf(item), Flagged!DefaultsOf(item)' = {}
                  PROVE  \E c \in Setters :
                             /\ setting'[c] # setting[c]
                             /\ \/ setting[c].op = "update" /\ setting[c].def = "no"
                                \/ setting[c].op = "payoutCreate" /\ setting[c].at = "clear"
                                \/ setting[c].op = "delete" /\ setting[c].was # "default"
      BY DEF PartsNext, CategoriesNext, DefaultsNext, Flagged!KeepsDefault, Flagged!DefaultsOf
    <2>2. k \in Ids /\ item[k] = "default" /\ item'[k] # "default"
      BY DEF Flagged!DefaultsOf
    <2>3. ~Profile
      BY DEF Profile, Flagged!ProfileSetDefault, Flagged!ProfileRemove, Flagged!ProfileAdd
    <2>4. \A c \in Setters, i \in Ids : ~Flagged!Request(c, i)
      BY <2>2, RequestReads
    <2>5. PICK c \in Setters : Flagged!Step(c)
      BY <2>3, <2>4 DEF Flagged!Next, Profile
    <2>6. Flagged!Clear(c) \/ Flagged!Commit(c) \/ Flagged!Remove(c)
      BY <2>2, <2>5 DEF Flagged!Step, Flagged!Start, Flagged!Write, Flagged!Abort
    <2>7. CASE Flagged!Clear(c)
      <3>1. setting[c].op = "payoutCreate" /\ setting[c].at = "clear"
        BY <2>2, <2>7 DEF Flagged!Clear
      <3>2. setting'[c].at = "write"
        <4>1. setting[c] \in BusySettings
          BY <3>1, BusyFact DEF FlagInv, Flagging, Busy, Under
        <4>2. setting' = [setting EXCEPT ![c] = [setting[c] EXCEPT !.at = "write"]]
          BY <2>7, <3>1 DEF Flagged!Clear, Flagged!Goto
        <4>. QED BY <4>1, <4>2 DEF FlagInv, Flagging, FlagsTyped, BusySettings
      <3>. QED BY <3>1, <3>2
    <2>8. ASSUME Flagged!Commit(c) \/ Flagged!Remove(c) PROVE setting'[c] # setting[c]
      <3>1. setting'[c] = Flagged!Done /\ setting[c].at \in {"begin", "commit"}
        BY <2>8 DEF Flagged!Commit, Flagged!Remove, Flagged!Goto, FlagInv, Flagging, FlagsTyped
      <3>. QED BY <3>1 DEF Flagged!Done
    <2>9. CASE Flagged!Commit(c)
      <3>1. /\ setting[c] \in BusySettings /\ setting[c].at = "commit" /\ setting[c].op # "delete"
            /\ Busy(c) /\ k \in Written(c) /\ setting[c].id \in Written(c)
            /\ \A i \in Written(c) : item'[i] = setting[c].writes[i] /\ i \in Ids
        BY <2>2, <2>9, CommitFact, BusyFact DEF FlagInv, Flagging
      <3>2. OperationKnown(c) /\ WritesKnown(c) /\ OwnRow(c)
        BY DEF FlagInv, Flagging
      <3>3. item[setting[c].id] # "gone"
        BY <3>1, <3>2 DEF WritesKnown
      <3>4. setting[c].def # "yes"
        BY <3>1, <3>2, <3>3 DEF WritesKnown, Flagged!DefaultsOf
      <3>5. k = setting[c].id
        BY <2>9, <3>1, <3>4, CommitFact
      <3>6. setting[c].def = "no"
        <4>1. setting[c].def # "kept"
          BY <2>2, <3>1, <3>2, <3>3, <3>5 DEF WritesKnown
        <4>. QED BY <3>1, <3>4, <4>1 DEF BusySettings
      <3>7. ~Flagged!Inserts(setting[c])
        BY <2>2, <3>1, <3>2, <3>5 DEF OwnRow
      <3>8. setting[c].op = "update"
        BY <3>1, <3>2, <3>6, <3>7 DEF BusySettings, Operations, OperationKnown, Flagged!Inserts
      <3>. QED BY <2>8, <2>9, <3>6, <3>8
    <2>10. CASE Flagged!Remove(c)
      <3>1. setting[c].op = "delete" /\ Busy(c)
        BY <2>10 DEF Flagged!Remove, Busy, Under
      <3>2. setting[c].was # "default"
        BY <3>1 DEF FlagInv, Flagging, OperationKnown
      <3>. QED BY <2>8, <2>10, <3>1, <3>2
    <2>. QED BY <2>6, <2>7, <2>9, <2>10
  <1>. QED BY <1>1, FlagsInvariant, PTL DEF PartsSpec, DefaultKept
=============================================================================
