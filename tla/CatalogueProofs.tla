--------------------------- MODULE CatalogueProofs ---------------------------
(***************************************************************************)
(* The search index follows the catalogue and agrees with it at rest, and   *)
(* uploads keep their objects, for any number of products, requests,        *)
(* commits, outages and assets.                                             *)
(***************************************************************************)
EXTENDS Catalogue, FiniteSetTheorems, TLAPS

-----------------------------------------------------------------------------
(* The index.  What is on its way to it has been true of the tables.        *)

\* Every request is a record with these fields.
EditShape ==
  /\ edit = [a \in Editors |-> edit[a]]
  /\ \A a \in Editors : edit[a] = Request(edit[a].pc, edit[a].op, edit[a].p, edit[a].v, edit[a].seen)

\* A document that was true of its product at some time, or none.
Said(docs, truths) == \A p \in Products : p \in DOMAIN docs => docs[p] \in truths[p]

TablesAreShown == \A p \in Products : None \in shown[p] /\ DocOf(product, variant, p) \in shown[p]
ReadsAreShown == \A a \in Editors : Said(edit[a].seen, shown)

IndexInv == EditShape /\ TablesAreShown /\ ReadsAreShown

\* A request takes a step, the tables' history grows, and what the request has
\* read, if it is new, is part of that history.
LEMMA EditMoves ==
  ASSUME IndexInv, NEW a \in Editors,
         NEW pc, NEW op, NEW p, NEW v, NEW seen,
         edit' = [edit EXCEPT ![a] = Request(pc, op, p, v, seen)],
         \A q \in Products : shown[q] \subseteq shown'[q],
         Said(seen, shown')
  PROVE  EditShape' /\ ReadsAreShown'
<1>1. edit'[a] = Request(pc, op, p, v, seen) /\ \A b \in Editors : b # a => edit'[b] = edit[b]
  BY DEF IndexInv, EditShape
<1>2. edit' = [b \in Editors |-> edit'[b]]
  BY DEF IndexInv, EditShape
<1>3. \A b \in Editors : edit'[b] = Request(edit'[b].pc, edit'[b].op, edit'[b].p, edit'[b].v, edit'[b].seen)
  <2> SUFFICES ASSUME NEW b \in Editors
               PROVE  edit'[b] = Request(edit'[b].pc, edit'[b].op, edit'[b].p, edit'[b].v, edit'[b].seen)
    OBVIOUS
  <2>1. CASE b = a
    BY <2>1, <1>1 DEF Request
  <2>2. CASE b # a
    BY <2>2, <1>1 DEF IndexInv, EditShape
  <2> QED BY <2>1, <2>2
<1>4. ASSUME NEW b \in Editors PROVE Said(edit'[b].seen, shown')
  <2>1. CASE b = a
    BY <2>1, <1>1 DEF Request
  <2>2. CASE b # a
    BY <2>2, <1>1 DEF IndexInv, ReadsAreShown, Said
  <2> QED BY <2>1, <2>2
<1> QED BY <1>2, <1>3, <1>4 DEF EditShape, ReadsAreShown

\* The two ways in which a request's record is rewritten.
LEMMA Moved ==
  ASSUME IndexInv, NEW a \in Editors, NEW pc, Moves(a, pc)
  PROVE  edit' = [edit EXCEPT ![a] = Request(pc, edit[a].op, edit[a].p, edit[a].v, edit[a].seen)]
<1> DEFINE r == edit[a]
<1>1. r = Request(r.pc, r.op, r.p, r.v, r.seen)
  BY DEF IndexInv, EditShape
<1>2. edit' = [edit EXCEPT ![a] = [r EXCEPT !.pc = pc]]
  BY DEF Moves
<1> HIDE DEF r
<1>3. [r EXCEPT !.pc = pc] = Request(pc, r.op, r.p, r.v, r.seen)
  BY <1>1 DEF Request
<1> QED BY <1>2, <1>3 DEF r

LEMMA Ended ==
  ASSUME NEW a \in Editors, Ends(a)
  PROVE  edit' = [edit EXCEPT ![a] = Request("idle", None, None, None, <<>>)]
BY DEF Ends, Idle, Request

\* A commit adds to the history what it makes true and takes nothing away.
LEMMA CommitShows ==
  ASSUME IndexInv, NEW ps, NEW vs, Commit(ps, vs)
  PROVE  TablesAreShown' /\ \A p \in Products : shown[p] \subseteq shown'[p]
<1>1. product' = ps /\ variant' = vs /\ shown' = [p \in Products |-> shown[p] \union {DocOf(ps, vs, p)}]
  BY DEF Commit
<1>2. \A p \in Products : DocOf(product', variant', p) \in shown'[p] /\ None \in shown'[p]
  BY <1>1 DEF IndexInv, TablesAreShown
<1> QED BY <1>1, <1>2 DEF TablesAreShown

\* What a request or a removal brings to the index has been true.
LEMMA IndexedFollows ==
  ASSUME NEW docs, Indexed(docs), Said(docs, shown)
  PROVE  /\ \A p \in Products : index'[p] = index[p] \/ index'[p] \in shown[p]
         /\ UNCHANGED <<product, variant, shown>>
BY DEF Indexed, Said, tables

\* The step of the abstract specification that a step of the catalogue is.
Shows == (\A p \in Products : shown[p] \subseteq shown'[p]) /\ UNCHANGED index
Follows == (\A p \in Products : index'[p] = index[p] \/ index'[p] \in shown[p]) /\ UNCHANGED shown

\* A commit of a request, which goes on with pc.
LEMMA CommitStep ==
  ASSUME IndexInv, NEW a \in Editors, NEW ps, NEW vs, Commit(ps, vs), UNCHANGED index,
         NEW pc, NEW op, NEW p, NEW v, NEW seen, Said(seen, shown),
         edit' = [edit EXCEPT ![a] = Request(pc, op, p, v, seen)]
  PROVE  IndexInv' /\ Shows
<1>1. TablesAreShown' /\ \A q \in Products : shown[q] \subseteq shown'[q]
  BY CommitShows
<1>2. Said(seen, shown')
  BY <1>1 DEF Said
<1>3. EditShape' /\ ReadsAreShown'
  BY <1>1, <1>2, EditMoves
<1> QED BY <1>1, <1>3 DEF IndexInv, Shows

\* A step that leaves the tables alone.
LEMMA QuietStep ==
  ASSUME IndexInv, NEW a \in Editors, UNCHANGED <<product, variant, shown>>,
         NEW pc, NEW op, NEW p, NEW v, NEW seen, Said(seen, shown),
         edit' = [edit EXCEPT ![a] = Request(pc, op, p, v, seen)]
  PROVE  IndexInv'
<1>1. TablesAreShown'
  BY DEF IndexInv, TablesAreShown
<1>2. EditShape' /\ ReadsAreShown'
  BY EditMoves DEF Said
<1> QED BY <1>1, <1>2 DEF IndexInv

LEMMA ProductsKeepIndex ==
  ASSUME IndexInv, ProductsNext
  PROVE  IndexInv' /\ (Shows \/ Follows)
<1> USE DEF IndexInv
<1>0. \A a \in Editors : Said(edit[a].seen, shown)
  BY DEF ReadsAreShown
<1>1. Said(<<>>, shown)
  BY DEF Said
<1> PICK a \in Editors :
     \/ Create(a) \/ AssertProductExists(a) \/ AssertVariantExists(a)
     \/ ReadForReindex(a) \/ ProductStep(a) \/ IndexUnreachable(a) \/ EditDies(a)
  BY DEF ProductsNext
<1>2. CASE Create(a)
  <2>1. PICK p \in Products, s \in Slugs, st \in Statuses, t \in Titles :
          /\ Commit([product EXCEPT ![p] = NewProduct(s, st, t)], variant)
          /\ edit' = [edit EXCEPT ![a] = Request("sync", "create", p, None, <<>>)]
    BY <1>2 DEF Create
  <2>3. UNCHANGED index
    BY <1>2 DEF Create
  <2> QED BY <1>1, <2>1, <2>3, CommitStep
<1>3. CASE AssertProductExists(a) \/ AssertVariantExists(a)
  <2>1. PICK pc, op, p, v : Begins(a, pc, op, p, v)
    BY <1>3 DEF AssertProductExists, AssertVariantExists
  <2>3. edit' = [edit EXCEPT ![a] = Request(pc, op, p, v, <<>>)] /\ UNCHANGED catalogueState
    BY <2>1 DEF Begins
  <2> QED BY <1>1, <2>3, QuietStep DEF catalogueState, Shows
<1>4. CASE ReadForReindex(a)
  <2> DEFINE docs == [p \in {q \in Products : Live(q)} |-> DocOf(product, variant, p)]
  <2>1. edit' = [edit EXCEPT ![a] = Request("bulk", None, None, None, docs)] /\ UNCHANGED catalogueState
    BY <1>4 DEF ReadForReindex
  <2>2. Said(docs, shown)
    BY DEF Said, TablesAreShown
  <2> HIDE DEF docs
  <2> QED BY <2>1, <2>2, QuietStep DEF catalogueState, Shows
<1>5. CASE ProductStep(a)
  <2>1. CASE WriteProduct(a)
    <3>1. PICK ps : Commit(ps, variant)
      BY <2>1 DEF WriteProduct
    <3>2. Moves(a, AfterWrite(edit[a].op)) /\ UNCHANGED index
      BY <2>1 DEF WriteProduct
    <3> QED BY <1>0, <3>1, <3>2, Moved, CommitStep
  <2>2. CASE WriteVariant(a)
    <3>1. PICK vs : Commit(product, vs)
      BY <2>2 DEF WriteVariant
    <3>2. Moves(a, AfterWrite(edit[a].op)) /\ UNCHANGED index
      BY <2>2 DEF WriteVariant
    <3> QED BY <1>0, <3>1, <3>2, Moved, CommitStep
  <2>3. CASE CreateVariant(a)
    <3>1. PICK vs : Commit(product, vs)
      BY <2>3 DEF CreateVariant
    <3>2. Moves(a, AfterWrite(edit[a].op)) /\ UNCHANGED index
      BY <2>3 DEF CreateVariant
    <3> QED BY <1>0, <3>1, <3>2, Moved, CommitStep
  <2>4. CASE WriteRefused(a)
    BY <1>1, <2>4, Ended, QuietStep DEF WriteRefused, catalogueState, Shows
  <2>5. CASE ReadForSync(a)
    <3> DEFINE docs == [p \in {edit[a].p} |-> DocOf(product, variant, p)]
    <3>1. Said(docs, shown)
      BY DEF Said, TablesAreShown
    <3>2. /\ edit' = [edit EXCEPT ![a] = Request("put", edit[a].op, edit[a].p, edit[a].v, docs)]
          /\ UNCHANGED <<product, variant, shown, index>>
      BY <2>5 DEF ReadForSync, catalogueState, tables
    <3> HIDE DEF docs
    <3>3. IndexInv'
      BY <3>1, <3>2, QuietStep
    <3> QED BY <3>2, <3>3 DEF Shows
  <2>6. CASE PutDocument(a) \/ PutAll(a)
    <3>1. Indexed(edit[a].seen) /\ Ends(a)
      BY <2>6 DEF PutDocument, PutAll
    <3> QED BY <1>0, <1>1, <3>1, IndexedFollows, Ended, QuietStep DEF Follows
  <2>7. CASE RemoveDocument(a)
    <3> DEFINE docs == [p \in {edit[a].p} |-> None]
    <3>1. Indexed(docs) /\ Ends(a)
      BY <2>7 DEF RemoveDocument
    <3>2. Said(docs, shown)
      BY DEF Said, TablesAreShown
    <3> HIDE DEF docs
    <3> QED BY <1>1, <3>1, <3>2, IndexedFollows, Ended, QuietStep DEF Follows
  <2> QED BY <1>5, <2>1, <2>2, <2>3, <2>4, <2>5, <2>6, <2>7 DEF ProductStep
<1>6. CASE IndexUnreachable(a) \/ EditDies(a)
  <2>1. Ends(a) /\ UNCHANGED <<tables, index, shown>>
    BY <1>6 DEF IndexUnreachable, EditDies
  <2> QED BY <1>1, <2>1, Ended, QuietStep DEF tables, Shows
<1> QED BY <1>2, <1>3, <1>4, <1>5, <1>6

\* Categories, brands and media touch no product; an import commits some.
LEMMA TaxonomyKeepsIndex ==
  ASSUME IndexInv, TaxonomyNext, UNCHANGED edit
  PROVE  IndexInv' /\ (Shows \/ Follows)
<1>1. CASE ImportRow
  <2>1. PICK ps, vs : Commit(ps, vs)
    BY <1>1 DEF ImportRow
  <2>2. TablesAreShown' /\ \A p \in Products : shown[p] \subseteq shown'[p]
    BY <2>1, CommitShows
  <2>3. ReadsAreShown'
    BY <2>2 DEF IndexInv, ReadsAreShown, Said
  <2> QED BY <1>1, <2>2, <2>3 DEF IndexInv, EditShape, ImportRow, Shows
<1>2. CASE ~ImportRow
  <2>1. UNCHANGED <<product, variant, shown, index>>
    BY <1>2 DEF TaxonomyNext, CreateCategory, CheckParent, MoveCategory, RemoveCategory, CreateBrand, RenameBrand,
       RemoveBrand, StartImport, SkipRow, RowFails, Elsewhere, catalogueState, tables
  <2> QED BY <2>1 DEF IndexInv, EditShape, TablesAreShown, ReadsAreShown, Said, Shows
<1> QED BY <1>1, <1>2

LEMMA MediaKeepsIndex ==
  ASSUME IndexInv, MediaNext
  PROVE  IndexInv' /\ (Shows \/ Follows)
<1>1. UNCHANGED <<product, variant, shown, index>>
  BY DEF MediaNext, CreateUpload, PutObject, ConfirmUpload, DeleteObject, DeleteRow, RemovalDies, AddImage,
     ImageRefused, OnlyMedia, catalogueState, tables
<1>2. CASE UNCHANGED edit
  BY <1>1, <1>2 DEF IndexInv, EditShape, TablesAreShown, ReadsAreShown, Said, Shows
<1>3. ASSUME NEW a \in Editors, Ends(a) PROVE IndexInv' /\ (Shows \/ Follows)
  <2>1. Said(<<>>, shown)
    BY DEF Said
  <2> QED BY <1>1, <1>3, <2>1, Ended, QuietStep DEF Shows
<1> QED BY <1>2, <1>3 DEF MediaNext, AddImage, ImageRefused

\* Every step is a step of the abstract index or leaves it alone.
LEMMA IndexStep == IndexInv /\ [Next]_vars => IndexInv' /\ [Follower!Next]_<<shown, index>>
<1> SUFFICES ASSUME IndexInv, [Next]_vars PROVE IndexInv' /\ [Follower!Next]_<<shown, index>>
  OBVIOUS
<1>1. IndexInv' /\ (Shows \/ Follows)
  <2>1. CASE UNCHANGED vars
    BY <2>1 DEF vars, catalogueState, tables, IndexInv, EditShape, TablesAreShown, ReadsAreShown, Said, Shows
  <2> QED BY <2>1, ProductsKeepIndex, TaxonomyKeepsIndex, MediaKeepsIndex DEF Next
<1> QED BY <1>1 DEF Shows, Follows, Follower!Next, Follower!Change, Follower!Follow

LEMMA InitIndex ==
  ASSUME Init
  PROVE  IndexInv /\ Follower!Init
<1>0. edit = [a \in Editors |-> edit[a]] /\ \A a \in Editors : edit[a] = Idle
  BY DEF Init, ProductsInit
<1>1. EditShape
  <2> SUFFICES ASSUME NEW a \in Editors
               PROVE  edit[a] = Request(edit[a].pc, edit[a].op, edit[a].p, edit[a].v, edit[a].seen)
    BY <1>0 DEF EditShape
  <2> DEFINE r == edit[a]
  <2>1. r = Request("idle", None, None, None, <<>>)
    BY <1>0 DEF Idle
  <2> HIDE DEF r
  <2>2. r = Request(r.pc, r.op, r.p, r.v, r.seen)
    BY <2>1 DEF Request
  <2> QED BY <2>2 DEF r
<1>2. ReadsAreShown
  <2> SUFFICES ASSUME NEW a \in Editors PROVE Said(edit[a].seen, shown)
    BY DEF ReadsAreShown
  <2> DEFINE r == edit[a]
  <2>1. r = Request("idle", None, None, None, <<>>)
    BY <1>0 DEF Idle
  <2> HIDE DEF r
  <2>2. r.seen = <<>>
    BY <2>1 DEF Request
  <2> QED BY <2>2 DEF r, Said
<1>3. TablesAreShown
  BY DEF Init, StateInit, TablesAreShown, DocOf
<1>4. Follower!Init
  BY DEF Init, StateInit, Follower!Init
<1> QED BY <1>1, <1>2, <1>3, <1>4 DEF IndexInv

\* Whatever the index says of a product has been true of its row at some time,
\* however reads, commits, removals, outages and reindexing interleave
\* (SearchIndexerService.syncProduct, removeProduct and reindexTenant).
THEOREM IndexFollows == Spec => IndexIsFollower
BY InitIndex, IndexStep, PTL DEF Spec, IndexIsFollower, Follower!Spec

-----------------------------------------------------------------------------
(* Agreement at rest.  A document that is behind without excuse is the      *)
(* business of some request.                                                *)

InSync == {"sync", "put", "unindex"}

RowsAreTyped ==
  /\ product \in [Products -> ProductRow \union {None}]
  /\ variant \in [Variants -> VariantRow \union {None}]
  /\ \A v \in Variants : variant[v] # None => product[variant[v].of] # None

\* What a request that has come so far can rely on: its product and variant
\* have rows, and the document it brings is its own product's.
Prepared(r, ps, vs) ==
  /\ r.pc = "write" /\ r.op # "addImage" => r.p \in Products /\ ps[r.p] # None
  /\ r.pc = "write" /\ r.op \in {"updateVariant", "removeVariant"} =>
       r.v \in Variants /\ vs[r.v] # None /\ vs[r.v].of = r.p
  /\ r.pc = "put" => DOMAIN r.seen = {r.p}

Due(p) == \E a \in Editors : edit[a].pc \in InSync /\ edit[a].p = p

SearchInv ==
  /\ IndexInv
  /\ RowsAreTyped
  /\ \A a \in Editors : Prepared(edit[a], product, variant)
  /\ \A p \in Products \ excused : index[p] = DocOf(product, variant, p) \/ Due(p)

\* No row goes away, and variants stay with their products.
RowsStay(ps, vs) ==
  /\ \A p \in Products : product[p] # None => ps[p] # None
  /\ \A v \in Variants : variant[v] # None => vs[v] # None /\ vs[v].of = variant[v].of

\* Request a gets another record.
Becomes(a, pc, op, p, v, seen) == edit' = [edit EXCEPT ![a] = Request(pc, op, p, v, seen)]

\* The rows become ps and vs, which differ only in p and its variants.
Touches(ps, vs, p) ==
  /\ ps \in [Products -> ProductRow \union {None}]
  /\ vs \in [Variants -> VariantRow \union {None}]
  /\ ps[p] # None
  /\ \A q \in Products : q # p => ps[q] = product[q]
  /\ \A w \in Variants : \/ vs[w] = variant[w]
                         \/ vs[w] # None /\ vs[w].of = p /\ (variant[w] = None \/ variant[w].of = p)

\* A document that should be there after a step of a is there, or is the
\* business of a, or was right or somebody else's before.
SeenTo(a, pc, p) ==
  \A q \in Products \ excused' :
    \/ index'[q] = DocOf(product', variant', q)
    \/ pc \in InSync /\ p = q
    \/ /\ index'[q] = index[q] /\ DocOf(product', variant', q) = DocOf(product, variant, q)
       /\ q \notin excused /\ ~(edit[a].pc \in InSync /\ edit[a].p = q)

\* A change of one product's rows leaves the other documents as they were.
LEMMA OtherDocs ==
  ASSUME NEW ps, NEW vs, NEW p, NEW q, q # p, ps[q] = product[q],
         \A v \in Variants : \/ vs[v] = variant[v]
                             \/ vs[v] # None /\ vs[v].of = p /\ (variant[v] = None \/ variant[v].of = p)
  PROVE  DocOf(ps, vs, q) = DocOf(product, variant, q)
<1> DEFINE live(rows) == {w \in Variants : rows[w] # None /\ rows[w].of = q /\ ~rows[w].deleted}
<1>1. live(vs) = live(variant) /\ \A w \in live(vs) : vs[w] = variant[w]
  OBVIOUS
<1>2. {vs[w].price : w \in live(vs)} = {variant[w].price : w \in live(variant)}
  BY <1>1
<1> QED BY <1>2 DEF DocOf

LEMMA SearchMoves ==
  ASSUME SearchInv, IndexInv', RowsAreTyped', NEW a \in Editors,
         NEW pc, NEW op, NEW p, NEW v, NEW seen, Becomes(a, pc, op, p, v, seen),
         Prepared(Request(pc, op, p, v, seen), product', variant'),
         RowsStay(product', variant'), SeenTo(a, pc, p)
  PROVE  SearchInv'
<1>1. edit'[a] = Request(pc, op, p, v, seen) /\ \A b \in Editors : b # a => edit'[b] = edit[b]
  BY DEF SearchInv, IndexInv, EditShape, Becomes
<1>2. edit'[a].pc = pc /\ edit'[a].p = p
  BY <1>1 DEF Request
<1>3. ASSUME NEW b \in Editors PROVE Prepared(edit'[b], product', variant')
  <2>1. CASE b = a
    BY <2>1, <1>1
  <2>2. CASE b # a
    BY <2>2, <1>1 DEF SearchInv, Prepared, RowsStay
  <2> QED BY <2>1, <2>2
<1>4. ASSUME NEW q \in Products \ excused'
      PROVE  index'[q] = DocOf(product', variant', q) \/ \E b \in Editors : edit'[b].pc \in InSync /\ edit'[b].p = q
  <2>1. CASE pc \in InSync /\ p = q
    BY <2>1, <1>2
  <2>2. CASE /\ index'[q] = index[q] /\ DocOf(product', variant', q) = DocOf(product, variant, q)
             /\ q \notin excused /\ ~(edit[a].pc \in InSync /\ edit[a].p = q)
    <3>1. CASE index[q] = DocOf(product, variant, q)
      BY <2>2, <3>1
    <3>2. CASE Due(q)
      BY <2>2, <3>2, <1>1 DEF Due
    <3> QED BY <2>2, <3>1, <3>2 DEF SearchInv
  <2> QED BY <2>1, <2>2 DEF SeenTo
<1> QED BY <1>3, <1>4 DEF SearchInv, Due

\* The lowest price is one of the prices: the naturals are well-founded.
LEMMA MinOfNaturals ==
  ASSUME NEW S, S \subseteq Nat, S # {}
  PROVE  Min(S) \in S
<1> DEFINE less == OpToRel(<, Nat)
<1>1. IsWellFoundedOn(less, Nat)
  BY NatLessThanWellFounded, Zenon
<1>2. \A x, y \in Nat : <<y, x>> \in less <=> y < x
  BY DEF OpToRel
<1> HIDE DEF less
<1>3. PICK x \in S : \A y \in S : ~(<<y, x>> \in less)
  BY <1>1, WFMin, Zenon
<1>4. ASSUME NEW y \in S PROVE x <= y
  <2>1. ~(y < x)
    BY <1>2, <1>3
  <2> QED BY <2>1
<1> QED BY <1>4 DEF Min

\* A live product has a document.
LEMMA LiveHasDoc ==
  ASSUME RowsAreTyped, NEW p \in Products, Live(p)
  PROVE  /\ DocOf(product, variant, p) # None
         /\ DocOf(product, variant, p).status = product[p].status
<1> DEFINE prices == {variant[v].price : v \in {w \in Variants : /\ variant[w] # None
                                                                  /\ variant[w].of = p
                                                                  /\ ~variant[w].deleted}}
           low == IF prices = {} THEN 0 ELSE Min(prices)
           doc == [status |-> product[p].status, title |-> product[p].title, priceMin |-> low]
<1>1. prices \subseteq Prices
  BY DEF RowsAreTyped, VariantRow
<1>2. DocOf(product, variant, p) = doc
  BY DEF DocOf, Live
<1>3. product[p].status \in ProductStatus /\ product[p].title \in Titles
  BY DEF RowsAreTyped, ProductRow, Live
<1> HIDE DEF prices
<1>4. low \in Prices \union {0}
  BY <1>1, MinOfNaturals, CatalogueAssumption
<1> HIDE DEF low
<1>5. doc \in Doc
  BY <1>3, <1>4 DEF Doc
<1> QED BY <1>2, <1>5, CatalogueAssumption

\* What the writes make of rows.
LEMMA RewrittenRows ==
  ASSUME NEW row \in ProductRow, NEW op \in ProductOps, NEW new \in Rewritten(row, op)
  PROVE  new \in ProductRow
<1>1. CASE op = "update"
  <2>1. new \in {[row EXCEPT !.title = t] : t \in Titles} => new \in ProductRow
    BY DEF ProductRow
  <2>2. new \in {[row EXCEPT !.status = st] : st \in Statuses} => new \in ProductRow
    BY CatalogueAssumption DEF ProductRow
  <2>3. new \in {[row EXCEPT !.slug = s] : s \in {x \in Slugs : ~SlugTaken(x)}} => new \in ProductRow
    BY DEF ProductRow
  <2> QED BY <1>1, <2>1, <2>2, <2>3 DEF Rewritten
<1>2. CASE op = "publish"
  BY <1>2 DEF Rewritten, ProductRow, ProductStatus
<1>3. CASE op = "remove"
  BY <1>3 DEF Rewritten, ProductRow
<1> QED BY <1>1, <1>2, <1>3 DEF ProductOps

LEMMA RewrittenVariants ==
  ASSUME NEW row \in VariantRow, NEW op, NEW new \in RewrittenVariant(row, op)
  PROVE  new \in VariantRow /\ new.of = row.of
<1>1. new \in {[row EXCEPT !.price = c] : c \in Prices} => new \in VariantRow /\ new.of = row.of
  BY DEF VariantRow
<1>2. new \in {[row EXCEPT !.deleted = TRUE]} => new \in VariantRow /\ new.of = row.of
  BY DEF VariantRow
<1> QED BY <1>1, <1>2 DEF RewrittenVariant

\* A document that is written is up to date or excused.
LEMMA IndexedAgrees ==
  ASSUME NEW docs, Indexed(docs), NEW q \in Products \ excused'
  PROVE  \/ index'[q] = DocOf(product', variant', q)
         \/ /\ q \notin DOMAIN docs /\ q \notin excused
            /\ index'[q] = index[q] /\ DocOf(product', variant', q) = DocOf(product, variant, q)
BY DEF Indexed, tables

\* So only the document of p can change.
LEMMA TouchedDocs ==
  ASSUME NEW p, NEW ps, NEW vs, Touches(ps, vs, p), NEW q \in Products, q # p
  PROVE  DocOf(ps, vs, q) = DocOf(product, variant, q)
BY OtherDocs DEF Touches

\* Types survive, and no row goes away.
LEMMA TouchedRows ==
  ASSUME SearchInv, NEW p \in Products, NEW ps, NEW vs, Touches(ps, vs, p), product' = ps, variant' = vs
  PROVE  RowsAreTyped' /\ RowsStay(product', variant')
<1>1. ASSUME NEW w \in Variants, vs[w] # None PROVE ps[vs[w].of] # None
  <2>1. vs[w] # variant[w] => vs[w].of = p
    BY DEF Touches
  <2>2. vs[w] = variant[w] => variant[w].of \in Products /\ product[variant[w].of] # None
    BY <1>1 DEF SearchInv, RowsAreTyped, VariantRow
  <2> QED BY <2>1, <2>2 DEF Touches
<1>2. RowsStay(ps, vs)
  BY DEF RowsStay, Touches
<1> QED BY <1>1, <1>2 DEF RowsAreTyped, Touches

\* A commit of one request, which then has a document to see to.
LEMMA WriteKeepsSearch ==
  ASSUME SearchInv, IndexInv', NEW a \in Editors, NEW p \in Products, NEW ps, NEW vs,
         Commit(ps, vs), Touches(ps, vs, p),
         UNCHANGED <<index, excused>>, edit[a].pc \notin InSync,
         NEW pc \in {"sync", "unindex"}, NEW op, NEW v, NEW seen, Becomes(a, pc, op, p, v, seen)
  PROVE  SearchInv'
<1>1. product' = ps /\ variant' = vs
  BY DEF Commit
<1>2. RowsAreTyped' /\ RowsStay(product', variant')
  BY <1>1, TouchedRows
<1>4. Prepared(Request(pc, op, p, v, seen), product', variant')
  BY DEF Prepared, Request
<1>5. ASSUME NEW q \in Products, q # p PROVE DocOf(ps, vs, q) = DocOf(product, variant, q)
  BY <1>5, TouchedDocs
<1>6. SeenTo(a, pc, p)
  <2> SUFFICES ASSUME NEW q \in Products \ excused'
               PROVE  \/ pc \in InSync /\ p = q
                      \/ /\ index'[q] = index[q] /\ DocOf(product', variant', q) = DocOf(product, variant, q)
                         /\ q \notin excused /\ ~(edit[a].pc \in InSync /\ edit[a].p = q)
    BY DEF SeenTo
  <2>1. CASE q = p
    BY <2>1 DEF InSync
  <2>2. CASE q # p
    BY <2>2, <1>1, <1>5
  <2> QED BY <2>1, <2>2
<1> QED BY <1>2, <1>4, <1>6, SearchMoves

\* create goes on to the index.
LEMMA CreateKeepsSearch ==
  ASSUME SearchInv, IndexInv', NEW a \in Editors, Create(a)
  PROVE  SearchInv'
<1>1. PICK p \in Products, s \in Slugs, st \in Statuses, t \in Titles :
        /\ product[p] = None
        /\ Commit([product EXCEPT ![p] = NewProduct(s, st, t)], variant)
        /\ edit' = [edit EXCEPT ![a] = Request("sync", "create", p, None, <<>>)]
  BY DEF Create
<1> DEFINE row == NewProduct(s, st, t)
           ps == [product EXCEPT ![p] = row]
<1>2. row \in ProductRow
  BY CatalogueAssumption DEF NewProduct, ProductRow
<1> HIDE DEF row
<1>3. Touches(ps, variant, p)
  BY <1>2, CatalogueAssumption DEF Touches, RowsAreTyped, SearchInv
<1>4. Commit(ps, variant) /\ Becomes(a, "sync", "create", p, None, <<>>)
  BY <1>1 DEF Becomes, row
<1>5. edit[a].pc \notin InSync /\ UNCHANGED <<index, excused>>
  BY DEF Create, InSync
<1> HIDE DEF ps
<1> QED BY <1>3, <1>4, <1>5, WriteKeepsSearch

\* The writes to existing products and of variants move on to the index alike.
LEMMA WritesGoOn ==
  ASSUME SearchInv, IndexInv', NEW a \in Editors, edit[a].pc = "write", edit[a].p \in Products,
         Moves(a, AfterWrite(edit[a].op)), UNCHANGED <<index, excused>>,
         NEW ps, NEW vs, Commit(ps, vs), Touches(ps, vs, edit[a].p)
  PROVE  SearchInv'
<1>1. Becomes(a, AfterWrite(edit[a].op), edit[a].op, edit[a].p, edit[a].v, edit[a].seen)
  BY Moved DEF Becomes, SearchInv
<1>2. AfterWrite(edit[a].op) \in {"sync", "unindex"}
  BY DEF AfterWrite
<1>3. edit[a].pc \notin InSync
  BY DEF InSync
<1> QED BY <1>1, <1>2, <1>3, WriteKeepsSearch

LEMMA WriteProductKeepsSearch ==
  ASSUME SearchInv, IndexInv', NEW a \in Editors, WriteProduct(a)
  PROVE  SearchInv'
<1> DEFINE p == edit[a].p
           old == product[p]
<1>1. edit[a].pc = "write" /\ edit[a].op \in ProductOps /\ UNCHANGED <<index, excused>>
      /\ Moves(a, AfterWrite(edit[a].op))
  BY DEF WriteProduct
<1>2. p \in Products /\ old \in ProductRow
  BY <1>1 DEF Prepared, ProductOps, RowsAreTyped, SearchInv
<1>3. PICK row \in Rewritten(old, edit[a].op) : Commit([product EXCEPT ![p] = row], variant)
  BY DEF WriteProduct
<1> HIDE DEF old
<1>4. row \in ProductRow
  BY <1>1, <1>2, <1>3, RewrittenRows
<1> DEFINE ps == [product EXCEPT ![p] = row]
<1> HIDE DEF p
<1>5. Touches(ps, variant, p)
  BY <1>2, <1>4, CatalogueAssumption DEF Touches, RowsAreTyped, SearchInv
<1>6. Commit(ps, variant)
  BY <1>3
<1> HIDE DEF ps
<1> QED BY <1>1, <1>2, <1>5, <1>6, WritesGoOn DEF p

LEMMA WriteVariantKeepsSearch ==
  ASSUME SearchInv, IndexInv', NEW a \in Editors, WriteVariant(a)
  PROVE  SearchInv'
<1> DEFINE p == edit[a].p
           v == edit[a].v
           old == variant[v]
<1>1. edit[a].pc = "write" /\ edit[a].op \in {"updateVariant", "removeVariant"} /\ UNCHANGED <<index, excused>>
      /\ Moves(a, AfterWrite(edit[a].op))
  BY DEF WriteVariant
<1>2. p \in Products /\ product[p] # None /\ v \in Variants /\ old \in VariantRow /\ old.of = p
  BY <1>1 DEF Prepared, RowsAreTyped, SearchInv
<1>3. PICK row \in RewrittenVariant(old, edit[a].op) : Commit(product, [variant EXCEPT ![v] = row])
  BY DEF WriteVariant
<1>4. variant[v].of = p
  BY <1>2
<1> HIDE DEF old
<1>5. row \in VariantRow /\ row.of = p
  BY <1>2, <1>3, RewrittenVariants
<1> DEFINE vs == [variant EXCEPT ![v] = row]
<1> HIDE DEF p, v
<1>6. Touches(product, vs, p)
  BY <1>2, <1>4, <1>5, CatalogueAssumption DEF Touches, RowsAreTyped, SearchInv
<1>7. Commit(product, vs)
  BY <1>3
<1> HIDE DEF vs
<1> QED BY <1>1, <1>2, <1>6, <1>7, WritesGoOn DEF p

LEMMA CreateVariantKeepsSearch ==
  ASSUME SearchInv, IndexInv', NEW a \in Editors, CreateVariant(a)
  PROVE  SearchInv'
<1> DEFINE p == edit[a].p
<1>1. edit[a].pc = "write" /\ edit[a].op = "createVariant" /\ UNCHANGED <<index, excused>>
      /\ Moves(a, AfterWrite(edit[a].op))
  BY DEF CreateVariant
<1>2. p \in Products /\ product[p] # None
  BY <1>1 DEF Prepared, SearchInv
<1>3. PICK v \in Variants, c \in Prices :
        /\ variant[v] = None
        /\ Commit(product, [variant EXCEPT ![v] = [of |-> p, price |-> c, deleted |-> FALSE]])
  BY DEF CreateVariant
<1> DEFINE row == [of |-> p, price |-> c, deleted |-> FALSE]
           vs == [variant EXCEPT ![v] = row]
<1> HIDE DEF p
<1>4. row \in VariantRow /\ row.of = p
  BY <1>2 DEF VariantRow
<1>5. Commit(product, vs)
  BY <1>3
<1> HIDE DEF row
<1>6. Touches(product, vs, p)
  BY <1>2, <1>3, <1>4, CatalogueAssumption DEF Touches, RowsAreTyped, SearchInv
<1> HIDE DEF vs
<1> QED BY <1>1, <1>2, <1>5, <1>6, WritesGoOn DEF p

\* A step that leaves the rows alone.
LEMMA RowsUntouched ==
  ASSUME SearchInv, UNCHANGED tables
  PROVE  RowsAreTyped' /\ RowsStay(product', variant')
BY DEF SearchInv, RowsAreTyped, RowsStay, tables

\* A request begins, is refused or reads all products: it has no document to
\* see to, before or after.
LEMMA BeginKeepsSearch ==
  ASSUME SearchInv, IndexInv', NEW a \in Editors, UNCHANGED <<tables, index, excused>>,
         edit[a].pc \notin InSync,
         NEW pc, NEW op, NEW p, NEW v, NEW seen, Becomes(a, pc, op, p, v, seen),
         Prepared(Request(pc, op, p, v, seen), product, variant)
  PROVE  SearchInv'
<1>1. SeenTo(a, pc, p)
  BY DEF SeenTo, tables
<1>2. Prepared(Request(pc, op, p, v, seen), product', variant')
  BY DEF tables
<1> QED BY <1>1, <1>2, RowsUntouched, SearchMoves

LEMMA BeginsKeepsSearch ==
  ASSUME SearchInv, IndexInv', NEW a \in Editors,
         NEW op, NEW p \in Products, NEW v, Begins(a, "write", op, p, v), product[p] # None,
         op \in {"updateVariant", "removeVariant"} => v \in Variants /\ variant[v] # None /\ variant[v].of = p
  PROVE  SearchInv'
<1>1. Becomes(a, "write", op, p, v, <<>>) /\ UNCHANGED <<tables, index, excused>> /\ edit[a].pc \notin InSync
  BY DEF Begins, Becomes, catalogueState, tables, InSync
<1>2. Prepared(Request("write", op, p, v, <<>>), product, variant)
  BY DEF Prepared, Request
<1> QED BY <1>1, <1>2, BeginKeepsSearch

LEMMA AssertKeepsSearch ==
  ASSUME SearchInv, IndexInv', NEW a \in Editors, AssertProductExists(a) \/ AssertVariantExists(a)
  PROVE  SearchInv'
<1>1. CASE AssertProductExists(a)
  <2>1. PICK p \in Products, op \in ProductOps \union {"createVariant", "addImage"} :
          Live(p) /\ Begins(a, "write", op, p, None)
    BY <1>1 DEF AssertProductExists
  <2>2. op \notin {"updateVariant", "removeVariant"}
    BY DEF ProductOps
  <2> QED BY <2>1, <2>2, BeginsKeepsSearch DEF Live
<1>2. CASE AssertVariantExists(a)
  <2>1. PICK v \in Variants, op \in {"updateVariant", "removeVariant"} :
          variant[v] # None /\ Begins(a, "write", op, variant[v].of, v)
    BY <1>2 DEF AssertVariantExists
  <2>2. variant[v].of \in Products /\ product[variant[v].of] # None
    BY <2>1 DEF SearchInv, RowsAreTyped, VariantRow
  <2> QED BY <2>1, <2>2, BeginsKeepsSearch
<1> QED BY <1>1, <1>2

LEMMA OtherStartsKeepSearch ==
  ASSUME SearchInv, IndexInv', NEW a \in Editors,
         ReadForReindex(a) \/ WriteRefused(a)
  PROVE  SearchInv'
<1>1. PICK pc, op, p, v, seen : Becomes(a, pc, op, p, v, seen) /\ pc \in {"idle", "bulk"}
  <2>1. CASE ReadForReindex(a)
    BY <2>1 DEF ReadForReindex, Becomes
  <2>2. CASE WriteRefused(a)
    BY <2>2, Ended DEF WriteRefused, Becomes
  <2> QED BY <2>1, <2>2
<1>2. UNCHANGED <<tables, index, excused>> /\ edit[a].pc \notin InSync
  BY DEF ReadForReindex, WriteRefused, catalogueState, tables, InSync
<1>3. Prepared(Request(pc, op, p, v, seen), product, variant)
  BY <1>1 DEF Prepared, Request
<1> QED BY <1>1, <1>2, <1>3, BeginKeepsSearch

\* Between the read and the write the request still has its document to see to.
LEMMA ReadKeepsSearch ==
  ASSUME SearchInv, IndexInv', NEW a \in Editors, ReadForSync(a)
  PROVE  SearchInv'
<1> DEFINE docs == [p \in {edit[a].p} |-> DocOf(product, variant, p)]
<1>1. Becomes(a, "put", edit[a].op, edit[a].p, edit[a].v, docs) /\ UNCHANGED <<tables, index, excused>>
  BY DEF ReadForSync, Becomes, catalogueState, tables
<1>2. DOMAIN docs = {edit[a].p}
  OBVIOUS
<1> HIDE DEF docs
<1>3. Prepared(Request("put", edit[a].op, edit[a].p, edit[a].v, docs), product', variant')
  BY <1>2 DEF Prepared, Request
<1>4. SeenTo(a, "put", edit[a].p)
  BY <1>1 DEF SeenTo, tables, InSync
<1> QED BY <1>1, <1>3, <1>4, RowsUntouched, SearchMoves

\* A request that ends, and has seen to its document unless that is excused.
LEMMA EndKeepsSearch ==
  ASSUME SearchInv, IndexInv', NEW a \in Editors, Ends(a), UNCHANGED tables,
         SeenTo(a, "idle", None)
  PROVE  SearchInv'
<1>1. Becomes(a, "idle", None, None, None, <<>>)
  BY Ended DEF Becomes
<1>2. Prepared(Request("idle", None, None, None, <<>>), product', variant')
  BY DEF Prepared, Request
<1> QED BY <1>1, <1>2, RowsUntouched, SearchMoves

\* A request that ends by writing docs.
LEMMA DocumentsKeepSearch ==
  ASSUME SearchInv, IndexInv', NEW a \in Editors, Ends(a),
         NEW docs, Indexed(docs),
         edit[a].pc \in InSync => edit[a].p \in DOMAIN docs
  PROVE  SearchInv'
<1>1. SeenTo(a, "idle", None)
  BY IndexedAgrees DEF SeenTo
<1> QED BY <1>1, EndKeepsSearch DEF Indexed

LEMMA IndexingKeepsSearch ==
  ASSUME SearchInv, IndexInv', NEW a \in Editors, PutDocument(a) \/ PutAll(a) \/ RemoveDocument(a)
  PROVE  SearchInv'
<1>1. CASE PutDocument(a) \/ PutAll(a)
  <2>1. edit[a].pc \in InSync => edit[a].p \in DOMAIN edit[a].seen
    BY <1>1 DEF PutDocument, PutAll, SearchInv, Prepared, InSync
  <2> QED BY <1>1, <2>1, DocumentsKeepSearch DEF PutDocument, PutAll
<1>2. CASE RemoveDocument(a)
  <2> DEFINE docs == [p \in {edit[a].p} |-> None]
  <2>1. Indexed(docs) /\ Ends(a) /\ edit[a].p \in DOMAIN docs
    BY <1>2 DEF RemoveDocument
  <2> HIDE DEF docs
  <2> QED BY <2>1, DocumentsKeepSearch
<1> QED BY <1>1, <1>2

\* A lost request leaves its product excused.
LEMMA FaultsKeepSearch ==
  ASSUME SearchInv, IndexInv', NEW a \in Editors, IndexUnreachable(a) \/ EditDies(a)
  PROVE  SearchInv'
<1>1. Ends(a) /\ UNCHANGED <<tables, index>>
  BY DEF IndexUnreachable, EditDies
<1>2. \A q \in Products \ excused' : q \notin excused /\ ~(edit[a].pc \in InSync /\ edit[a].p = q)
  BY CatalogueAssumption DEF IndexUnreachable, EditDies, InSync
<1>3. SeenTo(a, "idle", None)
  BY <1>1, <1>2 DEF SeenTo, tables
<1> QED BY <1>1, <1>3, EndKeepsSearch

LEMMA ProductsKeepSearch ==
  ASSUME SearchInv, IndexInv', ProductsNext
  PROVE  SearchInv'
BY CreateKeepsSearch, WriteProductKeepsSearch, WriteVariantKeepsSearch, CreateVariantKeepsSearch,
   AssertKeepsSearch, OtherStartsKeepSearch, ReadKeepsSearch, IndexingKeepsSearch, FaultsKeepSearch
   DEF ProductsNext, ProductStep

\* An imported product is excused; the other documents stay as right as they were.
LEMMA TaxonomyKeepsSearch ==
  ASSUME SearchInv, import \in Seq(SheetRow), IndexInv', TaxonomyNext, UNCHANGED edit
  PROVE  SearchInv'
<1>1. CASE ImportRow
  <2>1. PICK p \in Products, v \in Variants, t \in Titles, c \in Prices :
          /\ product[p] = None /\ variant[v] = None
          /\ Commit([product EXCEPT ![p] = [slug |-> Head(import).slug, status |-> "DRAFT",
                                            title |-> t, deleted |-> FALSE]],
                    [variant EXCEPT ![v] = [of |-> p, price |-> c, deleted |-> FALSE]])
          /\ excused' = excused \union {p}
    BY <1>1 DEF ImportRow
  <2> DEFINE new == [slug |-> Head(import).slug, status |-> "DRAFT", title |-> t, deleted |-> FALSE]
             row == [of |-> p, price |-> c, deleted |-> FALSE]
             ps == [product EXCEPT ![p] = new]
             vs == [variant EXCEPT ![v] = row]
  <2>2. row \in VariantRow /\ row.of = p
    BY DEF VariantRow
  <2>3. new \in ProductRow
    <3>1. Head(import) \in SheetRow
      BY <1>1 DEF ImportRow
    <3> QED BY <3>1 DEF SheetRow, ProductRow, ProductStatus
  <2>4. Commit(ps, vs)
    BY <2>1
  <2> HIDE DEF new, row
  <2>5. Touches(ps, vs, p)
    BY <2>1, <2>2, <2>3, CatalogueAssumption DEF Touches, RowsAreTyped, SearchInv
  <2>6. product' = ps /\ variant' = vs /\ index' = index
    BY <1>1, <2>4 DEF Commit, ImportRow
  <2> HIDE DEF ps, vs
  <2>7. RowsAreTyped' /\ RowsStay(product', variant')
    BY <2>5, <2>6, TouchedRows
  <2>8. ASSUME NEW a \in Editors PROVE Prepared(edit'[a], product', variant')
    BY <2>7 DEF SearchInv, Prepared, RowsStay
  <2>9. ASSUME NEW q \in Products \ excused'
        PROVE  index'[q] = DocOf(product', variant', q) \/ \E a \in Editors : edit'[a].pc \in InSync /\ edit'[a].p = q
    <3>1. q # p /\ q \notin excused
      BY <2>1
    <3>2. DocOf(ps, vs, q) = DocOf(product, variant, q)
      BY <2>5, <3>1, TouchedDocs
    <3> QED BY <2>6, <3>1, <3>2 DEF SearchInv, Due
  <2>10. \A q \in Products \ excused' : index'[q] = DocOf(product', variant', q) \/ Due(q)'
    BY <2>9 DEF Due
  <2> QED BY <2>7, <2>8, <2>10 DEF SearchInv
<1>2. CASE ~ImportRow
  <2>1. UNCHANGED <<product, variant, index, excused>>
    BY <1>2 DEF TaxonomyNext, CreateCategory, CheckParent, MoveCategory, RemoveCategory, CreateBrand, RenameBrand,
       RemoveBrand, StartImport, SkipRow, RowFails, Elsewhere, catalogueState, tables
  <2> QED BY <2>1 DEF SearchInv, RowsAreTyped, Due
<1> QED BY <1>1, <1>2

LEMMA MediaKeepsSearch ==
  ASSUME SearchInv, IndexInv', MediaNext
  PROVE  SearchInv'
<1>1. UNCHANGED <<product, variant, index, excused>>
  BY DEF MediaNext, CreateUpload, PutObject, ConfirmUpload, DeleteObject, DeleteRow, RemovalDies, AddImage,
     ImageRefused, OnlyMedia, catalogueState, tables
<1>2. CASE UNCHANGED edit
  BY <1>1, <1>2 DEF SearchInv, RowsAreTyped, Due
<1>3. ASSUME NEW a \in Editors, Ends(a), edit[a].pc = "write" PROVE SearchInv'
  <2>1. SeenTo(a, "idle", None)
    BY <1>1, <1>3 DEF SeenTo, InSync
  <2> QED BY <1>1, <1>3, <2>1, EndKeepsSearch DEF tables
<1> QED BY <1>2, <1>3 DEF MediaNext, AddImage, ImageRefused

\* At rest every document is right or excused, and so are the cards of the store.
LEMMA RestAgrees == SearchInv => SearchAgreesAtRest
<1> SUFFICES ASSUME SearchInv, AtRest PROVE SearchAgreesAtRest
  BY DEF SearchAgreesAtRest
<1>1. \A p \in Products \ excused : index[p] = DocOf(product, variant, p)
  BY DEF AtRest, SearchInv, Due, InSync
<1>2. ASSUME NEW card \in CardsFromIndex, card.id \notin excused
      PROVE  card \in CardsFromTables /\ Opens(card.id)
  <2>1. PICK p \in Hits({"ACTIVE"}) : card = Card(p, index[p])
    BY <1>2 DEF CardsFromIndex
  <2>2. card.id = p /\ p \in Products /\ index[p] # None /\ index[p].status = "ACTIVE"
    BY <2>1 DEF Card, Hits
  <2>3. index[p] = DocOf(product, variant, p)
    BY <1>1, <1>2, <2>2
  <2>4. Live(p)
    BY <2>2, <2>3 DEF DocOf, Live
  <2>5. p \in OnSale
    BY <2>2, <2>3, <2>4, LiveHasDoc DEF OnSale, SearchInv
  <2> QED BY <2>1, <2>2, <2>3, <2>5 DEF CardsFromTables, Opens
<1>3. ASSUME NEW card \in CardsFromTables, card.id \notin excused
      PROVE  card \in CardsFromIndex
  <2>1. PICK p \in OnSale : card = Card(p, DocOf(product, variant, p))
    BY <1>3 DEF CardsFromTables
  <2>2. card.id = p /\ p \in Products /\ Live(p) /\ product[p].status = "ACTIVE"
    BY <2>1 DEF Card, OnSale
  <2>3. index[p] = DocOf(product, variant, p)
    BY <1>1, <1>3, <2>2
  <2>4. index[p] # None /\ index[p].status = "ACTIVE"
    BY <2>2, <2>3, LiveHasDoc DEF SearchInv
  <2> QED BY <2>1, <2>2, <2>3, <2>4 DEF CardsFromIndex, Hits
<1> QED BY <1>1, <1>2, <1>3 DEF SearchAgreesAtRest

\* Rows still to import are rows of a sheet.
LEMMA ImportIsTyped ==
  ASSUME import \in Seq(SheetRow), TaxonomyNext
  PROVE  import' \in Seq(SheetRow)
<1>1. CASE StartImport
  BY <1>1, TaxonomyAssumption DEF StartImport
<1>2. CASE import # <<>> /\ NextRow
  BY <1>2 DEF NextRow
<1>3. CASE UNCHANGED import
  BY <1>3
<1> QED BY <1>1, <1>2, <1>3 DEF TaxonomyNext, CreateCategory, CheckParent, MoveCategory, RemoveCategory, CreateBrand,
       RenameBrand, RemoveBrand, SkipRow, ImportRow, RowFails

\* Once no request is under way, the documents of all products that are not
\* excused are those of their rows, and the store lists the same cards from
\* the index as from the tables (ProductsService with SearchIndexerService).
THEOREM SearchAgrees == Spec => []SearchAgreesAtRest
<1> DEFINE Inv == SearchInv /\ import \in Seq(SheetRow)
<1>1. Init => Inv
  <2> SUFFICES ASSUME Init PROVE Inv
    OBVIOUS
  <2>1. IndexInv
    BY InitIndex
  <2>2. RowsAreTyped
    BY DEF Init, StateInit, RowsAreTyped
  <2>3. ASSUME NEW a \in Editors PROVE Prepared(edit[a], product, variant)
    <3>1. edit[a] = Request("idle", None, None, None, <<>>)
      BY DEF Init, ProductsInit, Idle
    <3> QED BY <3>1 DEF Prepared, Request
  <2>4. \A p \in Products : index[p] = DocOf(product, variant, p)
    BY DEF Init, StateInit, DocOf
  <2> QED BY <2>1, <2>2, <2>3, <2>4 DEF SearchInv, Init, TaxonomyInit
<1>2. Inv /\ [Next]_vars => Inv'
  <2> SUFFICES ASSUME Inv, [Next]_vars PROVE Inv'
    OBVIOUS
  <2>1. IndexInv'
    BY IndexStep DEF SearchInv
  <2>2. CASE UNCHANGED vars
    BY <2>1, <2>2 DEF vars, catalogueState, tables, taxonomyVars, SearchInv, RowsAreTyped, Due
  <2>3. CASE ProductsNext /\ UNCHANGED taxonomyVars
    BY <2>1, <2>3, ProductsKeepSearch DEF taxonomyVars
  <2>4. CASE TaxonomyNext /\ UNCHANGED edit
    BY <2>1, <2>4, TaxonomyKeepsSearch, ImportIsTyped
  <2>5. CASE MediaNext /\ UNCHANGED taxonomyVars
    BY <2>1, <2>5, MediaKeepsSearch DEF taxonomyVars
  <2> QED BY <2>2, <2>3, <2>4, <2>5 DEF Next
<1> QED BY <1>1, <1>2, RestAgrees, PTL DEF Spec

-----------------------------------------------------------------------------
(* Media.  An upload that was sent has its object unless a removal took it, *)
(* and what an image refers to has a row.                                   *)

SentIsStored ==
  \A m \in Assets : asset[m] # None =>
    /\ asset[m].status = "READY" => asset[m].upload = "confirmed"
    /\ asset[m].upload # "signed" /\ ~asset[m].leaving /\ m \notin half => m \in stored

ImagesHaveAssets ==
  /\ \A i \in images : i.asset \in Assets /\ asset[i.asset] # None
  /\ \A p \in Products : primary[p] # None => \E i \in images : i.asset = primary[p]

MediaInv ==
  /\ asset \in [Assets -> Asset \union {None}]
  /\ primary = [p \in Products |-> primary[p]]
  /\ SentIsStored
  /\ ImagesHaveAssets

\* One asset gets another row; nothing else happens to rows and images.
LEMMA RowChanges ==
  ASSUME MediaInv, NEW m \in Assets, NEW row \in Asset, asset' = [asset EXCEPT ![m] = row],
         UNCHANGED <<images, primary>>,
         row.status = "READY" => row.upload = "confirmed",
         row.upload # "signed" /\ ~row.leaving /\ m \notin half' => m \in stored',
         \A n \in Assets : n # m => (n \in stored' <=> n \in stored) /\ (n \in half' <=> n \in half)
  PROVE  MediaInv'
<1>0. row # None
  BY MediaAssumption
<1>1. asset'[m] = row /\ \A n \in Assets : n # m => asset'[n] = asset[n]
  BY DEF MediaInv
<1>2. asset' \in [Assets -> Asset \union {None}]
  BY DEF MediaInv
<1>3. ASSUME NEW n \in Assets, asset'[n] # None
      PROVE  /\ asset'[n].status = "READY" => asset'[n].upload = "confirmed"
             /\ asset'[n].upload # "signed" /\ ~asset'[n].leaving /\ n \notin half' => n \in stored'
  <2>1. CASE n = m
    BY <2>1, <1>1
  <2>2. CASE n # m
    BY <2>2, <1>1, <1>3 DEF MediaInv, SentIsStored
  <2> QED BY <2>1, <2>2
<1>4. ImagesHaveAssets'
  BY <1>0, <1>1 DEF MediaInv, ImagesHaveAssets
<1>5. (primary = [p \in Products |-> primary[p]])'
  BY DEF MediaInv
<1> QED BY <1>2, <1>3, <1>4, <1>5 DEF MediaInv, SentIsStored

LEMMA MediaKeepsUploads ==
  ASSUME MediaInv, MediaNext
  PROVE  MediaInv'
<1> USE DEF MediaInv
<1>1. CASE CreateUpload
  <2> DEFINE row == [status |-> "UPLOADING", upload |-> "signed", leaving |-> FALSE]
  <2>1. PICK m \in Assets : asset' = [asset EXCEPT ![m] = row]
    BY <1>1 DEF CreateUpload
  <2>2. row \in Asset /\ row.status = "UPLOADING" /\ row.upload = "signed"
    BY DEF Asset, MediaStatus
  <2> HIDE DEF row
  <2> QED BY <1>1, <2>1, <2>2, RowChanges DEF CreateUpload
<1>2. CASE PutObject
  <2>1. PICK m \in Assets : /\ asset[m] # None /\ asset[m].upload = "signed"
                            /\ stored' = stored \union {m}
                            /\ asset' = [asset EXCEPT ![m].upload = "sent"]
    BY <1>2 DEF PutObject
  <2> DEFINE old == asset[m]
             row == [old EXCEPT !.upload = "sent"]
  <2>2. old \in Asset /\ old.status # "READY"
    BY <2>1 DEF SentIsStored
  <2>3. asset' = [asset EXCEPT ![m] = row]
    BY <2>1
  <2> HIDE DEF old
  <2>4. row \in Asset /\ row.status = old.status
    BY <2>2 DEF Asset
  <2> HIDE DEF row
  <2> QED BY <1>2, <2>1, <2>2, <2>3, <2>4, RowChanges DEF PutObject
<1>3. CASE ConfirmUpload
  <2>1. PICK m \in Assets :
          /\ asset[m] # None /\ asset[m].upload = "sent"
          /\ asset' = [asset EXCEPT ![m] = [status |-> "READY", upload |-> "confirmed", leaving |-> @.leaving]]
    BY <1>3 DEF ConfirmUpload
  <2> DEFINE row == [status |-> "READY", upload |-> "confirmed", leaving |-> asset[m].leaving]
  <2>2. asset[m] \in Asset
    BY <2>1
  <2>3. row \in Asset /\ row.upload = "confirmed" /\ row.leaving = asset[m].leaving
    BY <2>2 DEF Asset, MediaStatus
  <2>4. ~asset[m].leaving /\ m \notin half => m \in stored
    BY <2>1 DEF SentIsStored
  <2>5. asset' = [asset EXCEPT ![m] = row]
    BY <2>1
  <2> HIDE DEF row
  <2> QED BY <1>3, <2>3, <2>4, <2>5, RowChanges DEF ConfirmUpload
<1>4. CASE DeleteObject
  <2>1. PICK m \in Assets : /\ asset[m] # None
                            /\ asset' = [asset EXCEPT ![m].leaving = TRUE]
                            /\ stored' = stored \ {m}
    BY <1>4 DEF DeleteObject
  <2> DEFINE old == asset[m]
             row == [old EXCEPT !.leaving = TRUE]
  <2>2. old \in Asset /\ (old.status = "READY" => old.upload = "confirmed")
    BY <2>1 DEF SentIsStored
  <2>3. asset' = [asset EXCEPT ![m] = row]
    BY <2>1
  <2> HIDE DEF old
  <2>4. row \in Asset /\ row.status = old.status /\ row.upload = old.upload /\ row.leaving
    BY <2>2 DEF Asset
  <2> HIDE DEF row
  <2> QED BY <1>4, <2>1, <2>2, <2>3, <2>4, RowChanges DEF DeleteObject
<1>5. ASSUME NEW m \in Assets, asset[m] # None,
             asset' = [asset EXCEPT ![m].leaving = FALSE], half' = half \union {m},
             UNCHANGED <<stored, images, primary>>
      PROVE  MediaInv'
  <2> DEFINE old == asset[m]
             row == [old EXCEPT !.leaving = FALSE]
  <2>2. old \in Asset /\ (old.status = "READY" => old.upload = "confirmed")
    BY <1>5 DEF SentIsStored
  <2>3. asset' = [asset EXCEPT ![m] = row]
    BY <1>5
  <2> HIDE DEF old
  <2>4. row \in Asset /\ row.status = old.status /\ row.upload = old.upload
    BY <2>2 DEF Asset
  <2> HIDE DEF row
  <2> QED BY <1>5, <2>2, <2>3, <2>4, RowChanges
<1>6. CASE RemovalDies
  BY <1>5, <1>6 DEF RemovalDies
<1>7. CASE DeleteRow
  <2>1. PICK m \in Assets :
          /\ asset[m] # None
          /\ IF Used(m)
             THEN /\ asset' = [asset EXCEPT ![m].leaving = FALSE]
                  /\ half' = half \union {m}
             ELSE /\ asset' = [asset EXCEPT ![m] = None]
                  /\ half' = half \ {m}
    BY <1>7 DEF DeleteRow
  <2>2. UNCHANGED <<stored, images, primary>>
    BY <1>7 DEF DeleteRow
  <2>3. CASE Used(m)
    BY <1>5, <2>1, <2>2, <2>3
  <2>4. CASE ~Used(m)
    <3>1. asset'[m] = None /\ \A n \in Assets : n # m => asset'[n] = asset[n]
      BY <2>1, <2>4
    <3>2. asset' \in [Assets -> Asset \union {None}] /\ half' = half \ {m}
      BY <2>1, <2>4
    <3>3. SentIsStored'
      BY <2>2, <3>1, <3>2 DEF SentIsStored
    <3>4. ImagesHaveAssets'
      BY <2>2, <2>4, <3>1 DEF ImagesHaveAssets, Used
    <3> QED BY <2>2, <3>2, <3>3, <3>4
  <2> QED BY <2>3, <2>4
<1>8. ASSUME NEW a \in Editors, AddImage(a)
      PROVE  MediaInv'
  <2>1. PICK m \in Assets :
          /\ asset[m] # None
          /\ images' = images \union {[of |-> edit[a].p, asset |-> m]}
          /\ \/ primary' = [primary EXCEPT ![edit[a].p] = m]
             \/ primary' = primary
    BY <1>8 DEF AddImage
  <2> DEFINE new == [of |-> edit[a].p, asset |-> m]
  <2>2. UNCHANGED <<asset, stored, half>>
    BY <1>8 DEF AddImage
  <2>3. new.asset = m /\ images' = images \union {new}
    BY <2>1
  <2> HIDE DEF new
  <2>4. \A i \in images' : i.asset \in Assets /\ asset[i.asset] # None
    BY <2>1, <2>3 DEF ImagesHaveAssets
  <2>5. \A p \in Products : primary'[p] \in {primary[p], m}
    BY <2>1
  <2>6. \A p \in Products : primary'[p] # None => \E i \in images' : i.asset = primary'[p]
    BY <2>3, <2>5 DEF ImagesHaveAssets
  <2>7. primary' = [p \in Products |-> primary'[p]]
    BY <2>1
  <2> QED BY <2>2, <2>4, <2>6, <2>7 DEF SentIsStored, ImagesHaveAssets
<1>9. ASSUME NEW a \in Editors, ImageRefused(a)
      PROVE  MediaInv'
  BY <1>9 DEF ImageRefused, mediaVars, SentIsStored, ImagesHaveAssets
<1> QED BY <1>1, <1>2, <1>3, <1>4, <1>6, <1>7, <1>8, <1>9 DEF MediaNext

\* A confirmed upload has its object unless a removal took it and was refused
\* or interrupted, and images refer to assets that exist, for any number of
\* clients, images and removals (MediaService, ProductsService.addImage).
THEOREM UploadsStay == Spec => []UploadsAreStored
<1>1. Init => MediaInv
  BY MediaAssumption DEF Init, MediaInit, MediaInv, SentIsStored, ImagesHaveAssets
<1>2. MediaInv /\ [Next]_vars => MediaInv'
  <2> SUFFICES ASSUME MediaInv, [Next]_vars PROVE MediaInv'
    OBVIOUS
  <2>1. CASE UNCHANGED mediaVars
    BY <2>1 DEF mediaVars, MediaInv, SentIsStored, ImagesHaveAssets
  <2> QED BY <2>1, MediaKeepsUploads DEF Next, vars
<1>3. MediaInv => UploadsAreStored
  BY DEF MediaInv, SentIsStored, ImagesHaveAssets, UploadsAreStored, Pictures
<1> QED BY <1>1, <1>2, <1>3, PTL DEF Spec
-----------------------------------------------------------------------------
(* The category tree.                                                       *)

\* A finite family of finite sets that is not empty has a least member.
LEMMA SmallestSet ==
  ASSUME NEW U, IsFiniteSet(U), NEW Family \in SUBSET (SUBSET U), Family # {}
  PROVE  \E S \in Family : \A T \in Family : T \subseteq S => T = S
<1> DEFINE less == OpToRel(<, Nat)
           sizes == {Cardinality(S) : S \in Family}
<1>1. \A S \in Family : IsFiniteSet(S) /\ Cardinality(S) \in Nat
  <2> SUFFICES ASSUME NEW S \in Family PROVE IsFiniteSet(S) /\ Cardinality(S) \in Nat
    OBVIOUS
  <2>1. IsFiniteSet(S)
    BY FS_Subset
  <2> QED BY <2>1, FS_CardinalityType
<1>2. IsWellFoundedOn(less, Nat)
  BY NatLessThanWellFounded, Zenon
<1>3. \A x, y \in Nat : <<y, x>> \in less <=> y < x
  BY DEF OpToRel
<1>4. sizes \subseteq Nat /\ sizes # {}
  BY <1>1
<1> HIDE DEF less, sizes
<1>5. PICK n \in sizes : \A m \in sizes : ~(<<m, n>> \in less)
  BY <1>2, <1>4, WFMin, Zenon
<1>6. PICK S \in Family : n = Cardinality(S)
  BY DEF sizes
<1>7. ASSUME NEW T \in Family, T \subseteq S PROVE T = S
  <2>1. Cardinality(T) \in sizes /\ Cardinality(T) \in Nat /\ Cardinality(S) \in Nat
    BY <1>1 DEF sizes
  <2>2. ~(Cardinality(T) < Cardinality(S))
    BY <1>3, <1>5, <1>6, <2>1
  <2>3. T \in SUBSET S /\ IsFiniteSet(S)
    BY <1>1, <1>7
  <2>4. Cardinality(T) <= Cardinality(S) /\ (Cardinality(S) = Cardinality(T) => S = T)
    BY <2>3, FS_Subset
  <2> QED BY <2>1, <2>2, <2>4
<1> QED BY <1>7

\* No category is its own parent, nor about to become it.
NoneIsItsOwn ==
  /\ category \in [Categories -> CategoryRow \union {None}]
  /\ arrange \in [c : Categories, up : Categories \union {None}] \union {None}
  /\ \A c \in Categories : category[c] # None => category[c].parent # c
  /\ arrange # None => arrange.up # arrange.c /\ category[arrange.c] # None

LEMMA TaxonomyKeepsParents ==
  ASSUME NoneIsItsOwn, TaxonomyNext
  PROVE  NoneIsItsOwn'
<1>1. CASE CreateCategory
  <2>1. PICK c \in Categories, up \in Categories \union {None} :
          /\ category[c] = None
          /\ up # None => Standing(up)
          /\ category' = [category EXCEPT ![c] = [parent |-> up, deleted |-> FALSE]]
    BY <1>1 DEF CreateCategory
  <2> DEFINE row == [parent |-> up, deleted |-> FALSE]
  <2>2. row \in CategoryRow /\ row.parent = up /\ row # None
    <3>1. row \in CategoryRow /\ row.parent = up
      BY DEF CategoryRow
    <3>2. None \notin CategoryRow
      BY TaxonomyAssumption
    <3> HIDE DEF row
    <3> QED BY <3>1, <3>2
  <2>3. up # c
    BY <2>1, TaxonomyAssumption DEF Standing
  <2>4. category' = [category EXCEPT ![c] = row] /\ arrange' = arrange
    BY <1>1, <2>1 DEF CreateCategory
  <2> HIDE DEF row
  <2> QED BY <2>2, <2>3, <2>4 DEF NoneIsItsOwn
<1>2. CASE CheckParent
  <2>1. PICK c \in Categories, up \in Categories \union {None} :
          Standing(c) /\ up # c /\ arrange' = [c |-> c, up |-> up]
    BY <1>2 DEF CheckParent
  <2>2. category' = category
    BY <1>2 DEF CheckParent
  <2> QED BY <2>1, <2>2 DEF NoneIsItsOwn, Standing
<1>3. CASE MoveCategory
  <2> DEFINE c == arrange.c
             row == [category[c] EXCEPT !.parent = arrange.up]
  <2>1. c \in Categories /\ arrange.up \in Categories \union {None} /\ category[c] \in CategoryRow
    BY <1>3 DEF MoveCategory, NoneIsItsOwn
  <2>2. row \in CategoryRow /\ row.parent = arrange.up /\ row.parent # c
    BY <1>3, <2>1 DEF CategoryRow, MoveCategory, NoneIsItsOwn
  <2>3. category' = [category EXCEPT ![c] = row] /\ arrange' = None
    BY <1>3 DEF MoveCategory
  <2> HIDE DEF row, c
  <2> QED BY <2>1, <2>2, <2>3 DEF NoneIsItsOwn
<1>4. CASE RemoveCategory
  <2>1. PICK c \in Categories : Standing(c) /\ category' = [category EXCEPT ![c].deleted = TRUE]
    BY <1>4 DEF RemoveCategory
  <2> DEFINE row == [category[c] EXCEPT !.deleted = TRUE]
  <2>2. category[c] \in CategoryRow /\ category[c].parent # c
    BY <2>1 DEF Standing, NoneIsItsOwn
  <2>3. row \in CategoryRow /\ row.parent # c /\ row # None
    <3>1. row \in CategoryRow /\ row.parent # c
      BY <2>2 DEF CategoryRow
    <3>2. None \notin CategoryRow
      BY TaxonomyAssumption
    <3> HIDE DEF row
    <3> QED BY <3>1, <3>2
  <2>4. category' = [category EXCEPT ![c] = row] /\ arrange' = arrange
    BY <1>4, <2>1 DEF RemoveCategory
  <2> HIDE DEF row
  <2> QED BY <2>3, <2>4 DEF NoneIsItsOwn
<1>5. CASE UNCHANGED <<category, arrange>>
  BY <1>5 DEF NoneIsItsOwn
<1> QED BY <1>1, <1>2, <1>3, <1>4, <1>5 DEF TaxonomyNext, CreateBrand, RenameBrand, RemoveBrand, StartImport, SkipRow,
       ImportRow, RowFails, catalogueState

\* The tree has the roots, and the children of its members.
LEMMA TreeHangsTogether == Roots \subseteq Tree /\ HangTogether(Tree)
<1>1. Roots \subseteq Tree
  BY DEF Tree, Roots
<1>2. ASSUME NEW c \in Listed, category[c].parent \in Tree PROVE c \in Tree
  <2> SUFFICES ASSUME NEW S \in SUBSET Listed, Roots \subseteq S /\ HangTogether(S) PROVE c \in S
    BY DEF Tree
  <2>1. category[c].parent \in S
    BY <1>2 DEF Tree
  <2> QED BY <2>1 DEF HangTogether
<1> QED BY <1>1, <1>2 DEF HangTogether

\* Whatever is not in the tree hangs from something that is not, and is listed.
LEMMA LostHangFromLost ==
  ASSUME NEW c \in Listed \ Tree
  PROVE  category[c].parent \in Listed \ Tree
BY TreeHangsTogether DEF Roots, HangTogether

\* Nothing of a loop is in the tree: the listed categories without it have the
\* roots and hang together.
LEMMA LoopsAreLost ==
  ASSUME NEW loop \in Loops
  PROVE  loop \intersect Tree = {}
<1> DEFINE rest == Listed \ loop
<1>1. \A d \in loop : d \in Listed /\ category[d].parent \in loop
  BY DEF Loops, Parents
<1>2. Roots \subseteq rest
  BY <1>1 DEF Roots
<1>3. HangTogether(rest)
  BY <1>1 DEF HangTogether
<1> QED BY <1>2, <1>3 DEF Tree

\* A category that the tree does not show hangs from a loop, or is part of it.
LEMMA LostHangFromLoops ==
  ASSUME NEW c \in Listed \ Tree
  PROVE  \E loop \in Loops : loop \subseteq Above(c)
<1> DEFINE lost == Above(c) \ Tree
           Family == {S \in SUBSET lost : S # {} /\ Parents(S) \subseteq S}
<1>1. Above(c) \subseteq Listed /\ c \in lost
  BY DEF Above
<1>2. ASSUME NEW d \in lost PROVE category[d].parent \in lost
  <2>1. category[d].parent \in Listed \ Tree
    BY <1>1, LostHangFromLost
  <2>2. ASSUME NEW S \in SUBSET Listed, c \in S, Parents(S) \intersect Listed \subseteq S
        PROVE  category[d].parent \in S
    <3>1. d \in S
      BY <2>2 DEF Above
    <3> QED BY <2>1, <2>2, <3>1 DEF Parents
  <2> QED BY <2>1, <2>2 DEF Above
<1>3. lost \in Family
  BY <1>1, <1>2 DEF Parents
<1>4. IsFiniteSet(Categories) /\ Family \in SUBSET (SUBSET Categories)
  <2>1. Family \in SUBSET (SUBSET lost) /\ lost \subseteq Categories
    BY <1>1 DEF Listed
  <2>2. IsFiniteSet(Categories)
    BY TaxonomyAssumption
  <2> HIDE DEF Family, lost
  <2>3. \A S \in Family : S \in SUBSET Categories
    BY <2>1
  <2> QED BY <2>2, <2>3
<1>5. PICK S \in Family : \A T \in Family : T \subseteq S => T = S
  <2>1. Family # {}
    BY <1>3
  <2> HIDE DEF Family
  <2> QED BY <1>4, <2>1, SmallestSet
<1>6. Parents(S) \in Family
  <2>1. S # {} /\ Parents(S) \subseteq S /\ S \subseteq lost
    BY <1>5
  <2>2. Parents(S) # {}
    BY <2>1 DEF Parents
  <2>3. Parents(Parents(S)) \subseteq Parents(S)
    BY <2>1 DEF Parents
  <2> QED BY <2>1, <2>2, <2>3
<1>7. Parents(S) = S
  BY <1>5, <1>6
<1> QED BY <1>1, <1>5, <1>7 DEF Loops

\* The tree of categories shows all but those that hang from a loop of two or
\* more, however requests to move them overlap.
THEOREM TreeIsComplete == Spec => []TreeLosesOnlyLoops
<1>1. Init => NoneIsItsOwn
  BY TaxonomyAssumption DEF Init, TaxonomyInit, NoneIsItsOwn
<1>2. NoneIsItsOwn /\ [Next]_vars => NoneIsItsOwn'
  <2> SUFFICES ASSUME NoneIsItsOwn, [Next]_vars PROVE NoneIsItsOwn'
    OBVIOUS
  <2>1. CASE UNCHANGED taxonomyVars
    BY <2>1 DEF taxonomyVars, NoneIsItsOwn
  <2> QED BY <2>1, TaxonomyKeepsParents DEF Next, vars
<1>3. NoneIsItsOwn => TreeLosesOnlyLoops
  <2> SUFFICES ASSUME NoneIsItsOwn PROVE TreeLosesOnlyLoops
    OBVIOUS
  <2>1. \A d \in Listed : category[d].parent # d
    BY DEF Listed, Standing, NoneIsItsOwn
  <2>2. \A loop \in Loops : loop \subseteq Listed
    BY DEF Loops
  <2> QED BY <2>1, <2>2, LostHangFromLoops, LoopsAreLost DEF TreeLosesOnlyLoops
<1> QED BY <1>1, <1>2, <1>3, PTL DEF Spec
=============================================================================
