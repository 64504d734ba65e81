--------------------------- MODULE CatalogueState ---------------------------
(***************************************************************************)
(* The catalogue's tables and the search index, as far as the catalogue,    *)
(* import, search and media services share them.  One tenant.               *)
(***************************************************************************)
EXTENDS Naturals, FiniteSets, FiniteSetsExt

CONSTANTS
  None,        \* no row, no document, no reference
  Products,    \* ids a product row may get
  Variants,    \* ids a variant row may get
  Slugs,       \* slugs of products; a title determines its slug
  Titles,      \* what a title or another indexed text may say
  Statuses,    \* statuses that a request may ask for
  Prices,      \* prices in cents
  MaxWrites,   \* bound on committed changes
  MaxFaults    \* bound on outages and deaths

VARIABLES
  product,     \* Products -> row of products, soft-deleted ones included, or None
  variant,     \* Variants -> row of product_variants or None
  index,       \* Products -> document in Meilisearch or None
  excused,     \* products whose document is behind for a reason the code accepts
  shown,       \* Products -> every document the rows have ever stood for
  writes,      \* changes committed so far
  faults       \* calls that failed and requests that died so far

tables == <<product, variant>>
catalogueState == <<product, variant, index, excused, shown, writes, faults>>

ProductStatus == {"DRAFT", "PENDING_REVIEW", "ACTIVE", "ARCHIVED"}

ProductRow == [slug : Slugs, status : ProductStatus, title : Titles, deleted : BOOLEAN]
VariantRow == [of : Products, price : Prices, deleted : BOOLEAN]
Doc == [status : ProductStatus, title : Titles, priceMin : Prices \union {0}]

ASSUME CatalogueAssumption ==
  /\ Prices \subseteq Nat /\ Statuses \subseteq ProductStatus
  /\ None \notin Products /\ None \notin ProductRow /\ None \notin VariantRow /\ None \notin Doc

Live(p) == product[p] # None /\ ~product[p].deleted
SlugTaken(s) == \E p \in Products : product[p] # None /\ product[p].slug = s

\* What the index should say of p: nothing once it is gone, otherwise the row
\* with the lowest price of its live variants (0 stands for null).
DocOf(ps, vs, p) ==
  LET prices == {vs[v].price : v \in {w \in Variants : /\ vs[w] # None
                                                       /\ vs[w].of = p
                                                       /\ ~vs[w].deleted}}
  IN IF ps[p] = None \/ ps[p].deleted THEN None
     ELSE [status |-> ps[p].status, title |-> ps[p].title,
           priceMin |-> IF prices = {} THEN 0 ELSE Min(prices)]

Counted == writes < MaxWrites /\ writes' = writes + 1
Fault == faults < MaxFaults /\ faults' = faults + 1

\* One transaction that changes the tables; shown remembers what it made true.
Commit(ps, vs) ==
  /\ Counted
  /\ product' = ps
  /\ variant' = vs
  /\ shown' = [p \in Products |-> shown[p] \union {DocOf(ps, vs, p)}]

StateTypeOK ==
  /\ product \in [Products -> ProductRow \union {None}]
  /\ variant \in [Variants -> VariantRow \union {None}]
  /\ index \in [Products -> Doc \union {None}]
  /\ excused \subseteq Products
  /\ shown \in [Products -> SUBSET (Doc \union {None})]
  /\ writes \in 0..MaxWrites
  /\ faults \in 0..MaxFaults

StateInit ==
  /\ product = [p \in Products |-> None]
  /\ variant = [v \in Variants |-> None]
  /\ index = [p \in Products |-> None]
  /\ excused = {}
  /\ shown = [p \in Products |-> {None}]
  /\ writes = 0
  /\ faults = 0
=============================================================================
