------------------------------ MODULE Taxonomy ------------------------------
(***************************************************************************)
(* CategoriesService and BrandsService, and the importer, which makes       *)
(* products and brands.  Requests to categories check in one transaction    *)
(* and write in a second; an import commits row by row.                     *)
(***************************************************************************)
EXTENDS CatalogueState, Sequences

CONSTANTS
  Categories,  \* ids of categories
  BrandNames,  \* names of brands; a brand's slug is made from its first name
  Sheets       \* files that may be imported: sequences of [slug, brand]

VARIABLES
  category,    \* Categories -> [parent, deleted] or None
  brand,       \* BrandNames, as slugs -> the brand's present name or None
  arrange,     \* the update of a category that is under way, or None
  import       \* rows still to import

taxonomyVars == <<category, brand, arrange, import>>

SheetRow == [slug : Slugs, brand : BrandNames \union {None}]

CategoryRow == [parent : Categories \union {None}, deleted : BOOLEAN]

ASSUME TaxonomyAssumption ==
  /\ Sheets \subseteq Seq(SheetRow)
  /\ IsFiniteSet(Categories)
  /\ None \notin Categories /\ None \notin CategoryRow
  /\ None \notin [c : Categories, up : Categories \union {None}]

Standing(c) == category[c] # None /\ ~category[c].deleted

\* These tables touch no product.
Elsewhere == UNCHANGED <<tables, index, excused, shown, faults>>

CreateCategory ==
  /\ \E c \in Categories, up \in Categories \union {None} :
       /\ category[c] = None
       /\ up # None => Standing(up)
       /\ category' = [category EXCEPT ![c] = [parent |-> up, deleted |-> FALSE]]
  /\ Counted /\ Elsewhere
  /\ UNCHANGED <<brand, arrange, import>>

\* Mutant of CheckParent: a category may become its own parent.
CheckParentExists ==
  /\ arrange = None
  /\ \E c \in Categories, up \in Categories \union {None} :
       /\ Standing(c)
       /\ up # None => Standing(up)
       /\ arrange' = [c |-> c, up |-> up]
  /\ UNCHANGED <<catalogueState, category, brand, import>>

\* update: the category and its new parent exist, and they differ; that the
\* parent is not below the category is not asked.
CheckParent ==
  /\ arrange = None
  /\ \E c \in Categories, up \in Categories \union {None} :
       /\ Standing(c) /\ up # c
       /\ up # None => Standing(up)
       /\ arrange' = [c |-> c, up |-> up]
  /\ UNCHANGED <<catalogueState, category, brand, import>>

MoveCategory ==
  /\ arrange # None
  /\ category' = [category EXCEPT ![arrange.c].parent = arrange.up]
  /\ arrange' = None
  /\ Counted /\ Elsewhere
  /\ UNCHANGED <<brand, import>>

\* A soft delete: the children keep their parentId.
RemoveCategory ==
  /\ \E c \in Categories : Standing(c) /\ category' = [category EXCEPT ![c].deleted = TRUE]
  /\ Counted /\ Elsewhere
  /\ UNCHANGED <<brand, arrange, import>>

-----------------------------------------------------------------------------
(* tree: nodes below a listed parent hang from it, the others are roots.    *)

Listed == {c \in Categories : Standing(c)}
Roots == {c \in Listed : category[c].parent \notin Listed}

HangTogether(S) == \A c \in Listed : category[c].parent \in S => c \in S

\* What a reader of the tree gets to see: the roots and all that hangs below,
\* so no more than any set that has the roots and the children of its members.
Tree == {c \in Listed : \A S \in SUBSET Listed : Roots \subseteq S /\ HangTogether(S) => c \in S}

-----------------------------------------------------------------------------

CreateBrand ==
  /\ \E s \in BrandNames : brand[s] = None /\ brand' = [brand EXCEPT ![s] = s]
  /\ Counted /\ Elsewhere
  /\ UNCHANGED <<category, arrange, import>>

\* update changes the name and keeps the slug; products are not indexed again.
RenameBrand ==
  /\ \E s, n \in BrandNames : brand[s] # None /\ brand' = [brand EXCEPT ![s] = n]
  /\ Counted /\ Elsewhere
  /\ UNCHANGED <<category, arrange, import>>

RemoveBrand ==
  /\ \E s \in BrandNames : brand[s] # None /\ brand' = [brand EXCEPT ![s] = None]
  /\ Counted /\ Elsewhere
  /\ UNCHANGED <<category, arrange, import>>

-----------------------------------------------------------------------------
(* importRow, one transaction per row: created, skipped or an error, after  *)
(* which the import goes on.                                                *)

StartImport ==
  /\ import = <<>>
  /\ import' \in Sheets
  /\ UNCHANGED <<catalogueState, category, brand, arrange>>

NextRow == import' = Tail(import)

BrandNamed(n) == \E s \in BrandNames : brand[s] = n

\* The brand is found by its name or made; its slug may belong to a brand that
\* has another name by now.
CanUpsertBrand(n) == n # None => BrandNamed(n) \/ brand[n] = None
WithBrand(n) == IF n = None \/ BrandNamed(n) THEN brand ELSE [brand EXCEPT ![n] = n]

\* A product with the slug exists, deleted ones included.
SkipRow ==
  /\ import # <<>>
  /\ SlugTaken(Head(import).slug)
  /\ NextRow
  /\ UNCHANGED <<catalogueState, category, brand, arrange>>

\* A DRAFT product with a default variant.  Nothing is written to the index.
ImportRow ==
  /\ import # <<>>
  /\ ~SlugTaken(Head(import).slug)
  /\ CanUpsertBrand(Head(import).brand)
  /\ \E p \in Products, v \in Variants, t \in Titles, c \in Prices :
       /\ product[p] = None /\ variant[v] = None
       /\ Commit([product EXCEPT ![p] = [slug |-> Head(import).slug, status |-> "DRAFT",
                                         title |-> t, deleted |-> FALSE]],
                 [variant EXCEPT ![v] = [of |-> p, price |-> c, deleted |-> FALSE]])
       /\ excused' = excused \union {p}
  /\ brand' = WithBrand(Head(import).brand)
  /\ NextRow
  /\ UNCHANGED <<index, faults, category, arrange>>

RowFails ==
  /\ import # <<>>
  /\ ~SlugTaken(Head(import).slug)
  /\ ~CanUpsertBrand(Head(import).brand)
  /\ NextRow
  /\ UNCHANGED <<catalogueState, category, brand, arrange>>

TaxonomyNext ==
  \/ CreateCategory \/ CheckParent \/ MoveCategory \/ RemoveCategory
  \/ CreateBrand \/ RenameBrand \/ RemoveBrand
  \/ StartImport \/ SkipRow \/ ImportRow \/ RowFails

TaxonomyTypeOK ==
  /\ category \in [Categories -> CategoryRow \union {None}]
  /\ brand \in [BrandNames -> BrandNames \union {None}]
  /\ arrange \in [c : Categories, up : Categories \union {None}] \union {None}
  /\ import \in Seq(SheetRow)

TaxonomyInit ==
  /\ category = [c \in Categories |-> None]
  /\ brand = [s \in BrandNames |-> None]
  /\ arrange = None
  /\ import = <<>>
=============================================================================
