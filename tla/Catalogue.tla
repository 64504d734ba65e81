------------------------------ MODULE Catalogue ------------------------------
(***************************************************************************)
(* The catalogue as a whole: requests to products and variants with their   *)
(* search documents, categories, brands and imports, media, and what reads  *)
(* show of them.                                                            *)
(***************************************************************************)
EXTENDS Taxonomy, Media

vars == <<catalogueState, edit, taxonomyVars, mediaVars>>

Init == StateInit /\ ProductsInit /\ TaxonomyInit /\ MediaInit

Next ==
  \/ ProductsNext /\ UNCHANGED <<taxonomyVars, mediaVars>>
  \/ TaxonomyNext /\ UNCHANGED <<edit, mediaVars>>
  \/ MediaNext /\ UNCHANGED taxonomyVars

Spec == Init /\ [][Next]_vars

TypeOK == StateTypeOK /\ ProductsTypeOK /\ TaxonomyTypeOK /\ MediaTypeOK

-----------------------------------------------------------------------------
(***************************************************************************)
(* Reads of the catalogue: the search endpoint of the admin, the list and   *)
(* the product page of the published store.  None of them changes anything. *)
(***************************************************************************)

Card(p, doc) == [id |-> p, title |-> doc.title, priceMin |-> doc.priceMin]

\* MeiliService.search: the documents with one of the statuses.
Hits(statuses) == {p \in Products : index[p] # None /\ index[p].status \in statuses}

\* The admin's search shows all statuses.
AdminSearch == {[id |-> p, doc |-> index[p]] : p \in Hits(ProductStatus)}

\* listProducts, answered by the index, or from the tables when search is off.
CardsFromIndex == {Card(p, index[p]) : p \in Hits({"ACTIVE"})}
OnSale == {p \in Products : Live(p) /\ product[p].status = "ACTIVE"}
CardsFromTables == {Card(p, DocOf(product, variant, p)) : p \in OnSale}

\* getProduct: 404 unless the product is on sale; the primary images come
\* first, and one whose object cannot be signed for comes without a URL.
Opens(p) == p \in OnSale
Pictures(p) == {i.asset : i \in {j \in images : j.of = p}}

-----------------------------------------------------------------------------

AtRest == \A a \in Editors : edit[a].pc = "idle"

\* Once no request is under way the search index agrees with the tables for
\* every product whose document was not left behind by an outage, a death, an
\* import or a read that a later commit overtook.  So no path through the
\* catalogue service forgets its document: the store lists the cards it would
\* list from the tables, and each opens; a removed product is not listed.
SearchAgreesAtRest ==
  AtRest =>
    /\ \A p \in Products \ excused : index[p] = DocOf(product, variant, p)
    /\ \A card \in CardsFromIndex : card.id \notin excused => card \in CardsFromTables /\ Opens(card.id)
    /\ \A card \in CardsFromTables : card.id \notin excused => card \in CardsFromIndex

\* An asset that was uploaded and confirmed has its object, unless a removal
\* took the object and was then refused or interrupted; an image never refers
\* to an asset whose row is gone, however its removal interleaves.
UploadsAreStored ==
  /\ \A m \in Assets :
       asset[m] # None /\ asset[m].status = "READY" /\ ~asset[m].leaving /\ m \notin half => m \in stored
  /\ \A p \in Products : \A m \in Pictures(p) \union ({primary[p]} \ {None}) : asset[m] # None

Parents(S) == {category[d].parent : d \in S}
Loops == {S \in SUBSET Listed : S # {} /\ Parents(S) = S}

\* c and the listed categories that c hangs from, nearer or farther.
Above(c) == {d \in Listed : \A S \in SUBSET Listed : c \in S /\ Parents(S) \intersect Listed \subseteq S => d \in S}

\* The category tree shows every category but those on or below a loop, none of
\* a loop, and a loop has at least two members, since no category becomes its
\* own parent.
TreeLosesOnlyLoops ==
  /\ \A c \in Listed \ Tree : \E loop \in Loops : loop \subseteq Above(c)
  /\ \A loop \in Loops : loop \intersect Tree = {} /\ \A d \in loop : category[d].parent # d

\* The index implements FollowingIndex: it never shows what the table never
\* said, however reads, commits, outages and reindexing interleave.
Follower == INSTANCE FollowingIndex WITH
  Keys <- Products, Absent <- None, truths <- shown, says <- index

IndexIsFollower == Follower!Spec
=============================================================================
