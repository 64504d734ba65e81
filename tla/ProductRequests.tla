-------------------------- MODULE ProductRequests --------------------------
(***************************************************************************)
(* ProductsService with SearchIndexerService, and the reindex endpoint.     *)
(* A request checks that its target exists in one transaction, writes in a  *)
(* second, reads the product for the index in a third and then calls        *)
(* Meilisearch; others run between any two of these.                        *)
(***************************************************************************)
EXTENDS CatalogueState

CONSTANT Editors   \* requests to the catalogue that are under way at a time

VARIABLE edit      \* Editors -> [pc, op, p, v, seen]; seen holds the documents read for the index

Request(pc, op, p, v, seen) == [pc |-> pc, op |-> op, p |-> p, v |-> v, seen |-> seen]
Idle == Request("idle", None, None, None, <<>>)

ProductOps == {"update", "publish", "remove"}
VariantOps == {"createVariant", "updateVariant", "removeVariant"}

Moves(a, pc) == edit' = [edit EXCEPT ![a].pc = pc]
Ends(a) == edit' = [edit EXCEPT ![a] = Idle]
Begins(a, pc, op, p, v) ==
  /\ edit[a].pc = "idle"
  /\ edit' = [edit EXCEPT ![a] = Request(pc, op, p, v, <<>>)]
  /\ UNCHANGED catalogueState

-----------------------------------------------------------------------------
(* The first transaction: assertProductExists, assertVariantExists.         *)

AssertProductExists(a) ==
  \E p \in Products, op \in ProductOps \union {"createVariant", "addImage"} :
    Live(p) /\ Begins(a, "write", op, p, None)

AssertVariantExists(a) ==
  \E v \in Variants, op \in {"updateVariant", "removeVariant"} :
    /\ variant[v] # None /\ ~variant[v].deleted
    /\ Begins(a, "write", op, variant[v].of, v)

-----------------------------------------------------------------------------
(* The second transaction.  It updates by id and does not look at deletedAt *)
(* again.                                                                   *)

NewProduct(s, st, t) == [slug |-> s, status |-> st, title |-> t, deleted |-> FALSE]

\* What the write makes of the product's row: update changes what the dto
\* holds, here the title, the status or the slug.
Rewritten(row, op) ==
  CASE op = "update"  -> {[row EXCEPT !.title = t] : t \in Titles}
                         \union {[row EXCEPT !.status = st] : st \in Statuses}
                         \union {[row EXCEPT !.slug = s] : s \in {x \in Slugs : ~SlugTaken(x)}}
    [] op = "publish" -> {[row EXCEPT !.status = "ACTIVE"]}
    [] op = "remove"  -> {[row EXCEPT !.deleted = TRUE]}

RewrittenVariant(row, op) ==
  IF op = "updateVariant" THEN {[row EXCEPT !.price = c] : c \in Prices}
  ELSE {[row EXCEPT !.deleted = TRUE]}

\* Mutant of AfterWrite: a removed variant is not indexed again.
AfterWriteForgetting(op) ==
  CASE op = "remove" -> "unindex"
    [] op = "removeVariant" -> "idle"
    [] OTHER -> "sync"

AfterWrite(op) == IF op = "remove" THEN "unindex" ELSE "sync"

WriteProduct(a) ==
  LET p == edit[a].p IN
  /\ edit[a].pc = "write" /\ edit[a].op \in ProductOps
  /\ \E row \in Rewritten(product[p], edit[a].op) : Commit([product EXCEPT ![p] = row], variant)
  /\ Moves(a, AfterWrite(edit[a].op))
  /\ UNCHANGED <<index, excused, faults>>

WriteVariant(a) ==
  LET v == edit[a].v IN
  /\ edit[a].pc = "write" /\ edit[a].op \in {"updateVariant", "removeVariant"}
  /\ \E row \in RewrittenVariant(variant[v], edit[a].op) :
       Commit(product, [variant EXCEPT ![v] = row])
  /\ Moves(a, AfterWrite(edit[a].op))
  /\ UNCHANGED <<index, excused, faults>>

CreateVariant(a) ==
  /\ edit[a].pc = "write" /\ edit[a].op = "createVariant"
  /\ \E v \in Variants, c \in Prices :
       /\ variant[v] = None
       /\ Commit(product, [variant EXCEPT ![v] = [of |-> edit[a].p, price |-> c, deleted |-> FALSE]])
  /\ Moves(a, AfterWrite(edit[a].op))
  /\ UNCHANGED <<index, excused, faults>>

\* create has no first transaction.  A taken slug, a deleted product's too, is
\* answered 409 and changes nothing.
Create(a) ==
  /\ edit[a].pc = "idle"
  /\ \E p \in Products, s \in Slugs, st \in Statuses, t \in Titles :
       /\ product[p] = None /\ ~SlugTaken(s)
       /\ Commit([product EXCEPT ![p] = NewProduct(s, st, t)], variant)
       /\ edit' = [edit EXCEPT ![a] = Request("sync", "create", p, None, <<>>)]
  /\ UNCHANGED <<index, excused, faults>>

\* A unique index, on sku or slug, refuses the write.  Skus are not modelled,
\* so any write of a variant may be refused.
WriteRefused(a) ==
  /\ edit[a].pc = "write"
  /\ edit[a].op \in {"createVariant", "updateVariant", "update"}
  /\ Ends(a)
  /\ UNCHANGED catalogueState

-----------------------------------------------------------------------------
(* SearchIndexerService: its errors are logged and swallowed.               *)

\* Mutant of ReadForSync: the price is taken over from the old document.
ReadForSyncPartly(a) ==
  LET p == edit[a].p
      doc == DocOf(product, variant, p)
  IN /\ edit[a].pc = "sync"
     /\ edit' = [edit EXCEPT ![a].pc = "put", ![a].seen =
          [q \in {p} |-> IF doc = None \/ index[p] = None THEN doc ELSE [doc EXCEPT !.priceMin = index[p].priceMin]]]
     /\ UNCHANGED catalogueState

\* syncProduct reads the product again, with its variants.
ReadForSync(a) ==
  /\ edit[a].pc = "sync"
  /\ edit' = [edit EXCEPT ![a] = Request("put", edit[a].op, edit[a].p, edit[a].v,
                                          [p \in {edit[a].p} |-> DocOf(product, variant, p)])]
  /\ UNCHANGED catalogueState

\* The documents become docs; one is behind if its row has moved on.
Indexed(docs) ==
  LET fresh == {p \in DOMAIN docs : docs[p] = DocOf(product, variant, p)} IN
  /\ index' = [p \in Products |-> IF p \in DOMAIN docs THEN docs[p] ELSE index[p]]
  /\ excused' = (excused \ fresh) \union (DOMAIN docs \ fresh)
  /\ UNCHANGED <<tables, shown, writes, faults>>

PutDocument(a) ==
  /\ edit[a].pc = "put"
  /\ Indexed(edit[a].seen)
  /\ Ends(a)

\* removeProduct deletes the document without reading the row.
RemoveDocument(a) ==
  /\ edit[a].pc = "unindex"
  /\ Indexed([p \in {edit[a].p} |-> None])
  /\ Ends(a)

\* Meilisearch is down, or the API process stops: the document is not written.
IndexUnreachable(a) ==
  /\ edit[a].pc \in {"put", "unindex"}
  /\ Fault
  /\ excused' = excused \union {edit[a].p}
  /\ Ends(a)
  /\ UNCHANGED <<tables, index, shown, writes>>

EditDies(a) ==
  /\ edit[a].pc # "idle"
  /\ Fault
  /\ excused' = IF edit[a].pc = "write" \/ edit[a].p = None THEN excused ELSE excused \union {edit[a].p}
  /\ Ends(a)
  /\ UNCHANGED <<tables, index, shown, writes>>

\* reindexTenant reads every live product and writes all their documents in
\* one call.  It removes none.
ReadForReindex(a) ==
  /\ edit[a].pc = "idle"
  /\ \E p \in Products : Live(p)
  /\ edit' = [edit EXCEPT ![a] = Request("bulk", None, None, None,
                                          [p \in {q \in Products : Live(q)} |-> DocOf(product, variant, p)])]
  /\ UNCHANGED catalogueState

PutAll(a) ==
  /\ edit[a].pc = "bulk"
  /\ Indexed(edit[a].seen)
  /\ Ends(a)

ProductStep(a) ==
  \/ WriteProduct(a) \/ WriteVariant(a) \/ CreateVariant(a) \/ WriteRefused(a)
  \/ ReadForSync(a) \/ PutDocument(a) \/ RemoveDocument(a) \/ PutAll(a)

ProductsNext ==
  \E a \in Editors :
    \/ Create(a) \/ AssertProductExists(a) \/ AssertVariantExists(a)
    \/ ReadForReindex(a) \/ ProductStep(a) \/ IndexUnreachable(a) \/ EditDies(a)

ProductsTypeOK ==
  edit \in [Editors -> [pc : {"idle", "write", "sync", "put", "unindex", "bulk"},
                           op : ProductOps \union VariantOps \union {"create", "addImage", None},
                           p : Products \union {None}, v : Variants \union {None},
                           seen : UNION {[S -> Doc \union {None}] : S \in SUBSET Products}]]

ProductsInit == edit = [a \in Editors |-> Idle]
=============================================================================
