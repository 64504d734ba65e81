------------------------------ MODULE FormPages ------------------------------
(***************************************************************************)
(* The pages with a form: one product, a new one, brands, categories, the   *)
(* import, stock locations and the Stripe account.                          *)
(***************************************************************************)
EXTENDS ConsoleState

Leaves(w) == [w EXCEPT !.here = FALSE]

-----------------------------------------------------------------------------
(* one product                                                              *)

\* Nothing is offered while the product loads, or when it could not be loaded.
Offered == ~win.loading /\ ~win.failed /\ win.list # None
Product == Order[1]

\* Every field is written, so what others wrote since the load is undone.
Save ==
  /\ Offered /\ win.busy["save"] = None
  /\ \E s \in {"DRAFT", "ACTIVE"} :
       Send(win, "save", "on", Call("save", Product, s, win.query, "save", TRUE))

PublishIt ==
  /\ Offered /\ win.list.rows[Product] # "ACTIVE" /\ win.busy["panel"] = None
  /\ Send(win, "panel", "on", Call("publish", Product, "ACTIVE", win.query, "panel", TRUE))

DeleteIt ==
  /\ Offered /\ win.busy["panel"] = None
  /\ Send(win, "panel", "on", Call("delete", Product, None, win.query, "panel", FALSE))

ChangeVariants ==
  /\ Offered
  /\ \/ win.busy["start"] = None /\ Send(win, "start", "on", Call("add variant", Product, "same", win.query, "start", FALSE))
     \/ win.busy["row"] = None /\ Send(win, "row", "on", Call("drop variant", Product, "same", win.query, "row", FALSE))

\* hydrate(updated): the answer is what the page shows from now on.
Hydrated(k) ==
  /\ At(k, {"save", "publish"})
  /\ win' = [Release(Acknowledged(k), call[k].flag) EXCEPT !.list = call[k].got]
  /\ call' = Without(k)
  /\ UNCHANGED <<serverVars, clicks>>

ProductDeleted(k) ==
  /\ At(k, {"delete"})
  /\ win' = Leaves(win)
  /\ call' = Without(k)
  /\ UNCHANGED <<serverVars, clicks>>

VariantsChanged(k) ==
  /\ At(k, {"add variant", "drop variant"})
  /\ ReloadIn(k, Release(Acknowledged(k), call[k].flag))
  /\ UNCHANGED <<serverVars, clicks>>

ProductPage ==
  /\ page = "product" /\ win.here
  /\ \/ Save \/ PublishIt \/ DeleteIt \/ ChangeVariants
     \/ \E k \in Slots : Hydrated(k) \/ ProductDeleted(k) \/ VariantsChanged(k)

-----------------------------------------------------------------------------
(* new products, brands, categories and locations                           *)

Create(lists) ==
  /\ win.busy["save"] = None
  /\ Send(win, "save", "on", Call("create", New, Statuses[1], win.query, "save", lists))

NewProductPage ==
  /\ page = "new product"
  /\ \/ Create(FALSE)
     \/ \E k \in Slots : /\ At(k, {"create"})
                         /\ win' = Leaves(win) /\ call' = Without(k)
                         /\ UNCHANGED <<serverVars, clicks>>

\* The form is enabled while its effect loads the list anew.
CreatedThenReload(k) ==
  /\ At(k, {"create"})
  /\ ReloadIn(k, Release(Acknowledged(k), "save"))
  /\ UNCHANGED <<serverVars, clicks>>

BrandsPage == page = "brands" /\ (Create(FALSE) \/ \E k \in Slots : CreatedThenReload(k))

CategoriesPage == page = "categories" /\ (Create(FALSE) \/ \E k \in Slots : CreatedThenReload(k))

\* The form is disabled until the list has come.
CreatedThenLoad(k) ==
  /\ At(k, {"create"})
  /\ LoadIn(k, Acknowledged(k), Without(k), call[k].back, "save", TRUE)
  /\ UNCHANGED <<serverVars, clicks>>

LocationsPage == page = "locations" /\ (Create(TRUE) \/ \E k \in Slots : CreatedThenLoad(k))

-----------------------------------------------------------------------------
(* the import and the Stripe account                                        *)

ImportsPage ==
  /\ page = "imports"
  /\ \/ Create(FALSE)
     \/ \E k \in Slots : /\ At(k, {"create"})
                         /\ win' = Release(win, "save") /\ call' = Without(k)
                         /\ UNCHANGED <<serverVars, clicks>>

Connected == win.list # None /\ DOMAIN win.list.rows # {}

CreateAccount ==
  /\ ~win.loading /\ ~Connected /\ win.busy["save"] = None
  /\ Send(win, "save", "on", Call("account", Order[1], "LISTED", win.query, "save", TRUE))

StartOnboarding ==
  /\ ~win.loading /\ Connected /\ win.busy["save"] = None
  /\ Send(win, "save", "on", Call("put", Order[1], "same", win.query, "save", FALSE))

Refresh == ~win.loading /\ Connected /\ Clicked /\ Load(win) /\ UNCHANGED serverVars

AccountAnswered(k) ==
  /\ At(k, {"account", "put"})
  /\ win' = IF call[k].kind = "put" THEN Leaves(win)
            ELSE [Release(Acknowledged(k), "save") EXCEPT !.list = call[k].got, !.failed = FALSE]
  /\ call' = Without(k)
  /\ UNCHANGED <<serverVars, clicks>>

ConnectPage ==
  /\ page = "connect"
  /\ CreateAccount \/ StartOnboarding \/ Refresh \/ \E k \in Slots : AccountAnswered(k)
=============================================================================
