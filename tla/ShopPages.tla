------------------------------ MODULE ShopPages ------------------------------
(***************************************************************************)
(* The store's pages in the tabs of one browser, which share the cart's     *)
(* token in localStorage: the product list, a product, the cart and the     *)
(* customer's orders.  A handler runs until its first await; the rest runs  *)
(* when the answer arrives, in any order, even if the page was left.        *)
(***************************************************************************)
EXTENDS CartService

CONSTANTS
  Tabs,
  Terms,       \* search terms
  Products,    \* products whose page is visited
  OrderNumbers,
  MaxClicks    \* bound on what the user does

VARIABLES
  stored,      \* the token in localStorage, or None
  tab,         \* Tabs -> what the page shows
  clicks       \* what the user has done so far

Things == Terms \union Products \union OrderNumbers
pageVars == <<stored, tab, clicks>>

\* asked is what the page is to show, shown what it shows (a view on the cart
\* page), busy disables the button that submits.
Tab == [page : {"home", "shop", "product", "cart", "orders", "away", "success"}, asked : Things \union {None},
        shown : Things \union {None} \union Lines, loading : BOOLEAN, busy : BOOLEAN]

Blank(page, asked, loading) ==
  [page |-> page, asked |-> asked, shown |-> None, loading |-> loading, busy |-> FALSE]

Shows(t, page) == tab[t].page = page

\* A call takes any slot that is free; they are all alike.
SlotFree == \E k \in Slots : call[k] = None
Slot == CHOOSE k \in Slots : call[k] = None

\* A click, or the effect that a page runs when it appears.
Clicked == clicks < MaxClicks /\ clicks' = clicks + 1
Keep(t, new) == tab' = [tab EXCEPT ![t] = new]

\* Calls of a page that is gone, or whose effect was cleaned up, are not waited for.
Abandon(t, kinds) ==
  [k \in Slots |-> IF call[k] # None /\ call[k].from = t /\ call[k].kind \in kinds
                   THEN [call[k] EXCEPT !.from = None] ELSE call[k]]

AllKinds == {"create", "add", "set", "view", "checkout", "list", "product", "lookup", "return", "hidden return"}

\* A call; from is None once the tab has given it up.
CallThings == Things \union {None} \union Lines
CallPC == {"sent", "write", "lost", "view", "answered"}
Reading == [line : Line \union {None}, qty : Nat, price : Prices] \union {None}
Outcomes == {"ok", "refused", "gone", "failed"}
CallRow ==
  [from : Tabs \union {None}, kind : AllKinds, thing : CallThings, v : Variants \union {None},
   qty : 0..(MaxStock + 1), token : Tokens \union {None, Stale}, pc : CallPC, read : Reading,
   why : Outcomes \union {None}, view : Lines \union {None}, again : BOOLEAN]

ASSUME PagesAssumption ==
  /\ MaxOffers \in Nat /\ MaxClicks \in Nat /\ Tokens # {}
  /\ None \notin Tabs /\ None \notin CallRow

Send(t, kind, thing, token, waiting) ==
  SlotFree /\ call' = [waiting EXCEPT ![Slot] = Call(t, kind, thing, token)]

\* A page is opened and loads what it shows; the orders page, and the cart page
\* without a token, load nothing.
OpenShop(t, term) ==
  /\ Clicked /\ UNCHANGED <<shopState, stored>>
  /\ Keep(t, Blank("shop", term, TRUE))
  /\ Send(t, "list", term, None, Abandon(t, AllKinds))

OpenProduct(t, p) ==
  /\ Clicked /\ UNCHANGED <<shopState, stored>>
  /\ Keep(t, Blank("product", p, TRUE))
  /\ Send(t, "product", p, None, Abandon(t, AllKinds))

OpenCart(t) ==
  /\ Clicked /\ UNCHANGED <<shopState, stored>>
  /\ Keep(t, Blank("cart", None, stored # None))
  /\ IF stored = None THEN call' = Abandon(t, AllKinds)
     ELSE Send(t, "view", None, stored, Abandon(t, AllKinds))

OpenOrders(t) ==
  /\ Clicked /\ UNCHANGED <<shopState, stored>>
  /\ Keep(t, Blank("orders", None, FALSE))
  /\ call' = Abandon(t, AllKinds)

\* Stripe sends the buyer back; the success page forgets the cart.
PaidAndBack(t) ==
  /\ Shows(t, "away") /\ Clicked
  /\ stored' = None
  /\ Keep(t, Blank("success", None, FALSE))
  /\ UNCHANGED <<shopState, call>>

-----------------------------------------------------------------------------
(* The list and the product.                                                *)

\* Mutant of Search: the effect of the search before is not cleaned up.
SearchUncancelled(t, term) ==
  /\ Shows(t, "shop") /\ term # tab[t].asked /\ Clicked
  /\ Keep(t, [tab[t] EXCEPT !.asked = term, !.loading = TRUE])
  /\ Send(t, "list", term, None, call)
  /\ UNCHANGED <<shopState, stored>>

\* A term is submitted: the page gives up on the search before (active = false).
Search(t, term) ==
  /\ Shows(t, "shop") /\ term # tab[t].asked /\ Clicked
  /\ Keep(t, [tab[t] EXCEPT !.asked = term, !.loading = TRUE])
  /\ Send(t, "list", term, None, Abandon(t, {"list"}))
  /\ UNCHANGED <<shopState, stored>>

\* onAdd: the button is there once the product is, and not while adding.
AddClicked(t) ==
  /\ Shows(t, "product") /\ tab[t].shown # None /\ ~tab[t].loading /\ ~tab[t].busy /\ Clicked
  /\ Keep(t, [tab[t] EXCEPT !.busy = TRUE])
  /\ SlotFree
  /\ \E v \in Variants : call' = [call EXCEPT ![Slot] =
       [Call(t, IF stored = None THEN "create" ELSE "add", tab[t].shown, stored) EXCEPT !.v = v, !.qty = 1]]
  /\ UNCHANGED <<shopState, stored>>

-----------------------------------------------------------------------------
(* The cart.                                                                *)

Lined(t, v) == Shows(t, "cart") /\ tab[t].shown # None /\ ~tab[t].loading /\ tab[t].shown[v] # None

\* Mutant of ChangeQty: the page shows the new quantity before it is stored.
ChangeQtyAtOnce(t, v, qty) ==
  /\ Lined(t, v) /\ stored # None /\ Clicked
  /\ Keep(t, [tab[t] EXCEPT !.shown = [@ EXCEPT ![v] = IF qty = 0 THEN None ELSE [@ EXCEPT !.qty = qty]]])
  /\ SlotFree /\ call' = [call EXCEPT ![Slot] = [Call(t, "set", None, stored) EXCEPT !.v = v, !.qty = qty]]
  /\ UNCHANGED <<shopState, stored>>

\* + and - and "Remove": nothing is disabled meanwhile, and the token is the
\* one stored now; without one it is an error.
ChangeQty(t, v, qty) ==
  /\ Lined(t, v) /\ stored # None /\ Clicked
  /\ SlotFree /\ call' = [call EXCEPT ![Slot] = [Call(t, "set", None, stored) EXCEPT !.v = v, !.qty = qty]]
  /\ UNCHANGED <<shopState, stored, tab>>

\* The quantities that the line's buttons send; what is shown was in stock once.
Clickable(t, v) ==
  {0} \union {qty \in 0..(MaxStock + 1) : qty \in {tab[t].shown[v].qty - 1, tab[t].shown[v].qty + 1}}

CheckoutClicked(t) ==
  /\ \E v \in Variants : Lined(t, v)
  /\ stored # None /\ ~tab[t].busy /\ Clicked
  /\ Keep(t, [tab[t] EXCEPT !.busy = TRUE])
  /\ Send(t, "checkout", None, stored, call)
  /\ UNCHANGED <<shopState, stored>>

-----------------------------------------------------------------------------
(* The customer's orders.                                                   *)

\* "Find order" hides the order that is shown; a return asked for on it goes on.
Lookup(t, order) ==
  /\ Shows(t, "orders") /\ ~tab[t].loading /\ Clicked
  /\ Keep(t, Blank("orders", order, TRUE))
  /\ Send(t, "lookup", order, None,
          [k \in Slots |-> IF call[k] # None /\ call[k].from = t /\ call[k].kind = "return"
                           THEN [call[k] EXCEPT !.kind = "hidden return"] ELSE call[k]])
  /\ UNCHANGED <<shopState, stored>>

\* A return for the order that is shown; the number typed by now is the one
\* that will be looked up afterwards.
AskReturn(t, typed) ==
  /\ Shows(t, "orders") /\ tab[t].shown # None /\ ~tab[t].busy /\ Clicked
  /\ Keep(t, [tab[t] EXCEPT !.busy = TRUE])
  /\ Send(t, "return", typed, None, call)
  /\ UNCHANGED <<shopState, stored>>

-----------------------------------------------------------------------------
(* Answers.  The state of a tab that is gone is not set, but the rest of a  *)
(* handler runs.                                                            *)

Done(k) == [call EXCEPT ![k] = None]

\* The tab that waits for k, if it is still there, becomes new(tab).
Shown(k, new(_)) ==
  tab' = [t \in Tabs |-> IF t = call[k].from THEN new(tab[t]) ELSE tab[t]]

\* The shop and product pages show what came, or an error in its place.
Loaded(k) ==
  LET New(s) == [s EXCEPT !.loading = FALSE,
                          !.shown = IF call[k].why = "ok" THEN call[k].thing ELSE None]
  IN /\ At(k, "answered", "list") \/ At(k, "answered", "product")
     /\ Shown(k, New)
     /\ call' = Done(k)
     /\ UNCHANGED <<shopState, stored, clicks>>

\* doLookup: after an error an order that is still shown stays.
LookedUp(k) ==
  LET New(s) == [s EXCEPT !.loading = FALSE, !.shown = IF call[k].why = "ok" THEN call[k].thing ELSE @] IN
  /\ At(k, "answered", "lookup")
  /\ Shown(k, New)
  /\ call' = Done(k)
  /\ UNCHANGED <<shopState, stored, clicks>>

\* getCart: a cart that is not found clears whatever token is stored by now.
CartLoaded(k) ==
  LET c == call[k]
      New(s) == [s EXCEPT !.loading = FALSE, !.shown = c.view]
  IN /\ At(k, "answered", "view")
     /\ stored' = IF c.why = "gone" THEN None ELSE stored
     /\ Shown(k, New)
     /\ call' = Done(k)
     /\ UNCHANGED <<shopState, clicks>>

QtyChanged(k) ==
  LET New(s) == IF call[k].why = "ok" THEN [s EXCEPT !.shown = call[k].view] ELSE s IN
  /\ At(k, "answered", "set")
  /\ Shown(k, New)
  /\ call' = Done(k)
  /\ UNCHANGED <<shopState, stored, clicks>>

\* addToCart: the new cart's token is stored and the item is sent.
CartCreated(k) ==
  /\ At(k, "answered", "create") /\ call[k].why = "ok"
  /\ stored' = call[k].token
  /\ call' = [call EXCEPT ![k] = [@ EXCEPT !.kind = "add", !.pc = "sent", !.why = None]]
  /\ UNCHANGED <<shopState, tab, clicks>>

\* The token was stale: once more with a fresh cart.
AddAgain(k) ==
  /\ At(k, "answered", "add") /\ call[k].why = "gone" /\ ~call[k].again
  /\ call' = [call EXCEPT ![k] = [@ EXCEPT !.kind = "create", !.pc = "sent", !.why = None, !.again = TRUE]]
  /\ UNCHANGED <<shopState, stored, tab, clicks>>

Ready(s) == [s EXCEPT !.busy = FALSE]

\* Mutant of Added: an error leaves the button as it is.
AddedOrStuck(k) ==
  /\ \/ At(k, "answered", "add") /\ (call[k].why = "gone" => call[k].again)
     \/ At(k, "answered", "create") /\ call[k].why = "failed"
  /\ IF call[k].why = "ok" THEN Shown(k, Ready) ELSE UNCHANGED tab
  /\ call' = Done(k)
  /\ UNCHANGED <<shopState, stored, clicks>>

Added(k) ==
  /\ \/ At(k, "answered", "add") /\ (call[k].why = "gone" => call[k].again)
     \/ At(k, "answered", "create") /\ call[k].why = "failed"
  /\ Shown(k, Ready)
  /\ call' = Done(k)
  /\ UNCHANGED <<shopState, stored, clicks>>

\* onCheckout leaves for Stripe, or shows the error.
CheckedOut(k) ==
  LET New(s) == IF call[k].why = "ok" THEN Blank("away", None, FALSE) ELSE Ready(s) IN
  /\ At(k, "answered", "checkout")
  /\ Shown(k, New)
  /\ call' = Done(k)
  /\ UNCHANGED <<shopState, stored, clicks>>

\* submitReturn: onChanged looks the order up again, whatever is shown by now;
\* the button of a view that was hidden is no longer there.
Returned(k) ==
  LET c == call[k]
      New(s) == [s EXCEPT !.busy = (c.kind = "hidden return" /\ @), !.loading = (c.why = "ok" \/ @)]
  IN /\ At(k, "answered", "return") \/ At(k, "answered", "hidden return")
     /\ Shown(k, New)
     /\ call' = [call EXCEPT ![k] = IF c.why = "ok" THEN Call(c.from, "lookup", c.thing, None) ELSE None]
     /\ UNCHANGED <<shopState, stored, clicks>>

Arrive(k) ==
  \/ Loaded(k) \/ LookedUp(k) \/ CartLoaded(k) \/ QtyChanged(k) \/ CartCreated(k) \/ AddAgain(k) \/ Added(k)
  \/ CheckedOut(k) \/ Returned(k)

UserStep(t) ==
  \/ \E x \in Terms : OpenShop(t, x) \/ Search(t, x)
  \/ \E p \in Products : OpenProduct(t, p)
  \/ \E o \in OrderNumbers : Lookup(t, o) \/ AskReturn(t, o)
  \/ OpenCart(t) \/ OpenOrders(t) \/ PaidAndBack(t)
  \/ AddClicked(t) \/ CheckoutClicked(t)
  \/ \E v \in Variants : Lined(t, v) /\ \E qty \in Clickable(t, v) : ChangeQty(t, v, qty)

\* A visitor has no cart yet, one from before, or the token of one that is gone.
PagesInit ==
  /\ \/ stored \in {None, Stale} /\ cart = [token \in Tokens |-> None]
     \/ LET old == CHOOSE x \in Tokens : TRUE IN
        stored = old /\ cart = [token \in Tokens |-> IF token = old THEN OldCart ELSE None]
  /\ tab = [t \in Tabs |-> Blank("home", None, FALSE)]
  /\ clicks = 0
=============================================================================
