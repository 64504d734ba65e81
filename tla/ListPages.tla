------------------------------ MODULE ListPages ------------------------------
(***************************************************************************)
(* The pages with a table and an action per row: products, inventory,       *)
(* orders with their shipments, returns and privacy requests.               *)
(***************************************************************************)
EXTENDS ConsoleState

-----------------------------------------------------------------------------
(* products                                                                 *)

OnlyRowOfLaterPage == Cardinality(DOMAIN win.list.rows) = 1 /\ win.query.page > 1

Publish(r) ==
  /\ Shows(r) /\ win.list.rows[r] # "ACTIVE" /\ win.busy["row"] # r
  /\ Send(win, "row", r, Call("publish", r, "ACTIVE", win.query, "row", FALSE))

DeleteProduct(r) ==
  /\ Shows(r) /\ win.busy["row"] # r
  /\ Send(win, "row", r, Call(IF OnlyRowOfLaterPage THEN "delete last" ELSE "delete", r, None, win.query, "row", FALSE))

\* The list is loaded anew, one page before if the page is empty now; the page
\* may have been turned meanwhile.
ProductDone(k) ==
  LET w == Release(Acknowledged(k), "row") IN
  /\ At(k, {"publish", "delete", "delete last"})
  /\ ReloadIn(k, IF call[k].kind = "delete last" THEN [w EXCEPT !.query = PageBefore(@)] ELSE w)
  /\ UNCHANGED <<serverVars, clicks>>

ProductsPage ==
  /\ page = "products"
  /\ \/ Refilter \/ Resize \/ TurnPage
     \/ \E r \in Rows : Publish(r) \/ DeleteProduct(r)
     \/ \E k \in Slots : ProductDone(k)

-----------------------------------------------------------------------------
(* inventory                                                                *)

\* The form keeps what it holds if it is open already: it has no key.
OpenAdjust(target) ==
  /\ Clicked
  /\ target # None => Shows(target)
  /\ IF win.form # None /\ win.form.kind = "adjust" THEN UNCHANGED <<win, call>>
     ELSE /\ win' = [Release(win, "save") EXCEPT !.form = [kind |-> "adjust", of |-> target]]
          /\ call' = Detached(call, {"save"})
  /\ UNCHANGED serverVars

CloseForm == [Release(win, "save") EXCEPT !.form = None]

\* "New inventory item" opens and closes its form; "Cancel" closes either.
ToggleNewItem ==
  /\ Clicked
  /\ win' = IF win.form # None /\ win.form.kind = "new" THEN CloseForm
            ELSE [CloseForm EXCEPT !.form = [kind |-> "new", of |-> None]]
  /\ call' = Detached(call, {"save"})
  /\ UNCHANGED serverVars

CancelForm == Clicked /\ win.form # None /\ win' = CloseForm /\ call' = Detached(call, {"save"}) /\ UNCHANGED serverVars

SubmitAdjust(r) ==
  /\ win.form # None /\ win.form.kind = "adjust" /\ win.busy["save"] = None
  /\ win.form.of # None => r = win.form.of
  /\ Send(win, "save", "on", Call("adjust", r, "same", win.query, "save", TRUE))

SubmitNewItem ==
  /\ win.form # None /\ win.form.kind = "new" /\ win.busy["save"] = None
  /\ Send(win, "save", "on", Call("create", New, "LISTED", win.query, "save", TRUE))

\* Whichever form of the kind is open by now is closed, and the list is loaded
\* for the query that the handler closed over.
FormDone(k) ==
  LET w == Acknowledged(k)
      closes == win.form # None /\ (win.form.kind = "adjust") = (call[k].kind = "adjust")
      rest == IF closes THEN Detached(Without(k), {"save"}) ELSE Without(k)
  IN /\ At(k, {"adjust", "create"})
     /\ LoadIn(k, IF closes THEN [Release(w, "save") EXCEPT !.form = None] ELSE w, rest, call[k].back, None, TRUE)
     /\ UNCHANGED <<serverVars, clicks>>

InventoryPage ==
  /\ page = "inventory"
  /\ \/ Resize \/ TurnPage \/ ToggleNewItem \/ CancelForm \/ SubmitNewItem \/ OpenAdjust(None)
     \/ \E r \in Rows : OpenAdjust(r) \/ SubmitAdjust(r)
     \/ \E k \in Slots : FormDone(k)

-----------------------------------------------------------------------------
(* orders                                                                   *)

\* The panel shows an order; another one than before has its shipments loaded,
\* in slot k.
PanelWith(k, w, calls, shown) ==
  /\ win' = [w EXCEPT !.panel = shown, !.section = IF w.panel = None THEN None ELSE @]
  /\ call' = IF w.panel # None /\ w.panel.of = shown.of THEN calls
             ELSE [calls EXCEPT ![k] = Call("section", shown.of, None, None, None, FALSE)]

OpenOrder(r) ==
  /\ Shows(r) /\ Clicked
  /\ FreeIn(call) # {}
  /\ call' = [call EXCEPT ![FirstIn(FreeIn(call))] = Call("open", r, None, None, None, FALSE)]
  /\ UNCHANGED <<serverVars, win>>

OrderOpened(k) ==
  /\ At(k, {"open"})
  /\ PanelWith(k, win, Without(k), call[k].got)
  /\ UNCHANGED <<serverVars, clicks>>

\* The shipments and what they wait for go with the panel.
CloseOrder ==
  /\ win.panel # None /\ Clicked
  /\ win' = [Release(Release(win, "panel"), "section") EXCEPT !.panel = None, !.section = None]
  /\ call' = Detached(Cancelled(call, {"section"}), {"panel", "section"})
  /\ UNCHANGED serverVars

RefundOrder ==
  /\ win.panel # None /\ win.panel.status = "PAID" /\ win.busy["panel"] = None
  /\ Send(win, "panel", "on", Call("refund", win.panel.of, "REFUNDED", win.query, "panel", TRUE))

\* The panel shows the refunded order, whatever it shows by now, and the list
\* is loaded for the query that the handler closed over.
RefundDone(k) ==
  LET c == call[k]
      w == [Release(Acknowledged(k), c.flag) EXCEPT !.loading = TRUE, !.raced = ListsLater(Without(k)) \/ @]
      loads == [call EXCEPT ![k] = GetList(c.back, None)]
  IN /\ At(k, {"refund"}) /\ FreeIn(loads) # {}
     /\ PanelWith(FirstIn(FreeIn(loads)), w, loads, [of |-> c.row, status |-> "REFUNDED"])
     /\ UNCHANGED <<serverVars, clicks>>

\* "Mark shipped" is about the shipment that is shown, the load afterwards
\* about the order that the panel shows.
ShipmentClicked ==
  /\ win.panel # None /\ win.busy["section"] = None
  /\ \/ Send(win, "section", "on",
             Call("new shipment", win.panel.of, "PENDING", win.panel.of, "section", FALSE))
     \/ /\ win.section # None /\ win.section.status = "PENDING"
        /\ Send(win, "section", "on",
                Call("ship", win.section.of, "IN_TRANSIT", win.panel.of, "section", FALSE))

ShipmentDone(k) ==
  /\ At(k, Parcels)
  /\ call' = [call EXCEPT ![k] = IF call[k].flag = None THEN None
                                 ELSE Call("section", call[k].back, None, None, "section", FALSE)]
  /\ UNCHANGED <<serverVars, win, clicks>>

SectionArrives(k) ==
  /\ At(k, {"section"})
  /\ win' = [Release(win, call[k].flag) EXCEPT !.section = call[k].got]
  /\ call' = Without(k)
  /\ UNCHANGED <<serverVars, clicks>>

OrdersPage ==
  /\ page = "orders"
  /\ \/ Refilter \/ Resize \/ TurnPage \/ CloseOrder \/ RefundOrder \/ ShipmentClicked
     \/ \E r \in Rows : OpenOrder(r)
     \/ \E k \in Slots : OrderOpened(k) \/ RefundDone(k) \/ ShipmentDone(k) \/ SectionArrives(k)

-----------------------------------------------------------------------------
(* returns and privacy requests                                             *)

Decisions == [approve |-> "APPROVED", reject |-> "REJECTED"]

Decide(r) ==
  /\ Shows(r) /\ win.busy["row"] # r
  /\ \/ /\ win.list.rows[r] = "REQUESTED"
        /\ \E d \in DOMAIN Decisions : Send(win, "row", r, Call(d, r, Decisions[d], win.query, "row", TRUE))
     \/ /\ win.list.rows[r] = "APPROVED"
        /\ Send(win, "row", r, Call("refund return", r, "REFUNDED", win.query, "row", TRUE))

\* act() waits for the list before it enables the row's buttons.
Decided(k) ==
  /\ At(k, {"approve", "reject", "refund return"})
  /\ LoadIn(k, Acknowledged(k), Without(k), call[k].back, call[k].flag, TRUE)
  /\ UNCHANGED <<serverVars, clicks>>

ReturnsPage ==
  /\ page = "returns"
  /\ \/ Refilter \/ TurnPage
     \/ \E r \in Rows : Decide(r)
     \/ \E k \in Slots : Decided(k)

PrivacyPage == page = "privacy" /\ TurnPage
=============================================================================
