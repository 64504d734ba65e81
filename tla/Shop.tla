-------------------------------- MODULE Shop --------------------------------
(***************************************************************************)
(* The store as its visitors meet it: pages, calls and the cart service.    *)
(***************************************************************************)
EXTENDS ShopPages

vars == <<shopState, call, pageVars>>

Init == OffersInit /\ PagesInit /\ ServiceInit

Next ==
  \/ (ShopChanges \/ CartIsPaid) /\ UNCHANGED pageVars
  \/ \E k \in Slots : ServerStep(k) /\ UNCHANGED pageVars
  \/ \E k \in Slots : Arrive(k)
  \/ \E t \in Tabs : UserStep(t)

Spec == Init /\ [][Next]_vars

TypeOK ==
  /\ offer \in [Variants -> Offer]
  /\ offers \in 0..MaxOffers
  /\ cart \in [Tokens -> Cart \union {None}]
  /\ had \subseteq Lines
  /\ stored \in Tokens \union {None, Stale}
  /\ tab \in [Tabs -> Tab]
  /\ call \in [Slots -> CallRow \union {None}]
  /\ clicks \in 0..MaxClicks

-----------------------------------------------------------------------------

Awaited(t, kinds) == \E k \in Slots : call[k] # None /\ call[k].from = t /\ call[k].kind \in kinds

\* However adds and changes of quantity interleave, a line has a price its
\* variant was on sale for, and a quantity that was in stock at some time:
\* two calls that both pass assertStock do not add up (CartService.addItem).
LinesWereOffered ==
  \A token \in Tokens : cart[token] # None =>
    \A v \in Variants : LET line == cart[token].lines[v] IN
      line # None => /\ \E o \in offered[v] : o.price = line.price
                     /\ \E o \in offered[v] : line.qty <= o.stock

\* Once the shop page has loaded it shows the results of the term submitted
\* last, if any; a cart that is shown is one that the service has stored.
PagesTellTheTruth ==
  \A t \in Tabs :
    /\ Shows(t, "shop") /\ ~tab[t].loading => tab[t].shown \in {None, tab[t].asked}
    /\ Shows(t, "cart") => tab[t].shown = None \/ tab[t].shown \in had

\* A page is disabled or loading only while an answer is to come that will end
\* it, whichever calls were given up, retried or refused in between: a retry
\* with a fresh cart and the lookup after a return take over.
WaitsForAnAnswer ==
  \A t \in Tabs :
    /\ tab[t].busy => Awaited(t, {"create", "add", "checkout", "return"})
    /\ tab[t].loading => Awaited(t, {"list", "product", "view", "lookup"})
=============================================================================
