----------------------------- MODULE CartService -----------------------------
(***************************************************************************)
(* CartService and the storefront's reads, as calls that browsers make.     *)
(* A call reads and writes a cart in one transaction under READ COMMITTED   *)
(* and reads the cart it answers with in another one.                       *)
(***************************************************************************)
EXTENDS Naturals, FiniteSets

CONSTANTS
  None,
  Variants,    \* variants in the shop; all have the inventory policy DENY
  Prices,
  InitialPrices,
  MaxStock,    \* bound on the stock of a variant
  Tokens,      \* tokens that carts may get
  Stale,       \* a token of a cart that does not exist
  Slots,       \* calls that are under way at a time
  MaxOffers    \* bound on what the shop changes

VARIABLES
  offer,       \* Variants -> [onSale, price, stock]: the product is ACTIVE, what it costs, what is left
  offered,     \* Variants -> every [price, stock] it was on sale with
  offers,      \* changes of the offer so far
  cart,        \* Tokens -> [lines, converted] or None
  had,         \* every content a cart has had
  call         \* Slots -> the call under way or None

shopState == <<offer, offered, offers, cart, had>>

Offer == [onSale : BOOLEAN, price : Prices, stock : 0..MaxStock]
Line == [qty : 1..MaxStock, price : Prices]
Lines == [Variants -> Line \union {None}]
Cart == [lines : Lines, converted : BOOLEAN]

ASSUME ShopAssumption ==
  /\ MaxStock \in Nat \ {0}
  /\ InitialPrices \subseteq Prices
  /\ None \notin Line /\ None \notin Cart

NoLines == [v \in Variants |-> None]

\* Calls: the tab that waits (None if it is gone), what is asked, and how far.
\* read is what the first statements of the transaction saw, again says that
\* this is the retry of an add.
Call(t, kind, thing, token) ==
  [from |-> t, kind |-> kind, thing |-> thing, v |-> None, qty |-> 0, token |-> token, pc |-> "sent",
   read |-> None, why |-> None, view |-> None, again |-> FALSE]

At(k, pc, kind) == call[k] # None /\ call[k].pc = pc /\ call[k].kind = kind
Answer(k, why, view) ==
  call' = [call EXCEPT ![k] = [@ EXCEPT !.pc = "answered", !.why = why, !.view = view]]
Refuse(k, why) == Answer(k, why, None)

\* No cart has the token, or it became an order: 404 and 400 by their wording.
Gone(token) == token \in Tokens => cart[token] = None
Closed(token) == ~Gone(token) => cart[token].converted

SetLine(token, v, line) ==
  LET lines == [cart[token].lines EXCEPT ![v] = line] IN
  /\ cart' = [cart EXCEPT ![token] = [@ EXCEPT !.lines = lines]]
  /\ had' = had \union {lines}
  /\ UNCHANGED <<offer, offered, offers>>

-----------------------------------------------------------------------------
(* The shop changes what it offers; orders and keepers change the stock.    *)

Change(v, new) ==
  /\ offers < MaxOffers
  /\ offers' = offers + 1
  /\ offer' = [offer EXCEPT ![v] = new]
  /\ offered' = IF new.onSale THEN [offered EXCEPT ![v] = @ \union {[price |-> new.price, stock |-> new.stock]}]
                ELSE offered
  /\ UNCHANGED <<cart, had, call>>

ShopChanges ==
  \E v \in Variants :
    \/ Change(v, [offer[v] EXCEPT !.onSale = ~@])
    \/ \E c \in Prices : Change(v, [offer[v] EXCEPT !.price = c])
    \/ \E n \in 0..MaxStock : Change(v, [offer[v] EXCEPT !.stock = n])

\* The billing worker sets convertedOrderId when the order is paid.
CartIsPaid ==
  \E token \in Tokens :
    /\ ~Closed(token) /\ cart[token].lines # NoLines
    /\ cart' = [cart EXCEPT ![token].converted = TRUE]
    /\ UNCHANGED <<offer, offered, offers, had, call>>

-----------------------------------------------------------------------------

CreateCart(k) ==
  /\ At(k, "sent", "create")
  /\ \E token \in Tokens : cart[token] = None
  /\ LET token == CHOOSE x \in Tokens : cart[x] = None IN
       /\ cart' = [cart EXCEPT ![token] = [lines |-> NoLines, converted |-> FALSE]]
       /\ call' = [call EXCEPT ![k] = [@ EXCEPT !.pc = "answered", !.why = "ok", !.token = token]]
  /\ UNCHANGED <<offer, offered, offers, had>>

\* The store is not published, or the request fails.
CreateFails(k) == At(k, "sent", "create") /\ Refuse(k, "failed") /\ UNCHANGED shopState

\* Mutant of AssertStock: only the quantity that is added is compared.
AssertStockOfAdded(k, wanted) == call[k].qty <= offer[call[k].v].stock

\* assertStock compares with what is on hand and not reserved.
AssertStock(k, wanted) == wanted <= offer[call[k].v].stock

\* What the transaction has read; it goes on to write.
Reads(k, wanted) ==
  LET line == cart[call[k].token].lines[call[k].v] IN
  /\ offer[call[k].v].onSale /\ AssertStock(k, wanted)
  /\ call' = [call EXCEPT ![k] = [@ EXCEPT !.pc = "write",
                !.read = [line |-> line, qty |-> wanted, price |-> offer[call[k].v].price]]]
  /\ UNCHANGED shopState

Unavailable(k, wanted) ==
  /\ ~offer[call[k].v].onSale \/ ~AssertStock(k, wanted)
  /\ Refuse(k, "refused")
  /\ UNCHANGED shopState

\* addItem: one transaction that reads ...
ReadForAdd(k) ==
  LET token == call[k].token
      line == cart[token].lines[call[k].v]
      wanted == (IF line = None THEN 0 ELSE line.qty) + call[k].qty
  IN /\ At(k, "sent", "add") /\ ~Closed(token)
     /\ Reads(k, wanted) \/ Unavailable(k, wanted)

\* ... and writes the quantity it has checked and the present price, to the
\* line it has read or to a new one, unless another call has made one by now:
\* [cartId, variantId] is unique.
WriteAdd(k) ==
  LET c == call[k] IN
  /\ At(k, "write", "add")
  /\ IF c.read.line = None /\ cart[c.token].lines[c.v] # None
     THEN Refuse(k, "failed") /\ UNCHANGED shopState
     ELSE /\ SetLine(c.token, c.v, [qty |-> c.read.qty, price |-> c.read.price])
          /\ call' = [call EXCEPT ![k].pc = "view"]

\* setQuantity: the line is there; 0 deletes it, more is checked like an add.
ReadForSet(k) ==
  /\ At(k, "sent", "set") /\ ~Closed(call[k].token)
  /\ cart[call[k].token].lines[call[k].v] # None
  /\ IF call[k].qty = 0
     THEN /\ call' = [call EXCEPT ![k].pc = "write"]
          /\ UNCHANGED shopState
     ELSE Reads(k, call[k].qty) \/ Unavailable(k, call[k].qty)

NoSuchLine(k) ==
  /\ At(k, "sent", "set") /\ ~Closed(call[k].token)
  /\ cart[call[k].token].lines[call[k].v] = None
  /\ Refuse(k, "refused")
  /\ UNCHANGED shopState

\* The quantity is written and the price of the line stays.
WriteQuantity(k) ==
  LET c == call[k] IN
  /\ At(k, "write", "set") /\ c.qty # 0
  /\ SetLine(c.token, c.v, [cart[c.token].lines[c.v] EXCEPT !.qty = c.qty])
  /\ call' = [call EXCEPT ![k].pc = "view"]

\* Calls that have read the line of v and are to write it by its id.
Holders(token, v) ==
  {j \in Slots : /\ At(j, "write", "set") \/ (At(j, "write", "add") /\ call[j].read.line # None)
                 /\ call[j].token = token /\ call[j].v = v}

\* The line is deleted; the others that hold it will not find it again.
DeleteLine(k) ==
  LET c == call[k] IN
  /\ At(k, "write", "set") /\ c.qty = 0
  /\ SetLine(c.token, c.v, None)
  /\ call' = [j \in Slots |-> IF j = k THEN [c EXCEPT !.pc = "view"]
                             ELSE IF j \in Holders(c.token, c.v) THEN [call[j] EXCEPT !.pc = "lost"]
                             ELSE call[j]]

LineIsLost(k) ==
  /\ At(k, "lost", "set") \/ At(k, "lost", "add")
  /\ Refuse(k, "failed")
  /\ UNCHANGED shopState

\* 404 "Cart not found" or 400 "Cart already checked out".
CartIsClosed(k) ==
  /\ At(k, "sent", "add") \/ At(k, "sent", "set")
  /\ Closed(call[k].token)
  /\ Refuse(k, "gone")
  /\ UNCHANGED shopState

\* viewCart, in a transaction of its own; converted carts are shown too.
ViewCart(k) ==
  /\ At(k, "view", "add") \/ At(k, "view", "set") \/ At(k, "sent", "view")
  /\ IF Gone(call[k].token) THEN Refuse(k, "gone")
     ELSE Answer(k, "ok", cart[call[k].token].lines)
  /\ UNCHANGED shopState

\* Lists, products, orders and returns are answered elsewhere; here they succeed or not.
AnswerOther(k) ==
  /\ \E kind \in {"list", "product", "lookup", "return", "hidden return"} : At(k, "sent", kind)
  /\ \E why \in {"ok", "refused"} : Refuse(k, why)
  /\ UNCHANGED shopState

\* CheckoutService takes a cart that exists, is not converted and has lines.
AnswerCheckout(k) ==
  /\ At(k, "sent", "checkout")
  /\ \/ ~Closed(call[k].token) /\ cart[call[k].token].lines # NoLines /\ Refuse(k, "ok")
     \/ Refuse(k, "refused")
  /\ UNCHANGED shopState

ServerStep(k) ==
  \/ CreateCart(k) \/ CreateFails(k) \/ ReadForAdd(k) \/ WriteAdd(k) \/ ReadForSet(k) \/ NoSuchLine(k)
  \/ WriteQuantity(k) \/ DeleteLine(k) \/ LineIsLost(k)
  \/ CartIsClosed(k) \/ ViewCart(k) \/ AnswerOther(k) \/ AnswerCheckout(k)

\* The cart of a visitor who was here before: one of each.
OldCart == [lines |-> [v \in Variants |-> [qty |-> 1, price |-> offer[v].price]], converted |-> FALSE]

OffersInit ==
  /\ offer \in [Variants -> {[onSale |-> TRUE, price |-> c, stock |-> MaxStock] : c \in InitialPrices}]
  /\ offered = [v \in Variants |-> {[price |-> offer[v].price, stock |-> offer[v].stock]}]
  /\ offers = 0

ServiceInit ==
  /\ had = {NoLines} \union {cart[token].lines : token \in {x \in Tokens : cart[x] # None}}
  /\ call = [k \in Slots |-> None]
=============================================================================
