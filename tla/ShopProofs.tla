----------------------------- MODULE ShopProofs -----------------------------
(***************************************************************************)
(* What stands in a cart was on offer, what a page shows is what was asked  *)
(* for last, and no page waits in vain, for any number of visitors' tabs,   *)
(* calls, carts, variants and changes of the offer.                         *)
(***************************************************************************)
EXTENDS Shop, TLAPS

-----------------------------------------------------------------------------
(* The invariant.                                                           *)

Offers == [price : Prices, stock : 0..MaxStock]

\* Something v was on sale with, at that price, and with so many in stock.
PriceWas(offs, v, price) == \E o \in offs[v] : o.price = price
StockWas(offs, v, qty) == \E o \in offs[v] : qty <= o.stock

\* What is on sale has been recorded.
OffersInv ==
  /\ offer \in [Variants -> Offer]
  /\ offered \in [Variants -> SUBSET Offers]
  /\ \A v \in Variants : offer[v].onSale => [price |-> offer[v].price, stock |-> offer[v].stock] \in offered[v]

Stocked(lines, offs) ==
  \A v \in Variants : lines[v] # None => PriceWas(offs, v, lines[v].price) /\ StockWas(offs, v, lines[v].qty)

CartsInv ==
  /\ cart \in [Tokens -> Cart \union {None}]
  /\ \A token \in Tokens : cart[token] # None => Stocked(cart[token].lines, offered)

\* A call is a record with these fields.
IsCall(c) ==
  c \in [from : {c.from}, kind : {c.kind}, thing : {c.thing}, v : {c.v}, qty : {c.qty}, token : {c.token},
         pc : {c.pc}, read : {c.read}, why : {c.why}, view : {c.view}, again : {c.again}]

\* What an add or a change of quantity asks for.
Asks(c) ==
  c.kind \in {"create", "add", "set"} =>
    /\ c.v \in Variants
    /\ c.qty \in 0..(MaxStock + 1)
    /\ c.kind # "set" => c.qty = 1

\* What it may write: an add has a price and a quantity that were on offer; a
\* change of quantity has a line still, for a deletion tells those that hold it.
MayWrite(c, carts, offs) ==
  c.pc = "write" =>
    /\ c.token \in Tokens /\ carts[c.token] # None
    /\ c.kind = "add" => /\ c.read.qty \in 1..MaxStock /\ c.read.price \in Prices
                         /\ PriceWas(offs, c.v, c.read.price) /\ StockWas(offs, c.v, c.read.qty)
    /\ c.kind = "set" => /\ carts[c.token].lines[c.v] # None
                         /\ c.qty # 0 => c.qty \in 1..MaxStock /\ StockWas(offs, c.v, c.qty)

CallFits(c, carts, offs) == c # None => IsCall(c) /\ Asks(c) /\ MayWrite(c, carts, offs)

CallsInv == DOMAIN call = Slots /\ \A k \in Slots : CallFits(call[k], cart, offered)

LinesInv == OffersInv /\ CartsInv /\ CallsInv

-----------------------------------------------------------------------------
(* Calls.                                                                   *)

\* A new call asks for what it says and has read nothing.
LEMMA NewCall ==
  ASSUME NEW t, NEW kind, NEW thing, NEW token, NEW v, NEW qty, NEW carts, NEW offs,
         kind \in {"create", "add", "set"} =>
           v \in Variants /\ qty \in 0..(MaxStock + 1) /\ (kind # "set" => qty = 1)
  PROVE  CallFits([Call(t, kind, thing, token) EXCEPT !.v = v, !.qty = qty], carts, offs)
BY DEF CallFits, IsCall, Asks, MayWrite, Call

\* So does one that asks for nothing of the cart.
LEMMA NewRead ==
  ASSUME NEW t, NEW kind, NEW thing, NEW token, NEW carts, NEW offs,
         kind \notin {"create", "add", "set"}
  PROVE  CallFits(Call(t, kind, thing, token), carts, offs)
BY DEF CallFits, IsCall, Asks, MayWrite, Call

\* A call that does not come to write stays what it was.
LEMMA CallGoesOn ==
  ASSUME NEW carts, NEW offs, NEW c, CallFits(c, carts, offs), c # None, NEW pc, pc # "write", NEW why, NEW thing
  PROVE  /\ CallFits([c EXCEPT !.pc = pc], carts, offs)
         /\ CallFits([c EXCEPT !.pc = pc, !.why = why, !.view = thing], carts, offs)
         /\ CallFits([c EXCEPT !.pc = pc, !.why = why, !.token = thing], carts, offs)
<1>1. IsCall(c) /\ Asks(c)
  BY DEF CallFits
<1>2. CallFits([c EXCEPT !.pc = pc], carts, offs)
  BY <1>1 DEF CallFits, IsCall, Asks, MayWrite
<1>3. CallFits([c EXCEPT !.pc = pc, !.why = why, !.view = thing], carts, offs)
  BY <1>1 DEF CallFits, IsCall, Asks, MayWrite
<1>4. CallFits([c EXCEPT !.pc = pc, !.why = why, !.token = thing], carts, offs)
  BY <1>1 DEF CallFits, IsCall, Asks, MayWrite
<1> QED BY <1>2, <1>3, <1>4

\* The page it came from may be gone, or have hidden what it was about.
LEMMA CallIsLeft ==
  ASSUME NEW carts, NEW offs, NEW c, CallFits(c, carts, offs), c # None
  PROVE  /\ CallFits([c EXCEPT !.from = None], carts, offs)
         /\ CallFits([c EXCEPT !.kind = "hidden return"], carts, offs)
BY DEF CallFits, IsCall, Asks, MayWrite

\* An add asks for a cart, and a cart that was made takes the add.
LEMMA AddTurns ==
  ASSUME NEW carts, NEW offs, NEW c, CallFits(c, carts, offs), c # None, c.kind \in {"create", "add"}
  PROVE  /\ CallFits([c EXCEPT !.kind = "add", !.pc = "sent", !.why = None], carts, offs)
         /\ CallFits([c EXCEPT !.kind = "create", !.pc = "sent", !.why = None, !.again = TRUE], carts, offs)
BY DEF CallFits, IsCall, Asks, MayWrite

\* Carts that stay and keep the line a call holds, and offers that only
\* grow, leave it as good as it was.
LEMMA CallStays ==
  ASSUME NEW carts, NEW offs, NEW newCarts, NEW newOffs, NEW c, CallFits(c, carts, offs),
         \A v \in Variants : offs[v] \subseteq newOffs[v],
         \A token \in Tokens : carts[token] # None => newCarts[token] # None,
         c.pc = "write" /\ c.kind = "set" => 
           (carts[c.token].lines[c.v] # None => newCarts[c.token].lines[c.v] # None)
  PROVE  CallFits(c, newCarts, newOffs)
BY DEF CallFits, Asks, MayWrite, PriceWas, StockWas

\* A step that touches neither offers nor carts.
LEMMA OnlyCalls ==
  ASSUME LinesInv, UNCHANGED <<offer, offered, cart>>, DOMAIN call' = Slots,
         \A k \in Slots : CallFits(call'[k], cart, offered)
  PROVE  LinesInv'
BY DEF LinesInv, OffersInv, CartsInv, CallsInv

\* One call becomes another.
LEMMA OneCall ==
  ASSUME LinesInv, UNCHANGED <<offer, offered, cart>>, NEW k \in Slots, NEW c,
         CallFits(c, cart, offered), call' = [call EXCEPT ![k] = c]
  PROVE  LinesInv'
<1>1. DOMAIN call' = Slots /\ \A j \in Slots : CallFits(call'[j], cart, offered)
  BY DEF LinesInv, CallsInv
<1> QED BY <1>1, OnlyCalls

\* A refusal or an answer.
LEMMA Answers ==
  ASSUME LinesInv, UNCHANGED shopState, NEW k \in Slots, call[k] # None, NEW why, NEW view, Answer(k, why, view)
  PROVE  LinesInv'
<1> DEFINE c == call[k]
<1>1. CallFits([c EXCEPT !.pc = "answered", !.why = why, !.view = view], cart, offered)
  BY CallGoesOn DEF LinesInv, CallsInv
<1>2. call' = [call EXCEPT ![k] = [c EXCEPT !.pc = "answered", !.why = why, !.view = view]]
  BY DEF Answer, LinesInv, CallsInv
<1> QED BY <1>1, <1>2, OneCall DEF shopState

-----------------------------------------------------------------------------
(* The shop, and the carts.                                                 *)

\* What is offered changes; what was offered stays known.
LEMMA OfferChanges ==
  ASSUME LinesInv, NEW v \in Variants, NEW new \in Offer, Change(v, new)
  PROVE  LinesInv'
<1> USE DEF LinesInv
<1> DEFINE now == [price |-> new.price, stock |-> new.stock]
<1>1. now \in Offers /\ offer' \in [Variants -> Offer] /\ offer' = [offer EXCEPT ![v] = new]
  BY DEF Change, OffersInv, Offer, Offers
<1>2. /\ offered' \in [Variants -> SUBSET Offers]
      /\ \A w \in Variants : offered[w] \subseteq offered'[w]
      /\ new.onSale => now \in offered'[v]
  BY <1>1 DEF Change, OffersInv
<1>3. OffersInv'
  BY <1>1, <1>2 DEF OffersInv
<1>4. CartsInv'
  BY <1>2 DEF Change, CartsInv, Stocked, PriceWas, StockWas
<1>5. CallsInv'
  <2> SUFFICES ASSUME NEW k \in Slots PROVE CallFits(call[k], cart, offered')
    BY DEF CallsInv, Change
  <2> QED BY <1>2, CallStays DEF CallsInv
<1> QED BY <1>3, <1>4, <1>5

LEMMA ShopKeepsLines ==
  ASSUME LinesInv, ShopChanges
  PROVE  LinesInv'
<1> PICK v \in Variants :
       \/ Change(v, [offer[v] EXCEPT !.onSale = ~@])
       \/ \E c \in Prices : Change(v, [offer[v] EXCEPT !.price = c])
       \/ \E n \in 0..MaxStock : Change(v, [offer[v] EXCEPT !.stock = n])
  BY DEF ShopChanges
<1>1. offer[v] \in Offer
  BY DEF LinesInv, OffersInv
<1>2. /\ [offer[v] EXCEPT !.onSale = ~@] \in Offer
      /\ \A c \in Prices : [offer[v] EXCEPT !.price = c] \in Offer
      /\ \A n \in 0..MaxStock : [offer[v] EXCEPT !.stock = n] \in Offer
  BY <1>1 DEF Offer
<1> QED BY <1>2, OfferChanges

\* A cart is replaced by one that is in order and has a line where a call
\* that is to change its quantity holds one.
CartBecomes(token, new) ==
  /\ token \in Tokens /\ new \in Cart /\ Stocked(new.lines, offered)
  /\ cart' = [cart EXCEPT ![token] = new]
  /\ UNCHANGED <<offer, offered>>
  /\ DOMAIN call' = Slots
  /\ \A k \in Slots : CallFits(call'[k], cart, offered)
  /\ \A k \in Slots :
       call'[k] # None /\ call'[k].pc = "write" /\ call'[k].kind = "set" /\ call'[k].token = token =>
         new.lines[call'[k].v] # None

LEMMA CartChanges ==
  ASSUME LinesInv, NEW token, NEW new, CartBecomes(token, new)
  PROVE  LinesInv'
<1> USE DEF CartBecomes
<1> USE DEF LinesInv
<1>1. new # None
  BY ShopAssumption
<1>2. cart'[token] = new /\ \A x \in Tokens : x # token => cart'[x] = cart[x]
  BY DEF CartsInv
<1>3. CartsInv'
  <2>1. cart' \in [Tokens -> Cart \union {None}]
    BY DEF CartsInv
  <2>2. ASSUME NEW x \in Tokens, cart'[x] # None PROVE Stocked(cart'[x].lines, offered)
    BY <2>2, <1>2 DEF CartsInv
  <2> QED BY <2>1, <2>2 DEF CartsInv, Stocked
<1>4. CallsInv'
  <2> SUFFICES ASSUME NEW k \in Slots, call'[k] # None PROVE CallFits(call'[k], cart', offered)
    BY DEF CallsInv, CallFits
  <2>1. \A x \in Tokens : cart[x] # None => cart'[x] # None
    BY <1>1, <1>2
  <2>2. CallFits(call'[k], cart, offered)
    OBVIOUS
  <2>3. ASSUME call'[k].pc = "write", call'[k].kind = "set", cart[call'[k].token].lines[call'[k].v] # None
        PROVE  cart'[call'[k].token].lines[call'[k].v] # None
    <3>1. call'[k].token \in Tokens
      BY <2>2, <2>3 DEF CallFits, MayWrite
    <3>2. CASE call'[k].token = token
      BY <3>2, <2>3, <1>2
    <3>3. CASE call'[k].token # token
      BY <3>1, <3>3, <2>3, <1>2
    <3> QED BY <3>2, <3>3
  <2> QED BY <2>1, <2>2, <2>3, CallStays
<1>5. OffersInv'
  BY DEF OffersInv
<1> QED BY <1>3, <1>4, <1>5

LEMMA PaymentKeepsLines ==
  ASSUME LinesInv, CartIsPaid
  PROVE  LinesInv'
<1> PICK token \in Tokens : ~Closed(token) /\ cart' = [cart EXCEPT ![token].converted = TRUE]
  BY DEF CartIsPaid
<1> DEFINE old == cart[token]
           new == [old EXCEPT !.converted = TRUE]
<1>1. old \in Cart /\ old # None
  BY DEF Closed, Gone, LinesInv, CartsInv
<1>2. new \in Cart /\ new.lines = old.lines
  BY <1>1 DEF Cart
<1>3. Stocked(new.lines, offered)
  BY <1>1, <1>2 DEF LinesInv, CartsInv
<1>4. cart' = [cart EXCEPT ![token] = new] /\ UNCHANGED <<offer, offered, call>>
  BY DEF CartIsPaid
<1>5. DOMAIN call' = Slots /\ \A k \in Slots : CallFits(call'[k], cart, offered)
  BY <1>4 DEF LinesInv, CallsInv
<1>6. ASSUME NEW k \in Slots, call'[k] # None, call'[k].pc = "write", call'[k].kind = "set", call'[k].token = token
      PROVE  new.lines[call'[k].v] # None
  BY <1>2, <1>5, <1>6 DEF CallFits, MayWrite
<1>7. CartBecomes(token, new)
  BY <1>2, <1>3, <1>4, <1>5, <1>6 DEF CartBecomes
<1> QED BY <1>7, CartChanges

LEMMA CreateKeepsLines ==
  ASSUME LinesInv, NEW k \in Slots, CreateCart(k)
  PROVE  LinesInv'
<1> DEFINE token == CHOOSE x \in Tokens : cart[x] = None
           new == [lines |-> NoLines, converted |-> FALSE]
           c == call[k]
<1>1. token \in Tokens /\ cart[token] = None
  BY DEF CreateCart
<1>2. /\ cart' = [cart EXCEPT ![token] = new]
      /\ call' = [call EXCEPT ![k] = [c EXCEPT !.pc = "answered", !.why = "ok", !.token = token]]
      /\ UNCHANGED <<offer, offered>>
  BY DEF CreateCart, LinesInv, CallsInv
<1>3. new \in Cart /\ Stocked(new.lines, offered)
  BY DEF Cart, Lines, NoLines, Stocked
<1>4. c # None /\ CallFits(c, cart, offered)
  BY DEF CreateCart, At, LinesInv, CallsInv
<1>5. CallFits([c EXCEPT !.pc = "answered", !.why = "ok", !.token = token], cart, offered)
  BY <1>4, CallGoesOn
<1>6. DOMAIN call' = Slots /\ \A j \in Slots : CallFits(call'[j], cart, offered)
  BY <1>2, <1>5 DEF LinesInv, CallsInv
<1>7. ASSUME NEW j \in Slots, call'[j] # None, call'[j].pc = "write" PROVE call'[j].token # token
  BY <1>6, <1>7, <1>1 DEF CallFits, MayWrite
<1>8. CartBecomes(token, new)
  BY <1>1, <1>2, <1>3, <1>6, <1>7 DEF CartBecomes
<1> QED BY <1>8, CartChanges

-----------------------------------------------------------------------------
(* The service.                                                             *)

\* A call that is refused, or answered with what it reads.
AnswersOnly(k) ==
  \/ CreateFails(k) \/ NoSuchLine(k) \/ LineIsLost(k) \/ CartIsClosed(k) \/ ViewCart(k) \/ AnswerOther(k)
  \/ AnswerCheckout(k)

LEMMA AnswersKeepLines ==
  ASSUME LinesInv, NEW k \in Slots, AnswersOnly(k)
  PROVE  LinesInv'
<1>1. call[k] # None /\ UNCHANGED shopState
  BY DEF AnswersOnly, CreateFails, NoSuchLine, LineIsLost, CartIsClosed, ViewCart, AnswerOther, AnswerCheckout, At
<1>2. \E why, view : Answer(k, why, view)
  BY DEF AnswersOnly, CreateFails, NoSuchLine, LineIsLost, CartIsClosed, ViewCart, AnswerOther, AnswerCheckout,
         Refuse
<1> QED BY <1>1, <1>2, Answers

\* assertStock lets through what is on sale and in stock; both were recorded.
LEMMA ReadsKeepLines ==
  ASSUME LinesInv, NEW k \in Slots, NEW wanted \in Nat \ {0}, ~Closed(call[k].token),
         At(k, "sent", "add") \/ (At(k, "sent", "set") /\ wanted = call[k].qty
                                  /\ cart[call[k].token].lines[call[k].v] # None),
         Reads(k, wanted) \/ Unavailable(k, wanted)
  PROVE  LinesInv'
<1> DEFINE c == call[k]
           line == cart[c.token].lines[c.v]
           price == offer[c.v].price
           seen == [line |-> line, qty |-> wanted, price |-> price]
           new == [c EXCEPT !.pc = "write", !.read = seen]
<1>1. CASE Unavailable(k, wanted)
  <2>1. call[k] # None /\ UNCHANGED shopState /\ Answer(k, "refused", None)
    BY <1>1 DEF Unavailable, At, Refuse
  <2> QED BY <2>1, Answers
<1>2. CASE Reads(k, wanted)
  <2>1. c # None /\ IsCall(c) /\ Asks(c) /\ c.kind \in {"add", "set"}
    BY DEF At, LinesInv, CallsInv, CallFits
  <2>2. c.v \in Variants /\ c.token \in Tokens /\ cart[c.token] # None
    BY <2>1 DEF Asks, Closed, Gone
  <2>3. offer[c.v].onSale /\ wanted <= offer[c.v].stock /\ offer[c.v] \in Offer
    BY <1>2, <2>2 DEF Reads, AssertStock, LinesInv, OffersInv
  <2>4. wanted \in 1..MaxStock /\ price \in Prices
    BY <2>3, ShopAssumption DEF Offer
  <2>5. [price |-> price, stock |-> offer[c.v].stock] \in offered[c.v]
    BY <2>2, <2>3 DEF LinesInv, OffersInv
  <2>6. PriceWas(offered, c.v, price) /\ StockWas(offered, c.v, wanted)
    BY <2>3, <2>5 DEF PriceWas, StockWas
  <2>7. IsCall(new) /\ Asks(new) /\ new.token = c.token /\ new.kind = c.kind /\ new.v = c.v /\ new.qty = c.qty
        /\ new.read = seen /\ new.pc = "write"
    BY <2>1 DEF IsCall, Asks
  <2>8. c.kind = "set" => line # None /\ wanted = c.qty
    BY DEF At
  <2>9. MayWrite(new, cart, offered)
    <3>1. c.kind = "add" => /\ new.read.qty \in 1..MaxStock /\ new.read.price \in Prices
                            /\ PriceWas(offered, c.v, new.read.price)
                            /\ StockWas(offered, c.v, new.read.qty)
      BY <2>4, <2>6, <2>7
    <3>2. c.kind = "set" => /\ cart[c.token].lines[c.v] # None
                            /\ c.qty \in 1..MaxStock /\ StockWas(offered, c.v, c.qty)
      BY <2>4, <2>6, <2>8
    <3> HIDE DEF new
    <3> QED BY <2>2, <2>7, <3>1, <3>2 DEF MayWrite
  <2>10. CallFits(new, cart, offered)
    <3> HIDE DEF new
    <3> QED BY <2>7, <2>9 DEF CallFits
  <2>11. call' = [call EXCEPT ![k] = new] /\ UNCHANGED <<offer, offered, cart>>
    BY <1>2 DEF Reads, shopState, LinesInv, CallsInv
  <2> HIDE DEF new
  <2> QED BY <2>10, <2>11, OneCall
<1> QED BY <1>1, <1>2

LEMMA ReadForAddKeepsLines ==
  ASSUME LinesInv, NEW k \in Slots, ReadForAdd(k)
  PROVE  LinesInv'
<1> DEFINE c == call[k]
           line == cart[c.token].lines[c.v]
           wanted == (IF line = None THEN 0 ELSE line.qty) + c.qty
<1>1. At(k, "sent", "add") /\ ~Closed(c.token) /\ (Reads(k, wanted) \/ Unavailable(k, wanted))
  BY DEF ReadForAdd
<1>2. c.v \in Variants /\ c.qty = 1 /\ c.token \in Tokens /\ cart[c.token] # None
  BY <1>1 DEF At, LinesInv, CallsInv, CallFits, Asks, Closed, Gone
<1>3. cart[c.token] \in Cart
  BY <1>2 DEF LinesInv, CartsInv
<1>4. line # None => line.qty \in 1..MaxStock
  BY <1>2, <1>3 DEF Cart, Lines, Line
<1>5. wanted \in Nat \ {0}
  BY <1>2, <1>4, ShopAssumption
<1> HIDE DEF wanted
<1> QED BY <1>1, <1>5, ReadsKeepLines

LEMMA ReadForSetKeepsLines ==
  ASSUME LinesInv, NEW k \in Slots, ReadForSet(k)
  PROVE  LinesInv'
<1> DEFINE c == call[k]
           new == [c EXCEPT !.pc = "write"]
<1>1. /\ At(k, "sent", "set") /\ ~Closed(c.token)
      /\ cart[c.token].lines[c.v] # None
  BY DEF ReadForSet
<1>2. c # None /\ IsCall(c) /\ Asks(c) /\ c.kind = "set"
  BY <1>1 DEF At, LinesInv, CallsInv, CallFits
<1>3. c.v \in Variants /\ c.qty \in 0..(MaxStock + 1) /\ c.token \in Tokens /\ cart[c.token] # None
  BY <1>1, <1>2 DEF Asks, Closed, Gone
<1>4. CASE c.qty = 0
  <2>1. call' = [call EXCEPT ![k] = new] /\ UNCHANGED <<offer, offered, cart>>
    BY <1>4 DEF ReadForSet, shopState, LinesInv, CallsInv
  <2>2. IsCall(new) /\ Asks(new) /\ new.token = c.token /\ new.kind = c.kind /\ new.v = c.v /\ new.qty = c.qty
    BY <1>2 DEF IsCall, Asks
  <2>3. MayWrite(new, cart, offered)
    BY <1>1, <1>2, <1>3, <1>4, <2>2 DEF MayWrite
  <2>4. CallFits(new, cart, offered)
    BY <2>2, <2>3 DEF CallFits
  <2> HIDE DEF new
  <2> QED BY <2>1, <2>4, OneCall
<1>5. CASE c.qty # 0
  <2>1. Reads(k, c.qty) \/ Unavailable(k, c.qty)
    BY <1>5 DEF ReadForSet
  <2>2. c.qty \in Nat \ {0}
    BY <1>3, <1>5, ShopAssumption
  <2> QED BY <1>1, <2>1, <2>2, ReadsKeepLines
<1> QED BY <1>4, <1>5

\* A line is written into a cart, and the call that wrote it is done.
LEMMA WritesKeepLines ==
  ASSUME LinesInv, NEW k \in Slots, call[k] # None, NEW token \in Tokens, cart[token] # None, NEW v \in Variants,
         NEW line \in Line, PriceWas(offered, v, line.price), StockWas(offered, v, line.qty),
         SetLine(token, v, line), call' = [call EXCEPT ![k].pc = "view"]
  PROVE  LinesInv'
<1> DEFINE old == cart[token]
           lines == [old.lines EXCEPT ![v] = line]
           new == [old EXCEPT !.lines = lines]
           c == [call[k] EXCEPT !.pc = "view"]
<1>1. old \in Cart /\ Stocked(old.lines, offered)
  BY DEF LinesInv, CartsInv
<1>2. lines \in Lines /\ lines[v] = line /\ \A w \in Variants : w # v => lines[w] = old.lines[w]
  BY <1>1 DEF Cart, Lines
<1>3. new \in Cart /\ new.lines = lines
  BY <1>1, <1>2 DEF Cart
<1>4. Stocked(lines, offered)
  <2> SUFFICES ASSUME NEW w \in Variants, lines[w] # None
               PROVE  PriceWas(offered, w, lines[w].price) /\ StockWas(offered, w, lines[w].qty)
    BY DEF Stocked
  <2>1. CASE w = v
    BY <2>1, <1>2
  <2>2. CASE w # v
    BY <2>2, <1>1, <1>2 DEF Stocked
  <2> QED BY <2>1, <2>2
<1>5. cart' = [cart EXCEPT ![token] = new] /\ UNCHANGED <<offer, offered>>
  BY DEF SetLine
<1>6. CallFits(c, cart, offered)
  BY CallGoesOn DEF LinesInv, CallsInv
<1>7. DOMAIN call' = Slots /\ \A j \in Slots : CallFits(call'[j], cart, offered)
  BY <1>6 DEF LinesInv, CallsInv
<1>8. ASSUME NEW j \in Slots, call'[j] # None, call'[j].pc = "write", call'[j].kind = "set",
             call'[j].token = token
      PROVE  new.lines[call'[j].v] # None
  <2>1. old.lines[call'[j].v] # None /\ call'[j].v \in Variants
    BY <1>7, <1>8 DEF CallFits, MayWrite, Asks
  <2>2. line # None
    BY ShopAssumption
  <2> QED BY <2>1, <2>2, <1>2, <1>3
<1>9. CartBecomes(token, new)
  BY <1>3, <1>4, <1>5, <1>7, <1>8 DEF CartBecomes
<1> QED BY <1>9, CartChanges

LEMMA WriteAddKeepsLines ==
  ASSUME LinesInv, NEW k \in Slots, WriteAdd(k)
  PROVE  LinesInv'
<1> DEFINE c == call[k]
           line == [qty |-> c.read.qty, price |-> c.read.price]
<1>1. c # None /\ c.pc = "write" /\ c.kind = "add"
  BY DEF WriteAdd, At
<1>2. CASE Refuse(k, "failed") /\ UNCHANGED shopState
  BY <1>1, <1>2, Answers DEF Refuse
<1>3. CASE SetLine(c.token, c.v, line) /\ call' = [call EXCEPT ![k].pc = "view"]
  <2>1. Asks(c) /\ MayWrite(c, cart, offered)
    BY <1>1 DEF LinesInv, CallsInv, CallFits
  <2>2. c.v \in Variants /\ c.token \in Tokens /\ cart[c.token] # None /\ line \in Line
    BY <1>1, <2>1 DEF Asks, MayWrite, Line
  <2>3. PriceWas(offered, c.v, line.price) /\ StockWas(offered, c.v, line.qty)
    BY <1>1, <2>1 DEF MayWrite
  <2> HIDE DEF line
  <2> QED BY <1>1, <1>3, <2>2, <2>3, WritesKeepLines
<1> QED BY <1>2, <1>3 DEF WriteAdd

\* The price of a line whose quantity changes was offered when it was written.
LEMMA WriteQuantityKeepsLines ==
  ASSUME LinesInv, NEW k \in Slots, WriteQuantity(k)
  PROVE  LinesInv'
<1> DEFINE c == call[k]
           old == cart[c.token].lines[c.v]
           line == [old EXCEPT !.qty = c.qty]
<1>1. /\ c # None /\ c.pc = "write" /\ c.kind = "set" /\ c.qty # 0
      /\ SetLine(c.token, c.v, line) /\ call' = [call EXCEPT ![k].pc = "view"]
  BY DEF WriteQuantity, At
<1>2. Asks(c) /\ MayWrite(c, cart, offered)
  BY <1>1 DEF LinesInv, CallsInv, CallFits
<1>3. /\ c.v \in Variants /\ c.token \in Tokens /\ cart[c.token] # None /\ old # None
      /\ c.qty \in 1..MaxStock /\ StockWas(offered, c.v, c.qty)
  BY <1>1, <1>2 DEF Asks, MayWrite
<1>4. cart[c.token] \in Cart /\ Stocked(cart[c.token].lines, offered)
  BY <1>3 DEF LinesInv, CartsInv
<1>5. old \in Line /\ PriceWas(offered, c.v, old.price)
  BY <1>3, <1>4 DEF Cart, Lines, Stocked
<1>6. line \in Line /\ line.qty = c.qty /\ line.price = old.price
  BY <1>3, <1>5 DEF Line
<1> HIDE DEF line
<1> QED BY <1>1, <1>3, <1>5, <1>6, WritesKeepLines

\* A deletion tells the calls that hold the line that it is lost.
LEMMA DeleteLineKeepsLines ==
  ASSUME LinesInv, NEW k \in Slots, DeleteLine(k)
  PROVE  LinesInv'
<1> DEFINE c == call[k]
           token == c.token
           v == c.v
           old == cart[token]
           lines == [old.lines EXCEPT ![v] = None]
           new == [old EXCEPT !.lines = lines]
<1>1. /\ c # None /\ c.pc = "write" /\ c.kind = "set"
      /\ SetLine(token, v, None)
      /\ call' = [j \in Slots |-> IF j = k THEN [c EXCEPT !.pc = "view"]
                                 ELSE IF j \in Holders(token, v) THEN [call[j] EXCEPT !.pc = "lost"]
                                 ELSE call[j]]
  BY DEF DeleteLine, At
<1>2. v \in Variants /\ token \in Tokens /\ old # None
  BY <1>1 DEF LinesInv, CallsInv, CallFits, Asks, MayWrite
<1>3. old \in Cart /\ Stocked(old.lines, offered)
  BY <1>2 DEF LinesInv, CartsInv
<1>4. lines \in Lines /\ lines[v] = None /\ \A w \in Variants : w # v => lines[w] = old.lines[w]
  BY <1>2, <1>3 DEF Cart, Lines
<1>5. new \in Cart /\ new.lines = lines
  BY <1>3, <1>4 DEF Cart
<1>6. Stocked(lines, offered)
  BY <1>3, <1>4 DEF Stocked
<1>7. cart' = [cart EXCEPT ![token] = new] /\ UNCHANGED <<offer, offered>>
  BY <1>1 DEF SetLine
<1>8. ASSUME NEW j \in Slots PROVE CallFits(call'[j], cart, offered)
  <2>1. CallFits(c, cart, offered) /\ CallFits(call[j], cart, offered)
    BY DEF LinesInv, CallsInv
  <2>2. CASE j = k
    BY <1>1, <2>1, <2>2, CallGoesOn
  <2>3. CASE j # k /\ j \in Holders(token, v)
    <3>1. call[j] # None
      BY <2>3 DEF Holders, At
    <3>2. CallFits([call[j] EXCEPT !.pc = "lost"], cart, offered)
      BY <2>1, <3>1, CallGoesOn
    <3> QED BY <1>1, <2>3, <3>2
  <2>4. CASE j # k /\ j \notin Holders(token, v)
    BY <1>1, <2>1, <2>4
  <2> QED BY <2>2, <2>3, <2>4
<1>9. ASSUME NEW j \in Slots, call'[j] # None, call'[j].pc = "write", call'[j].kind = "set",
             call'[j].token = token
      PROVE  new.lines[call'[j].v] # None
  <2>1. j # k
    <3>1. ASSUME j = k PROVE FALSE
      <4>1. IsCall(c) /\ call'[j] = [c EXCEPT !.pc = "view"]
        BY <1>1, <3>1 DEF LinesInv, CallsInv, CallFits
      <4>2. call'[j].pc = "view"
        BY <4>1 DEF IsCall
      <4> QED BY <4>2, <1>9
    <3> QED BY <3>1
  <2>2. j \notin Holders(token, v)
    <3>1. ASSUME j \in Holders(token, v) PROVE FALSE
      <4>1. IsCall(call[j]) /\ call'[j] = [call[j] EXCEPT !.pc = "lost"]
        BY <1>1, <2>1, <3>1 DEF LinesInv, CallsInv, CallFits, Holders, At
      <4>2. call'[j].pc = "lost"
        BY <4>1 DEF IsCall
      <4> QED BY <4>2, <1>9
    <3> QED BY <3>1
  <2>3. call'[j] = call[j]
    BY <1>1, <2>1, <2>2
  <2>4. call'[j].v # v
    BY <2>2, <2>3, <1>9 DEF Holders, At
  <2>5. call'[j].v \in Variants /\ old.lines[call'[j].v] # None
    BY <1>8, <1>9 DEF CallFits, Asks, MayWrite
  <2> QED BY <2>4, <2>5, <1>4, <1>5
<1>10. DOMAIN call' = Slots
  BY <1>1
<1>11. CartBecomes(token, new)
  BY <1>2, <1>5, <1>6, <1>7, <1>8, <1>9, <1>10 DEF CartBecomes
<1> QED BY <1>11, CartChanges

LEMMA ServerKeepsLines ==
  ASSUME LinesInv, NEW k \in Slots, ServerStep(k)
  PROVE  LinesInv'
BY CreateKeepsLines, AnswersKeepLines, ReadForAddKeepsLines, ReadForSetKeepsLines, WriteAddKeepsLines,
   WriteQuantityKeepsLines, DeleteLineKeepsLines DEF ServerStep, AnswersOnly

-----------------------------------------------------------------------------
(* The pages.                                                               *)

\* A page gives up on calls and makes another.
LEMMA Sends ==
  ASSUME LinesInv, UNCHANGED shopState, NEW waiting, DOMAIN waiting = Slots,
         \A k \in Slots : CallFits(waiting[k], cart, offered),
         NEW c, CallFits(c, cart, offered), call' = [waiting EXCEPT ![Slot] = c]
  PROVE  LinesInv'
<1>1. DOMAIN call' = Slots /\ \A k \in Slots : CallFits(call'[k], cart, offered)
  OBVIOUS
<1> QED BY <1>1, OnlyCalls DEF shopState

LEMMA AbandonFits ==
  ASSUME LinesInv, NEW t, NEW kinds
  PROVE  /\ DOMAIN Abandon(t, kinds) = Slots
         /\ \A k \in Slots : CallFits(Abandon(t, kinds)[k], cart, offered)
<1> SUFFICES ASSUME NEW k \in Slots PROVE CallFits(Abandon(t, kinds)[k], cart, offered)
  BY DEF Abandon
<1>1. CallFits(call[k], cart, offered)
  BY DEF LinesInv, CallsInv
<1>2. call[k] # None => CallFits([call[k] EXCEPT !.from = None], cart, offered)
  BY <1>1, CallIsLeft
<1> QED BY <1>1, <1>2 DEF Abandon

LEMMA CallsFit ==
  ASSUME LinesInv
  PROVE  DOMAIN call = Slots /\ \A k \in Slots : CallFits(call[k], cart, offered)
BY DEF LinesInv, CallsInv

\* Whatever is sent without a quantity asks for nothing of the cart.
LEMMA SendKeepsLines ==
  ASSUME LinesInv, UNCHANGED shopState, NEW t, NEW kind, NEW thing, NEW token, NEW waiting,
         DOMAIN waiting = Slots, \A k \in Slots : CallFits(waiting[k], cart, offered),
         kind \notin {"create", "add", "set"}, Send(t, kind, thing, token, waiting)
  PROVE  LinesInv'
<1>1. CallFits(Call(t, kind, thing, token), cart, offered)
  BY NewRead
<1>2. call' = [waiting EXCEPT ![Slot] = Call(t, kind, thing, token)]
  BY DEF Send
<1> QED BY <1>1, <1>2, Sends

LEMMA PagesKeepLines ==
  ASSUME LinesInv, NEW t \in Tabs, UNCHANGED shopState,
         \/ \E x \in Terms : OpenShop(t, x) \/ Search(t, x)
         \/ \E p \in Products : OpenProduct(t, p)
         \/ \E o \in OrderNumbers : AskReturn(t, o)
         \/ OpenCart(t) \/ OpenOrders(t) \/ PaidAndBack(t) \/ CheckoutClicked(t)
  PROVE  LinesInv'
<1>1. CASE \E x \in Terms : OpenShop(t, x) \/ Search(t, x)
  <2> PICK x \in Terms : OpenShop(t, x) \/ Search(t, x)
    BY <1>1
  <2>1. CASE OpenShop(t, x)
    <3>1. Send(t, "list", x, None, Abandon(t, AllKinds))
      BY <2>1 DEF OpenShop
    <3> QED BY <3>1, SendKeepsLines, AbandonFits
  <2>2. CASE Search(t, x)
    <3>1. Send(t, "list", x, None, Abandon(t, {"list"}))
      BY <2>2 DEF Search
    <3> QED BY <3>1, SendKeepsLines, AbandonFits
  <2> QED BY <2>1, <2>2
<1>2. CASE \E p \in Products : OpenProduct(t, p)
  BY <1>2, SendKeepsLines, AbandonFits DEF OpenProduct
<1>3. CASE \E o \in OrderNumbers : AskReturn(t, o)
  BY <1>3, SendKeepsLines, CallsFit DEF AskReturn
<1>4. CASE OpenCart(t)
  <2>1. CASE call' = Abandon(t, AllKinds)
    BY <2>1, AbandonFits, OnlyCalls DEF shopState
  <2>2. CASE Send(t, "view", None, stored, Abandon(t, AllKinds))
    BY <2>2, SendKeepsLines, AbandonFits
  <2> QED BY <1>4, <2>1, <2>2 DEF OpenCart
<1>5. CASE OpenOrders(t)
  <2>1. call' = Abandon(t, AllKinds)
    BY <1>5 DEF OpenOrders
  <2> QED BY <2>1, AbandonFits, OnlyCalls DEF shopState
<1>6. CASE PaidAndBack(t)
  BY <1>6, CallsFit, OnlyCalls DEF PaidAndBack, shopState
<1>7. CASE CheckoutClicked(t)
  BY <1>7, SendKeepsLines, CallsFit DEF CheckoutClicked
<1> QED BY <1>1, <1>2, <1>3, <1>4, <1>5, <1>6, <1>7

LEMMA LookupKeepsLines ==
  ASSUME LinesInv, NEW t \in Tabs, NEW order \in OrderNumbers, Lookup(t, order)
  PROVE  LinesInv'
<1> DEFINE waiting == [k \in Slots |-> IF call[k] # None /\ call[k].from = t /\ call[k].kind = "return"
                                       THEN [call[k] EXCEPT !.kind = "hidden return"] ELSE call[k]]
<1>1. ASSUME NEW k \in Slots PROVE CallFits(waiting[k], cart, offered)
  BY CallsFit, CallIsLeft
<1>2. DOMAIN waiting = Slots
  OBVIOUS
<1>3. UNCHANGED shopState /\ Send(t, "lookup", order, None, waiting)
  BY DEF Lookup
<1> HIDE DEF waiting
<1> QED BY <1>1, <1>2, <1>3, SendKeepsLines

LEMMA AddClickedKeepsLines ==
  ASSUME LinesInv, NEW t \in Tabs, AddClicked(t)
  PROVE  LinesInv'
<1> DEFINE kind == IF stored = None THEN "create" ELSE "add"
<1> PICK v \in Variants :
       call' = [call EXCEPT ![Slot] = [Call(t, kind, tab[t].shown, stored) EXCEPT !.v = v, !.qty = 1]]
  BY DEF AddClicked
<1>1. kind # "set" /\ 1 \in 0..(MaxStock + 1)
  BY ShopAssumption
<1> HIDE DEF kind
<1>2. CallFits([Call(t, kind, tab[t].shown, stored) EXCEPT !.v = v, !.qty = 1], cart, offered)
  BY <1>1, NewCall
<1>3. UNCHANGED shopState
  BY DEF AddClicked
<1> QED BY <1>2, <1>3, CallsFit, Sends

LEMMA ChangeQtyKeepsLines ==
  ASSUME LinesInv, NEW t \in Tabs, NEW v \in Variants, NEW qty \in Clickable(t, v), ChangeQty(t, v, qty)
  PROVE  LinesInv'
<1>1. qty \in 0..(MaxStock + 1)
  BY ShopAssumption DEF Clickable
<1>2. CallFits([Call(t, "set", None, stored) EXCEPT !.v = v, !.qty = qty], cart, offered)
  BY <1>1, NewCall
<1>3. /\ UNCHANGED shopState
      /\ call' = [call EXCEPT ![Slot] = [Call(t, "set", None, stored) EXCEPT !.v = v, !.qty = qty]]
  BY DEF ChangeQty
<1> QED BY <1>2, <1>3, CallsFit, Sends

LEMMA UserKeepsLines ==
  ASSUME LinesInv, NEW t \in Tabs, UserStep(t)
  PROVE  LinesInv'
<1>1. CASE \E v \in Variants : Lined(t, v) /\ \E qty \in Clickable(t, v) : ChangeQty(t, v, qty)
  BY <1>1, ChangeQtyKeepsLines
<1>2. CASE AddClicked(t)
  BY <1>2, AddClickedKeepsLines
<1>3. CASE \E o \in OrderNumbers : Lookup(t, o)
  BY <1>3, LookupKeepsLines
<1>4. CASE \/ \E x \in Terms : OpenShop(t, x) \/ Search(t, x)
           \/ \E p \in Products : OpenProduct(t, p)
           \/ \E o \in OrderNumbers : AskReturn(t, o)
           \/ OpenCart(t) \/ OpenOrders(t) \/ PaidAndBack(t) \/ CheckoutClicked(t)
  <2>1. UNCHANGED shopState
    BY <1>4 DEF OpenShop, Search, OpenProduct, AskReturn, OpenCart, OpenOrders, PaidAndBack, CheckoutClicked
  <2> QED BY <1>4, <2>1, PagesKeepLines
<1> QED BY <1>1, <1>2, <1>3, <1>4 DEF UserStep

\* An answer ends its call, or turns it into the next one.
LEMMA AnswersArrive ==
  ASSUME LinesInv, NEW k \in Slots, Arrive(k)
  PROVE  LinesInv'
<1> DEFINE c == call[k]
<1>1. UNCHANGED <<offer, offered, cart>>
  BY DEF Arrive, Loaded, LookedUp, CartLoaded, QtyChanged, CartCreated, AddAgain, Added, CheckedOut, Returned,
         shopState
<1>2. c # None /\ CallFits(c, cart, offered)
  BY CallsFit DEF Arrive, Loaded, LookedUp, CartLoaded, QtyChanged, CartCreated, AddAgain, Added, CheckedOut,
         Returned, At
<1>3. CallFits(None, cart, offered)
  BY DEF CallFits
<1>4. CASE Loaded(k) \/ LookedUp(k) \/ CartLoaded(k) \/ QtyChanged(k) \/ Added(k) \/ CheckedOut(k)
  <2>1. call' = [call EXCEPT ![k] = None]
    BY <1>4 DEF Loaded, LookedUp, CartLoaded, QtyChanged, Added, CheckedOut, Done
  <2> QED BY <2>1, <1>1, <1>3, OneCall
<1>5. CASE CartCreated(k)
  <2>1. CallFits([c EXCEPT !.kind = "add", !.pc = "sent", !.why = None], cart, offered)
    BY <1>2, <1>5, AddTurns DEF CartCreated, At
  <2>2. call' = [call EXCEPT ![k] = [c EXCEPT !.kind = "add", !.pc = "sent", !.why = None]]
    BY <1>5, CallsFit DEF CartCreated
  <2> QED BY <2>1, <2>2, <1>1, OneCall
<1>6. CASE AddAgain(k)
  <2>1. CallFits([c EXCEPT !.kind = "create", !.pc = "sent", !.why = None, !.again = TRUE], cart, offered)
    BY <1>2, <1>6, AddTurns DEF AddAgain, At
  <2>2. call' = [call EXCEPT ![k] = [c EXCEPT !.kind = "create", !.pc = "sent", !.why = None, !.again = TRUE]]
    BY <1>6, CallsFit DEF AddAgain
  <2> QED BY <2>1, <2>2, <1>1, OneCall
<1>7. CASE Returned(k)
  <2>1. CallFits(Call(c.from, "lookup", c.thing, None), cart, offered)
    BY NewRead
  <2>2. \/ call' = [call EXCEPT ![k] = Call(c.from, "lookup", c.thing, None)]
        \/ call' = [call EXCEPT ![k] = None]
    BY <1>7 DEF Returned
  <2> QED BY <2>1, <2>2, <1>1, <1>3, OneCall
<1> QED BY <1>4, <1>5, <1>6, <1>7 DEF Arrive

-----------------------------------------------------------------------------
(* The theorem.                                                             *)

LEMMA LinesInit ==
  ASSUME Init
  PROVE  LinesInv
<1>1. OffersInv
  <2>1. offer \in [Variants -> {[onSale |-> TRUE, price |-> c, stock |-> MaxStock] : c \in InitialPrices}]
    BY DEF Init, OffersInit
  <2>2. \A c \in InitialPrices : [onSale |-> TRUE, price |-> c, stock |-> MaxStock] \in Offer
    BY ShopAssumption DEF Offer
  <2>3. offer \in [Variants -> Offer]
    BY <2>1, <2>2
  <2>4. \A v \in Variants : [price |-> offer[v].price, stock |-> offer[v].stock] \in Offers
    BY <2>3 DEF Offer, Offers
  <2> QED BY <2>3, <2>4, ShopAssumption DEF Init, OffersInit, OffersInv, Offers
<1>2. \A v \in Variants : offer[v].price \in Prices /\ offered[v] = {[price |-> offer[v].price, stock |-> MaxStock]}
  BY ShopAssumption DEF Init, OffersInit
<1>3. OldCart \in Cart /\ Stocked(OldCart.lines, offered)
  <2>1. OldCart.lines = [v \in Variants |-> [qty |-> 1, price |-> offer[v].price]]
    BY DEF OldCart
  <2>2. \A v \in Variants : [qty |-> 1, price |-> offer[v].price] \in Line
    BY <1>2, ShopAssumption DEF Line
  <2>3. OldCart \in Cart
    BY <2>1, <2>2 DEF OldCart, Cart, Lines
  <2>4. ASSUME NEW v \in Variants
        PROVE  PriceWas(offered, v, offer[v].price) /\ StockWas(offered, v, 1)
    <3> DEFINE o == [price |-> offer[v].price, stock |-> MaxStock]
    <3>1. o \in offered[v] /\ o.price = offer[v].price /\ 1 <= o.stock
      BY <1>2, ShopAssumption
    <3> HIDE DEF o
    <3> QED BY <3>1 DEF PriceWas, StockWas
  <2> QED BY <2>1, <2>3, <2>4 DEF Stocked
<1>4. CartsInv
  BY <1>3 DEF Init, PagesInit, CartsInv
<1>5. CallsInv
  BY DEF Init, ServiceInit, CallsInv, CallFits
<1> QED BY <1>1, <1>4, <1>5 DEF LinesInv

LEMMA LinesStep ==
  ASSUME LinesInv, [Next]_vars
  PROVE  LinesInv'
<1>1. CASE UNCHANGED vars
  BY <1>1, CallsFit, OnlyCalls DEF vars, shopState
<1>2. CASE ShopChanges
  BY <1>2, ShopKeepsLines
<1>3. CASE CartIsPaid
  BY <1>3, PaymentKeepsLines
<1>4. CASE \E k \in Slots : ServerStep(k)
  BY <1>4, ServerKeepsLines
<1>5. CASE \E k \in Slots : Arrive(k)
  BY <1>5, AnswersArrive
<1>6. CASE \E t \in Tabs : UserStep(t)
  BY <1>6, UserKeepsLines
<1> QED BY <1>1, <1>2, <1>3, <1>4, <1>5, <1>6 DEF Next

\* However adds, changes of quantity, deletions and changes of the offer
\* interleave, a line of a cart has a price its variant was on sale for and a
\* quantity that was in stock at some time (CartService.addItem, setQuantity).
THEOREM LinesAreOffered == Spec => []LinesWereOffered
<1>1. Init => LinesInv
  BY LinesInit
<1>2. LinesInv /\ [Next]_vars => LinesInv'
  BY LinesStep
<1>3. LinesInv => LinesWereOffered
  BY DEF LinesInv, CartsInv, Stocked, PriceWas, StockWas, LinesWereOffered
<1> QED BY <1>1, <1>2, <1>3, PTL DEF Spec
-----------------------------------------------------------------------------
(* What the pages show, and what they wait for.                             *)

\* A call that tab t waits for.
Waiting(k, t) == call[k] # None /\ call[k].from = t

PagesTypeOK ==
  /\ offers \in 0..MaxOffers
  /\ clicks \in 0..MaxClicks
  /\ had \subseteq Lines
  /\ stored \in Tokens \union {None, Stale}
  /\ tab \in [Tabs -> Tab]
  /\ call \in [Slots -> CallRow \union {None}]

\* Carts hold what was recorded, and so do the answers.
CartsAreRecorded == NoLines \in had /\ \A token \in Tokens : cart[token] # None => cart[token].lines \in had
ViewsAreRecorded == \A k \in Slots : call[k] # None => call[k].view \in had \union {None}

\* The list waits for the answer to the present search only; what comes to the
\* cart page is about a cart.
OwnCalls ==
  \A t \in Tabs, k \in Slots : Waiting(k, t) =>
    /\ Shows(t, "shop") => call[k].kind = "list" /\ call[k].thing = tab[t].asked
    /\ Shows(t, "cart") => call[k].kind \in {"view", "set", "checkout"}

PagesInv ==
  PagesTypeOK /\ CartsAreRecorded /\ ViewsAreRecorded /\ OwnCalls /\ PagesTellTheTruth /\ WaitsForAnAnswer

EndsBusy == {"create", "add", "checkout", "return"}
EndsLoading == {"list", "product", "view", "lookup"}

\* One question of one page.
SameCall(c, d) == d.from = c.from /\ d.kind = c.kind /\ d.thing = c.thing

LEMMA PagesTyped ==
  ASSUME LinesInv, PagesInv PROVE TypeOK
BY DEF LinesInv, OffersInv, CartsInv, PagesInv, PagesTypeOK, TypeOK

-----------------------------------------------------------------------------
(* The server's steps.                                                      *)

\* Whatever the server does for a call, the page still waits for it.
CallsGoOn ==
  /\ call' \in [Slots -> CallRow \union {None}]
  /\ \A j \in Slots : call[j] = None => call'[j] = None
  /\ \A j \in Slots : call[j] # None =>
       /\ call'[j] # None
       /\ SameCall(call[j], call'[j])
       /\ call'[j].view \in {call[j].view, None} \union had'

\* What carts contain is recorded.
HadGrows == had \subseteq had' /\ had' \subseteq Lines /\ CartsAreRecorded'

LEMMA GoOn ==
  ASSUME PagesInv, CallsGoOn, HadGrows, UNCHANGED pageVars, offers' \in 0..MaxOffers
  PROVE  PagesInv'
<1> USE DEF PagesInv
<1>1. tab' = tab /\ stored' = stored /\ clicks' = clicks
  BY DEF pageVars
<1>2. PagesTypeOK'
  BY <1>1 DEF PagesTypeOK, CallsGoOn, HadGrows
<1>3. CartsAreRecorded' /\ ViewsAreRecorded'
  BY DEF HadGrows, CallsGoOn, ViewsAreRecorded
<1>4. \A t \in Tabs, k \in Slots : Waiting(k, t)' <=> Waiting(k, t)
  BY DEF CallsGoOn, SameCall, Waiting
<1>5. OwnCalls'
  BY <1>1, <1>4 DEF OwnCalls, Waiting, CallsGoOn, SameCall, Shows
<1>6. PagesTellTheTruth'
  BY <1>1 DEF PagesTellTheTruth, Shows, HadGrows
<1>7. ASSUME NEW t \in Tabs, NEW kinds PROVE Awaited(t, kinds) => Awaited(t, kinds)'
  BY DEF Awaited, CallsGoOn, SameCall
<1>8. WaitsForAnAnswer'
  BY <1>1, <1>7 DEF WaitsForAnAnswer
<1> QED BY <1>2, <1>3, <1>5, <1>6, <1>8

\* How a call goes on at the server.
Moved(c, pc) == [c EXCEPT !.pc = pc]
Answered(c, why, view) == [c EXCEPT !.pc = "answered", !.why = why, !.view = view]
GotCart(c, token) == [c EXCEPT !.pc = "answered", !.why = "ok", !.token = token]
HasRead(c, read) == [c EXCEPT !.pc = "write", !.read = read]

LEMMA RowMoves ==
  ASSUME NEW c \in CallRow, NEW pc \in CallPC
  PROVE  Moved(c, pc) \in CallRow /\ SameCall(c, Moved(c, pc)) /\ Moved(c, pc).view = c.view
BY DEF CallRow, SameCall, Moved

LEMMA RowIsAnswered ==
  ASSUME NEW c \in CallRow, NEW why \in Outcomes, NEW view \in Lines \union {None}
  PROVE  /\ Answered(c, why, view) \in CallRow
         /\ SameCall(c, Answered(c, why, view)) /\ Answered(c, why, view).view = view
<1>1. "answered" \in CallPC /\ why \in Outcomes \union {None}
  BY DEF CallPC
<1> QED BY <1>1 DEF CallRow, SameCall, Answered

LEMMA RowHasCart ==
  ASSUME NEW c \in CallRow, NEW token \in Tokens
  PROVE  GotCart(c, token) \in CallRow /\ SameCall(c, GotCart(c, token)) /\ GotCart(c, token).view = c.view
<1>1. "answered" \in CallPC /\ "ok" \in Outcomes
  BY DEF CallPC, Outcomes
<1> QED BY <1>1 DEF CallRow, SameCall, GotCart

LEMMA RowHasRead ==
  ASSUME NEW c \in CallRow, NEW read \in Reading
  PROVE  HasRead(c, read) \in CallRow /\ SameCall(c, HasRead(c, read)) /\ HasRead(c, read).view = c.view
<1>1. "write" \in CallPC
  BY DEF CallPC
<1> QED BY <1>1 DEF CallRow, SameCall, HasRead

LEMMA OneGoesOn ==
  ASSUME PagesInv, NEW k \in Slots, call[k] # None, NEW d \in CallRow, SameCall(call[k], d),
         d.view \in {call[k].view, None} \union had', call' = [call EXCEPT ![k] = d]
  PROVE  CallsGoOn
<1>1. d # None
  BY PagesAssumption
<1>2. call \in [Slots -> CallRow \union {None}]
  BY DEF PagesInv, PagesTypeOK
<1> QED BY <1>1, <1>2 DEF CallsGoOn, SameCall

LEMMA AnswerGoesOn ==
  ASSUME PagesInv, NEW k \in Slots, call[k] # None, HadGrows,
         NEW why \in Outcomes, NEW view \in had \union {None}, Answer(k, why, view)
  PROVE  CallsGoOn
<1>1. call[k] \in CallRow /\ call \in [Slots -> CallRow \union {None}]
  BY DEF PagesInv, PagesTypeOK
<1>2. view \in Lines \union {None}
  BY DEF HadGrows
<1>3. call' = [call EXCEPT ![k] = Answered(call[k], why, view)]
  BY <1>1 DEF Answer, Answered
<1>4. /\ Answered(call[k], why, view) \in CallRow
      /\ SameCall(call[k], Answered(call[k], why, view)) /\ Answered(call[k], why, view).view = view
  BY <1>1, <1>2, RowIsAnswered
<1> QED BY <1>3, <1>4, OneGoesOn DEF HadGrows

\* A step that leaves carts alone.
LEMMA HadStays ==
  ASSUME PagesInv, UNCHANGED <<cart, had>> PROVE HadGrows
BY DEF PagesInv, PagesTypeOK, CartsAreRecorded, HadGrows

\* A call is the answer to come, or nothing at all.
LEMMA MovesOn ==
  ASSUME PagesInv, UNCHANGED <<cart, had>>, NEW k \in Slots, call[k] # None,
         NEW pc \in CallPC, call' = [call EXCEPT ![k].pc = pc]
  PROVE  CallsGoOn
<1>1. call[k] \in CallRow
  BY DEF PagesInv, PagesTypeOK
<1>2. call' = [call EXCEPT ![k] = Moved(call[k], pc)]
  BY DEF Moved
<1>3. Moved(call[k], pc) \in CallRow /\ SameCall(call[k], Moved(call[k], pc)) /\ Moved(call[k], pc).view = call[k].view
  BY <1>1, RowMoves
<1> QED BY <1>2, <1>3, OneGoesOn

LEMMA AnswersGoOn ==
  ASSUME LinesInv, PagesInv, NEW k \in Slots, AnswersOnly(k) PROVE CallsGoOn /\ HadGrows
<1>1. UNCHANGED shopState /\ HadGrows
  BY HadStays DEF AnswersOnly, CreateFails, NoSuchLine, LineIsLost, CartIsClosed, ViewCart, AnswerOther, AnswerCheckout,
                  shopState
<1>2. call[k] # None
  BY DEF AnswersOnly, CreateFails, NoSuchLine, LineIsLost, CartIsClosed, ViewCart, AnswerOther, AnswerCheckout, At
<1>3. ASSUME NEW why \in Outcomes, Refuse(k, why) PROVE CallsGoOn
  BY <1>1, <1>2, <1>3, AnswerGoesOn DEF Refuse
<1>4. CASE ViewCart(k)
  <2>1. CASE Gone(call[k].token)
    BY <1>1, <1>3, <1>4, <2>1 DEF ViewCart, Outcomes
  <2>2. CASE ~Gone(call[k].token)
    <3>1. cart[call[k].token].lines \in had
      BY <2>2 DEF Gone, PagesInv, CartsAreRecorded
    <3>2. Answer(k, "ok", cart[call[k].token].lines)
      BY <1>4, <2>2 DEF ViewCart
    <3> QED BY <1>1, <1>2, <3>1, <3>2, AnswerGoesOn DEF Outcomes
  <2> QED BY <2>1, <2>2
<1>5. CASE CreateFails(k) \/ NoSuchLine(k) \/ LineIsLost(k) \/ CartIsClosed(k) \/ AnswerOther(k) \/ AnswerCheckout(k)
  <2>1. \E why \in Outcomes : Refuse(k, why)
    BY <1>5 DEF CreateFails, NoSuchLine, LineIsLost, CartIsClosed, AnswerOther, AnswerCheckout, Outcomes
  <2> QED BY <2>1, <1>1, <1>3
<1> QED BY <1>1, <1>4, <1>5 DEF AnswersOnly

LEMMA ReadsGoOn ==
  ASSUME LinesInv, PagesInv, NEW k \in Slots, call[k] # None, NEW wanted \in Nat,
         call[k].token \in Tokens, cart[call[k].token] # None, call[k].v \in Variants,
         Reads(k, wanted) \/ Unavailable(k, wanted)
  PROVE  CallsGoOn /\ HadGrows
<1>1. UNCHANGED shopState /\ HadGrows
  BY HadStays DEF Reads, Unavailable, shopState
<1>2. CASE Unavailable(k, wanted)
  BY <1>1, <1>2, AnswerGoesOn DEF Unavailable, Refuse, Outcomes
<1>3. CASE Reads(k, wanted)
  <2> DEFINE read == [line |-> cart[call[k].token].lines[call[k].v], qty |-> wanted, price |-> offer[call[k].v].price]
  <2>1. call[k] \in CallRow /\ call \in [Slots -> CallRow \union {None}]
    BY DEF PagesInv, PagesTypeOK
  <2>2. cart[call[k].token].lines[call[k].v] \in Line \union {None}
    BY DEF LinesInv, CartsInv, Cart, Lines
  <2>3. offer[call[k].v].price \in Prices
    BY DEF LinesInv, OffersInv, Offer
  <2>4. read \in Reading
    BY <2>2, <2>3 DEF Reading
  <2>5. call' = [call EXCEPT ![k] = HasRead(call[k], read)]
    BY <1>3, <2>1 DEF Reads, HasRead
  <2> HIDE DEF read
  <2>6. /\ HasRead(call[k], read) \in CallRow
        /\ SameCall(call[k], HasRead(call[k], read)) /\ HasRead(call[k], read).view = call[k].view
    BY <2>1, <2>4, RowHasRead
  <2> QED BY <1>1, <2>5, <2>6, OneGoesOn
<1> QED BY <1>2, <1>3, <1>1
\* A line is written, and the call goes on to read the cart.
LEMMA WriteGoesOn ==
  ASSUME LinesInv, PagesInv, NEW token \in Tokens, NEW v \in Variants, NEW line \in Line \union {None}, cart[token] # None,
         SetLine(token, v, line)
  PROVE  HadGrows
<1> DEFINE lines == [cart[token].lines EXCEPT ![v] = line]
<1>1. cart \in [Tokens -> Cart \union {None}]
  BY DEF LinesInv, CartsInv
<1>2. cart[token] \in Cart
  BY <1>1
<1>3. cart' = [cart EXCEPT ![token] = [cart[token] EXCEPT !.lines = lines]] /\ had' = had \union {lines}
  BY <1>1 DEF SetLine
<1>4. lines \in Lines
  BY <1>2 DEF Cart, Lines
<1> HIDE DEF lines
<1>5. cart'[token].lines = lines /\ \A x \in Tokens : x # token => cart'[x] = cart[x]
  BY <1>1, <1>2, <1>3 DEF Cart
<1> QED BY <1>3, <1>4, <1>5 DEF PagesInv, PagesTypeOK, CartsAreRecorded, HadGrows

LEMMA WritesGoOn ==
  ASSUME LinesInv, PagesInv, NEW k \in Slots, WriteAdd(k) \/ WriteQuantity(k) \/ DeleteLine(k)
  PROVE  CallsGoOn /\ HadGrows
<1> DEFINE c == call[k]
<1>1. c # None /\ c.pc = "write" /\ c.kind \in {"add", "set"}
  BY DEF WriteAdd, WriteQuantity, DeleteLine, At
<1>2. CallFits(c, cart, offered) /\ c \in CallRow /\ call \in [Slots -> CallRow \union {None}]
  BY <1>1 DEF LinesInv, CallsInv, PagesInv, PagesTypeOK
<1>3. c.token \in Tokens /\ cart[c.token] # None /\ c.v \in Variants
  BY <1>1, <1>2 DEF CallFits, MayWrite, Asks
<1>4. ASSUME NEW line \in Line \union {None}, SetLine(c.token, c.v, line) PROVE HadGrows
  BY <1>3, <1>4, WriteGoesOn
<1>5. ASSUME call' = [call EXCEPT ![k].pc = "view"] PROVE CallsGoOn
  <2>1. call' = [call EXCEPT ![k] = Moved(c, "view")]
    BY <1>5 DEF Moved
  <2>2. Moved(c, "view") \in CallRow /\ SameCall(c, Moved(c, "view")) /\ Moved(c, "view").view = c.view
    BY <1>2, RowMoves DEF CallPC
  <2> QED BY <1>1, <2>1, <2>2, OneGoesOn
<1>6. CASE WriteAdd(k)
  <2>1. CASE c.read.line = None /\ cart[c.token].lines[c.v] # None
    <3>1. UNCHANGED shopState /\ Refuse(k, "failed")
      BY <1>6, <2>1 DEF WriteAdd
    <3>2. HadGrows
      BY <3>1, HadStays DEF shopState
    <3> QED BY <1>1, <3>1, <3>2, AnswerGoesOn DEF Refuse, Outcomes
  <2>2. CASE ~(c.read.line = None /\ cart[c.token].lines[c.v] # None)
    <3>1. [qty |-> c.read.qty, price |-> c.read.price] \in Line
      BY <1>1, <1>2, <1>6 DEF CallFits, MayWrite, WriteAdd, At, Line
    <3> QED BY <3>1, <1>4, <1>5, <1>6, <2>2 DEF WriteAdd
  <2> QED BY <2>1, <2>2
<1>7. CASE WriteQuantity(k)
  <2> DEFINE old == cart[c.token].lines[c.v]
  <2>1. old # None /\ c.qty \in 1..MaxStock
    BY <1>1, <1>2, <1>7 DEF CallFits, MayWrite, WriteQuantity, At
  <2>2. old \in Line
    BY <2>1, <1>3 DEF LinesInv, CartsInv, Cart, Lines
  <2>3. [old EXCEPT !.qty = c.qty] \in Line
    BY <2>1, <2>2 DEF Line
  <2> QED BY <2>3, <1>4, <1>5, <1>7 DEF WriteQuantity
<1>8. CASE DeleteLine(k)
  <2>1. SetLine(c.token, c.v, None)
    BY <1>8 DEF DeleteLine
  <2>2. DOMAIN call' = Slots
    BY <1>8 DEF DeleteLine
  <2>3. ASSUME NEW j \in Slots
        PROVE  \/ call'[j] = call[j]
               \/ call[j] # None /\ call'[j] = Moved(call[j], "view")
               \/ call[j] # None /\ call'[j] = Moved(call[j], "lost")
    <3>1. j \in Holders(c.token, c.v) => call[j] # None
      BY DEF Holders, At
    <3> QED BY <1>1, <1>8, <3>1 DEF DeleteLine, Moved
  <2>4. ASSUME NEW j \in Slots, call[j] # None, NEW pc \in {"view", "lost"}
        PROVE  /\ Moved(call[j], pc) \in CallRow /\ SameCall(call[j], Moved(call[j], pc))
               /\ Moved(call[j], pc).view = call[j].view
    BY <1>2, <2>4, RowMoves DEF CallPC
  <2>5. ASSUME NEW j \in Slots
        PROVE  /\ call'[j] \in CallRow \union {None}
               /\ call[j] = None => call'[j] = None
               /\ call[j] # None => call'[j] # None /\ SameCall(call[j], call'[j]) /\ call'[j].view = call[j].view
    BY <1>2, <2>3, <2>4, PagesAssumption DEF SameCall
  <2>6. call' \in [Slots -> CallRow \union {None}]
    BY <2>5, <1>8 DEF DeleteLine
  <2>7. CallsGoOn
    BY <2>5, <2>6 DEF CallsGoOn
  <2> QED BY <2>1, <2>7, <1>4
<1> QED BY <1>6, <1>7, <1>8

LEMMA ServerGoesOn ==
  ASSUME LinesInv, PagesInv, NEW k \in Slots, ServerStep(k)
  PROVE  CallsGoOn /\ HadGrows
<1> DEFINE c == call[k]
<1>1. CallFits(c, cart, offered) /\ (c # None => c \in CallRow) /\ call \in [Slots -> CallRow \union {None}]
  BY DEF LinesInv, CallsInv, PagesInv, PagesTypeOK
<1>2. CASE CreateCart(k)
  <2> DEFINE token == CHOOSE x \in Tokens : cart[x] = None
             new == [lines |-> NoLines, converted |-> FALSE]
  <2>1. token \in Tokens
    BY <1>2 DEF CreateCart
  <2>2. cart' = [cart EXCEPT ![token] = new] /\ c # None /\ UNCHANGED had
    BY <1>2 DEF CreateCart, At
  <2>3. call' = [call EXCEPT ![k] = GotCart(c, token)]
    BY <1>1, <1>2, <2>2 DEF CreateCart, GotCart
  <2> HIDE DEF token
  <2>4. CallsGoOn
    BY <1>1, <2>1, <2>2, <2>3, RowHasCart, OneGoesOn
  <2>5. HadGrows
    <3>1. new.lines = NoLines
      OBVIOUS
    <3>2. \A x \in Tokens : cart'[x] = cart[x] \/ cart'[x] = new
      BY <2>1, <2>2 DEF LinesInv, CartsInv
    <3> HIDE DEF new
    <3> QED BY <2>2, <3>1, <3>2 DEF PagesInv, PagesTypeOK, CartsAreRecorded, HadGrows
  <2> QED BY <2>4, <2>5
<1>3. CASE ReadForAdd(k)
  <2> DEFINE line == cart[c.token].lines[c.v]
             wanted == (IF line = None THEN 0 ELSE line.qty) + c.qty
  <2>1. /\ c # None /\ c.kind = "add" /\ c.token \in Tokens /\ cart[c.token] # None
        /\ Reads(k, wanted) \/ Unavailable(k, wanted)
    BY <1>3 DEF ReadForAdd, At, Closed, Gone
  <2>2. c.v \in Variants /\ c.qty = 1
    BY <1>1, <2>1 DEF CallFits, Asks
  <2>3. line \in Line \union {None}
    BY <2>1, <2>2 DEF LinesInv, CartsInv, Cart, Lines
  <2>4. wanted \in Nat
    BY <2>2, <2>3, ShopAssumption DEF Line
  <2> HIDE DEF wanted
  <2> QED BY <2>1, <2>2, <2>4, ReadsGoOn
<1>4. CASE ReadForSet(k)
  <2>1. c # None /\ c.kind = "set" /\ c.token \in Tokens /\ cart[c.token] # None
    BY <1>4 DEF ReadForSet, At, Closed, Gone
  <2>2. c.v \in Variants /\ c.qty \in 0..(MaxStock + 1)
    BY <1>1, <2>1 DEF CallFits, Asks
  <2>3. CASE c.qty = 0
    <3>1. UNCHANGED shopState /\ call' = [call EXCEPT ![k].pc = "write"]
      BY <1>4, <2>3 DEF ReadForSet
    <3>2. "write" \in CallPC
      BY DEF CallPC
    <3> QED BY <2>1, <3>1, <3>2, HadStays, MovesOn DEF shopState
  <2>4. CASE c.qty # 0
    <3>1. Reads(k, c.qty) \/ Unavailable(k, c.qty)
      BY <1>4, <2>4 DEF ReadForSet
    <3>2. c.qty \in Nat
      BY <2>2
    <3> QED BY <2>1, <2>2, <3>1, <3>2, ReadsGoOn
  <2> QED BY <2>3, <2>4
<1>5. CASE WriteAdd(k) \/ WriteQuantity(k) \/ DeleteLine(k)
  BY <1>5, WritesGoOn
<1>6. CASE AnswersOnly(k)
  BY <1>6, AnswersGoOn
<1> QED BY <1>2, <1>3, <1>4, <1>5, <1>6 DEF ServerStep, AnswersOnly

\* The shop's own steps, and the server's.
LEMMA ServiceKeepsPages ==
  ASSUME LinesInv, PagesInv, UNCHANGED pageVars,
         ShopChanges \/ CartIsPaid \/ \E k \in Slots : ServerStep(k)
  PROVE  PagesInv'
<1>1. ASSUME UNCHANGED call PROVE CallsGoOn
  BY <1>1, PagesAssumption DEF CallsGoOn, PagesInv, PagesTypeOK, SameCall
<1>2. offers \in 0..MaxOffers
  BY DEF PagesInv, PagesTypeOK
<1>3. CASE ShopChanges
  <2>1. UNCHANGED <<cart, had, call>> /\ offers' = offers + 1 /\ offers < MaxOffers
    BY <1>3 DEF ShopChanges, Change
  <2>2. offers' \in 0..MaxOffers
    BY <1>2, <2>1, PagesAssumption
  <2> QED BY <1>1, <2>1, <2>2, HadStays, GoOn
<1>4. CASE CartIsPaid
  <2>1. PICK token \in Tokens :
          /\ ~Closed(token) /\ cart' = [cart EXCEPT ![token].converted = TRUE]
          /\ UNCHANGED <<offer, offered, offers, had, call>>
    BY <1>4 DEF CartIsPaid
  <2>2. cart \in [Tokens -> Cart \union {None}] /\ cart[token] # None
    BY <2>1 DEF Closed, Gone, LinesInv, CartsInv
  <2>3. ASSUME NEW x \in Tokens, cart'[x] # None PROVE cart[x] # None /\ cart'[x].lines = cart[x].lines
    BY <2>1, <2>2, <2>3 DEF Cart
  <2>4. HadGrows
    BY <2>1, <2>3 DEF HadGrows, CartsAreRecorded, PagesInv, PagesTypeOK
  <2> QED BY <1>1, <1>2, <2>1, <2>4, GoOn
<1>5. ASSUME NEW k \in Slots, ServerStep(k) PROVE PagesInv'
  <2>1. UNCHANGED offers
    BY <1>5 DEF ServerStep, CreateCart, CreateFails, ReadForAdd, WriteAdd, ReadForSet, NoSuchLine, WriteQuantity,
                DeleteLine, LineIsLost, CartIsClosed, ViewCart, AnswerOther, AnswerCheckout, Reads, Unavailable,
                SetLine, shopState
  <2> QED BY <1>2, <1>5, <2>1, ServerGoesOn, GoOn
<1> QED BY <1>3, <1>4, <1>5
-----------------------------------------------------------------------------
(* One tab's steps: a click, or an answer that arrives.                     *)

\* Tab t asks, gives up or gets an answer: what the others wait for stays.
OthersWait(t) ==
  \A u \in Tabs, j \in Slots : u # t =>
    /\ Waiting(j, u)' <=> Waiting(j, u)
    /\ Waiting(j, u) => SameCall(call[j], call'[j])

\* Tab t comes to show row, which fits what it now waits for.
Fits(t, row) ==
  /\ row \in Tab
  /\ \A j \in Slots : Waiting(j, t)' =>
       /\ row.page = "shop" => call'[j].kind = "list" /\ call'[j].thing = row.asked
       /\ row.page = "cart" => call'[j].kind \in {"view", "set", "checkout"}
  /\ row.page = "shop" /\ ~row.loading => row.shown \in {None, row.asked}
  /\ row.page = "cart" => row.shown = None \/ row.shown \in had
  /\ row.busy => \E j \in Slots : Waiting(j, t)' /\ call'[j].kind \in EndsBusy
  /\ row.loading => \E j \in Slots : Waiting(j, t)' /\ call'[j].kind \in EndsLoading

\* What every such step leaves in order.
TabStep(t, row) ==
  /\ tab' = [u \in Tabs |-> IF u = t THEN row ELSE tab[u]]
  /\ UNCHANGED <<offers, cart, had>>
  /\ clicks' \in 0..MaxClicks
  /\ stored' \in Tokens \union {None, Stale}
  /\ call' \in [Slots -> CallRow \union {None}]
  /\ \A j \in Slots : call'[j] # None => call'[j].view \in had \union {None}
  /\ OthersWait(t)
  /\ t \in Tabs => Fits(t, row)

LEMMA TabGoesOn ==
  ASSUME PagesInv, NEW t, NEW row, TabStep(t, row) PROVE PagesInv'
<1> USE DEF PagesInv, TabStep
<1>1. \A u \in Tabs : tab'[u] = IF u = t THEN row ELSE tab[u]
  OBVIOUS
<1>2. PagesTypeOK'
  BY <1>1 DEF PagesTypeOK, Fits
<1>3. CartsAreRecorded' /\ ViewsAreRecorded'
  BY DEF CartsAreRecorded, ViewsAreRecorded
<1>4. ASSUME NEW u \in Tabs
      PROVE  /\ \A k \in Slots : Waiting(k, u)' =>
                  /\ Shows(u, "shop")' => call'[k].kind = "list" /\ call'[k].thing = tab'[u].asked
                  /\ Shows(u, "cart")' => call'[k].kind \in {"view", "set", "checkout"}
             /\ Shows(u, "shop")' /\ ~tab'[u].loading => tab'[u].shown \in {None, tab'[u].asked}
             /\ Shows(u, "cart")' => tab'[u].shown = None \/ tab'[u].shown \in had
             /\ tab'[u].busy => \E j \in Slots : Waiting(j, u)' /\ call'[j].kind \in EndsBusy
             /\ tab'[u].loading => \E j \in Slots : Waiting(j, u)' /\ call'[j].kind \in EndsLoading
  <2>1. CASE u = t
    BY <1>1, <2>1 DEF Fits, Shows
  <2>2. CASE u # t
    <3>1. tab'[u] = tab[u] /\ \A j \in Slots : /\ Waiting(j, u)' <=> Waiting(j, u)
                                               /\ Waiting(j, u) => SameCall(call[j], call'[j])
      BY <1>1, <2>2 DEF OthersWait
    <3>2. \A k \in Slots : Waiting(k, u)' =>
            /\ Shows(u, "shop")' => call'[k].kind = "list" /\ call'[k].thing = tab'[u].asked
            /\ Shows(u, "cart")' => call'[k].kind \in {"view", "set", "checkout"}
      BY <3>1 DEF OwnCalls, SameCall, Shows
    <3>3. /\ Shows(u, "shop")' /\ ~tab'[u].loading => tab'[u].shown \in {None, tab'[u].asked}
          /\ Shows(u, "cart")' => tab'[u].shown = None \/ tab'[u].shown \in had
      BY <3>1 DEF PagesTellTheTruth, Shows
    <3>4. ASSUME NEW kinds, \E j \in Slots : Waiting(j, u) /\ call[j].kind \in kinds
          PROVE  \E j \in Slots : Waiting(j, u)' /\ call'[j].kind \in kinds
      BY <3>1, <3>4 DEF SameCall
    <3>5. /\ tab'[u].busy => \E j \in Slots : Waiting(j, u)' /\ call'[j].kind \in EndsBusy
          /\ tab'[u].loading => \E j \in Slots : Waiting(j, u)' /\ call'[j].kind \in EndsLoading
      BY <3>1, <3>4 DEF WaitsForAnAnswer, Awaited, Waiting, EndsBusy, EndsLoading
    <3> QED BY <3>2, <3>3, <3>5
  <2> QED BY <2>1, <2>2
<1>5. OwnCalls'
  BY <1>4 DEF OwnCalls
<1>6. PagesTellTheTruth'
  BY <1>4 DEF PagesTellTheTruth
<1>7. WaitsForAnAnswer'
  BY <1>4 DEF WaitsForAnAnswer, Awaited, Waiting, EndsBusy, EndsLoading
<1> QED BY <1>2, <1>3, <1>5, <1>6, <1>7

\* Calls of tab t are left as they are, hidden, or given up.
Milder(t, waiting) ==
  /\ waiting \in [Slots -> CallRow \union {None}]
  /\ \A j \in Slots : ~Waiting(j, t) => waiting[j] = call[j]
  /\ \A j \in Slots : Waiting(j, t) => waiting[j] # None /\ waiting[j].from \in {t, None}
                                       /\ waiting[j].view = call[j].view

LEMMA AbandonIsMilder ==
  ASSUME PagesInv, NEW t \in Tabs, NEW kinds
  PROVE  /\ Milder(t, Abandon(t, kinds))
         /\ \A j \in Slots : call[j] # None /\ call[j].from = t =>
              Abandon(t, kinds)[j] = IF call[j].kind \in kinds THEN [call[j] EXCEPT !.from = None] ELSE call[j]
<1>1. call \in [Slots -> CallRow \union {None}]
  BY DEF PagesInv, PagesTypeOK
<1>2. ASSUME NEW c \in CallRow
      PROVE  LET d == [c EXCEPT !.from = None] IN
             d \in CallRow /\ d.from = None /\ d.kind = c.kind /\ d.view = c.view /\ d # None
  <2>1. [c EXCEPT !.from = None] \in CallRow
    BY DEF CallRow
  <2> QED BY <2>1, PagesAssumption DEF CallRow
<1>3. ASSUME NEW j \in Slots
      PROVE  Abandon(t, kinds)[j] = IF call[j] # None /\ call[j].from = t /\ call[j].kind \in kinds
                                    THEN [call[j] EXCEPT !.from = None] ELSE call[j]
  BY DEF Abandon
<1>4. \A j \in Slots : Abandon(t, kinds)[j] \in CallRow \union {None}
  BY <1>1, <1>2, <1>3
<1>5. Abandon(t, kinds) \in [Slots -> CallRow \union {None}]
  BY <1>4 DEF Abandon
<1>6. Milder(t, Abandon(t, kinds))
  <2>1. ASSUME NEW j \in Slots, ~Waiting(j, t) PROVE Abandon(t, kinds)[j] = call[j]
    BY <1>3, <2>1 DEF Waiting
  <2>2. ASSUME NEW j \in Slots, Waiting(j, t)
        PROVE  /\ Abandon(t, kinds)[j] # None /\ Abandon(t, kinds)[j].from \in {t, None}
               /\ Abandon(t, kinds)[j].view = call[j].view
    <3>1. call[j] \in CallRow /\ call[j] # None /\ call[j].from = t
      BY <1>1, <2>2 DEF Waiting
    <3>2. CASE call[j].kind \in kinds
      BY <1>2, <1>3, <3>1, <3>2
    <3>3. CASE call[j].kind \notin kinds
      BY <1>3, <3>1, <3>3
    <3> QED BY <3>2, <3>3
  <2> QED BY <1>5, <2>1, <2>2 DEF Milder
<1> QED BY <1>3, <1>6

LEMMA CallIsMilder ==
  ASSUME PagesInv, NEW t PROVE Milder(t, call)
BY DEF PagesInv, PagesTypeOK, Milder, Waiting

\* What a tab that sends d comes to wait for.
Sent(t, d, waiting) ==
  /\ call' \in [Slots -> CallRow \union {None}]
  /\ \A j \in Slots : call'[j] # None => call'[j].view \in had \union {None}
  /\ OthersWait(t)
  /\ \E s \in Slots :
       /\ call[s] = None /\ call'[s] = d /\ Waiting(s, t)'
       /\ \A j \in Slots : j # s => call'[j] = waiting[j]
       /\ \A j \in Slots : Waiting(j, t)' => j = s \/ (Waiting(j, t) /\ waiting[j].from = t)

LEMMA SentFrom ==
  ASSUME PagesInv, NEW t \in Tabs, NEW waiting, Milder(t, waiting), SlotFree,
         NEW d \in CallRow, d.from = t, d.view = None, call' = [waiting EXCEPT ![Slot] = d]
  PROVE  Sent(t, d, waiting)
<1>1. PICK s \in Slots : s = Slot /\ call[s] = None
  BY DEF SlotFree, Slot
<1>2. d # None
  BY PagesAssumption
<1>3. /\ call' \in [Slots -> CallRow \union {None}]
      /\ call'[s] = d
      /\ \A j \in Slots : j # s => call'[j] = waiting[j]
  BY <1>1 DEF Milder
<1>4. \A j \in Slots : call'[j] # None => call'[j].view \in had \union {None}
  BY <1>2, <1>3 DEF Milder, Waiting, PagesInv, ViewsAreRecorded
<1>5. OthersWait(t)
  <2> SUFFICES ASSUME NEW u \in Tabs, NEW j \in Slots, u # t
               PROVE  /\ Waiting(j, u)' <=> Waiting(j, u)
                      /\ Waiting(j, u) => SameCall(call[j], call'[j])
    BY DEF OthersWait
  <2>1. CASE j = s
    BY <1>1, <1>3, <2>1 DEF Waiting
  <2>2. CASE j # s /\ Waiting(j, t)
    <3>1. call'[j].from \in {t, None} /\ call[j].from = t
      BY <1>3, <2>2 DEF Milder, Waiting
    <3> QED BY <3>1, PagesAssumption DEF Waiting
  <2>3. CASE j # s /\ ~Waiting(j, t)
    <3>1. call'[j] = call[j]
      BY <1>3, <2>3 DEF Milder
    <3> QED BY <3>1 DEF Waiting, SameCall
  <2> QED BY <2>1, <2>2, <2>3
<1>6. Waiting(s, t)' /\ \A j \in Slots : Waiting(j, t)' => j = s \/ (Waiting(j, t) /\ waiting[j].from = t)
  BY <1>1, <1>2, <1>3 DEF Milder, Waiting
<1> QED BY <1>1, <1>3, <1>4, <1>5, <1>6 DEF Sent

\* A new call.
LEMMA CallIsRow ==
  ASSUME NEW t \in Tabs \union {None}, NEW kind \in AllKinds, NEW thing \in CallThings,
         NEW token \in Tokens \union {None, Stale}, NEW d, d = Call(t, kind, thing, token)
  PROVE  d \in CallRow /\ d.from = t /\ d.kind = kind /\ d.thing = thing /\ d.view = None
BY ShopAssumption DEF Call, CallRow, CallPC, Reading

LineCall(t, kind, thing, token, v, qty) == [Call(t, kind, thing, token) EXCEPT !.v = v, !.qty = qty]

LEMMA CallOfLine ==
  ASSUME NEW t \in Tabs \union {None}, NEW kind \in AllKinds, NEW thing \in CallThings,
         NEW token \in Tokens \union {None, Stale}, NEW v \in Variants, NEW qty \in 0..(MaxStock + 1)
  PROVE  /\ LineCall(t, kind, thing, token, v, qty) \in CallRow
         /\ LineCall(t, kind, thing, token, v, qty).from = t
         /\ LineCall(t, kind, thing, token, v, qty).kind = kind
         /\ LineCall(t, kind, thing, token, v, qty).view = None
BY ShopAssumption DEF Call, CallRow, CallPC, Reading, LineCall

LEMMA ClickCounts ==
  ASSUME PagesInv, Clicked PROVE clicks' \in 0..MaxClicks
BY PagesAssumption DEF PagesInv, PagesTypeOK, Clicked

\* Keep, as TabStep has it.
LEMMA KeepIs ==
  ASSUME PagesInv, NEW t \in Tabs, NEW new, Keep(t, new)
  PROVE  tab' = [u \in Tabs |-> IF u = t THEN new ELSE tab[u]]
BY DEF PagesInv, PagesTypeOK, Keep
-----------------------------------------------------------------------------
(* Clicks.                                                                  *)

\* A page that is opened waits for nothing but what it asks for.
LEMMA OpenedKeepsPages ==
  ASSUME PagesInv, NEW t \in Tabs, NEW row, Keep(t, row), Clicked, UNCHANGED <<shopState, stored>>,
         row \in Tab, ~row.busy, row.shown = None,
         \/ /\ ~row.loading /\ call' = Abandon(t, AllKinds)
         \/ \E kind \in EndsLoading, thing \in CallThings, token \in Tokens \union {None, Stale} :
              /\ Send(t, kind, thing, token, Abandon(t, AllKinds))
              /\ row.page = "shop" => kind = "list" /\ thing = row.asked
              /\ row.page = "cart" => kind = "view"
  PROVE  PagesInv'
<1>1. /\ Milder(t, Abandon(t, AllKinds))
      /\ \A j \in Slots : Waiting(j, t) => Abandon(t, AllKinds)[j].from = None
  <2>1. /\ Milder(t, Abandon(t, AllKinds))
        /\ \A j \in Slots : call[j] # None /\ call[j].from = t =>
             Abandon(t, AllKinds)[j] = IF call[j].kind \in AllKinds THEN [call[j] EXCEPT !.from = None] ELSE call[j]
    BY AbandonIsMilder
  <2>2. ASSUME NEW j \in Slots, Waiting(j, t) PROVE Abandon(t, AllKinds)[j].from = None
    <3>1. call[j] \in CallRow /\ call[j] # None /\ call[j].from = t
      BY <2>2 DEF Waiting, PagesInv, PagesTypeOK
    <3>2. call[j].kind \in AllKinds
      BY <3>1 DEF CallRow
    <3>3. Abandon(t, AllKinds)[j] = [call[j] EXCEPT !.from = None]
      BY <2>1, <3>1, <3>2
    <3> QED BY <3>1, <3>3 DEF CallRow
  <2> QED BY <2>1, <2>2
<1>2. /\ tab' = [u \in Tabs |-> IF u = t THEN row ELSE tab[u]]
      /\ UNCHANGED <<offers, cart, had>> /\ clicks' \in 0..MaxClicks /\ stored' \in Tokens \union {None, Stale}
  BY KeepIs, ClickCounts DEF shopState, PagesInv, PagesTypeOK
<1>3. CASE ~row.loading /\ call' = Abandon(t, AllKinds)
  <2>1. /\ call' \in [Slots -> CallRow \union {None}]
        /\ \A j \in Slots : call'[j] # None => call'[j].view \in had \union {None}
    BY <1>1, <1>3 DEF Milder, Waiting, PagesInv, ViewsAreRecorded
  <2>2. \A j \in Slots : ~Waiting(j, t)'
    BY <1>1, <1>3, PagesAssumption DEF Milder, Waiting
  <2>3. OthersWait(t)
    <3> SUFFICES ASSUME NEW u \in Tabs, NEW j \in Slots, u # t
                 PROVE  /\ Waiting(j, u)' <=> Waiting(j, u)
                        /\ Waiting(j, u) => SameCall(call[j], call'[j])
      BY DEF OthersWait
    <3>1. CASE Waiting(j, t)
      BY <1>1, <1>3, <3>1, PagesAssumption DEF Waiting
    <3>2. CASE ~Waiting(j, t)
      BY <1>1, <1>3, <3>2 DEF Milder, Waiting, SameCall
    <3> QED BY <3>1, <3>2
  <2>4. Fits(t, row)
    BY <1>3, <2>2 DEF Fits
  <2> QED BY <1>2, <2>1, <2>3, <2>4, TabGoesOn DEF TabStep
<1>4. ASSUME NEW kind \in EndsLoading, NEW thing \in CallThings, NEW token \in Tokens \union {None, Stale},
             Send(t, kind, thing, token, Abandon(t, AllKinds)),
             row.page = "shop" => kind = "list" /\ thing = row.asked,
             row.page = "cart" => kind = "view"
      PROVE  PagesInv'
  <2>1. SlotFree /\ kind \in AllKinds
    BY <1>4 DEF Send, EndsLoading, AllKinds
  <2> DEFINE d == Call(t, kind, thing, token)
  <2>2. call' = [Abandon(t, AllKinds) EXCEPT ![Slot] = d]
    BY <1>4 DEF Send
  <2>3. d \in CallRow /\ d.from = t /\ d.kind = kind /\ d.thing = thing /\ d.view = None
    BY <2>1, CallIsRow
  <2> HIDE DEF d
  <2>4. Sent(t, d, Abandon(t, AllKinds))
    BY <1>1, <2>1, <2>2, <2>3, SentFrom
  <2>5. \E s \in Slots : call'[s] = d /\ Waiting(s, t)' /\ \A j \in Slots : Waiting(j, t)' => j = s
    BY <1>1, <2>4, PagesAssumption DEF Sent
  <2>6. Fits(t, row)
    BY <1>4, <2>3, <2>4, <2>5 DEF Fits
  <2> QED BY <1>2, <2>4, <2>6, TabGoesOn DEF Sent, TabStep
<1> QED BY <1>3, <1>4

LEMMA OpenKeepsPages ==
  ASSUME PagesInv, NEW t \in Tabs,
         \/ \E x \in Terms : OpenShop(t, x)
         \/ \E p \in Products : OpenProduct(t, p)
         \/ OpenCart(t) \/ OpenOrders(t)
  PROVE  PagesInv'
<1>1. ASSUME NEW x \in Terms, OpenShop(t, x) PROVE PagesInv'
  <2> DEFINE row == Blank("shop", x, TRUE)
  <2>1. row \in Tab /\ ~row.busy /\ row.shown = None /\ row.page = "shop" /\ row.asked = x
    BY DEF Blank, Tab, Things
  <2>2. Keep(t, row) /\ Clicked /\ UNCHANGED <<shopState, stored>> /\ Send(t, "list", x, None, Abandon(t, AllKinds))
    BY <1>1 DEF OpenShop
  <2>3. "list" \in EndsLoading /\ x \in CallThings
    BY DEF EndsLoading, CallThings, Things
  <2> HIDE DEF row
  <2> QED BY <2>1, <2>2, <2>3, OpenedKeepsPages
<1>2. ASSUME NEW p \in Products, OpenProduct(t, p) PROVE PagesInv'
  <2> DEFINE row == Blank("product", p, TRUE)
  <2>1. row \in Tab /\ ~row.busy /\ row.shown = None /\ row.page = "product"
    BY DEF Blank, Tab, Things
  <2>2. Keep(t, row) /\ Clicked /\ UNCHANGED <<shopState, stored>> /\ Send(t, "product", p, None, Abandon(t, AllKinds))
    BY <1>2 DEF OpenProduct
  <2>3. "product" \in EndsLoading /\ p \in CallThings
    BY DEF EndsLoading, CallThings, Things
  <2> HIDE DEF row
  <2> QED BY <2>1, <2>2, <2>3, OpenedKeepsPages
<1>3. CASE OpenCart(t)
  <2> DEFINE row == Blank("cart", None, stored # None)
  <2>1. row \in Tab /\ ~row.busy /\ row.shown = None /\ row.page = "cart" /\ row.loading = (stored # None)
    BY DEF Blank, Tab, Things
  <2>2. Keep(t, row) /\ Clicked /\ UNCHANGED <<shopState, stored>>
    BY <1>3 DEF OpenCart
  <2>3. \/ stored = None /\ call' = Abandon(t, AllKinds)
        \/ stored # None /\ Send(t, "view", None, stored, Abandon(t, AllKinds))
    BY <1>3 DEF OpenCart
  <2>4. "view" \in EndsLoading /\ None \in CallThings /\ stored \in Tokens \union {None, Stale}
    BY DEF EndsLoading, CallThings, PagesInv, PagesTypeOK
  <2> HIDE DEF row
  <2> QED BY <2>1, <2>2, <2>3, <2>4, OpenedKeepsPages
<1>4. CASE OpenOrders(t)
  <2> DEFINE row == Blank("orders", None, FALSE)
  <2>1. row \in Tab /\ ~row.busy /\ row.shown = None /\ ~row.loading
    BY DEF Blank, Tab, Things
  <2>2. Keep(t, row) /\ Clicked /\ UNCHANGED <<shopState, stored>> /\ call' = Abandon(t, AllKinds)
    BY <1>4 DEF OpenOrders
  <2> HIDE DEF row
  <2> QED BY <2>1, <2>2, OpenedKeepsPages
<1> QED BY <1>1, <1>2, <1>3, <1>4
\* A click that sends a call, with the page it leaves.
LEMMA ClickKeepsPages ==
  ASSUME PagesInv, NEW t \in Tabs, NEW row \in Tab, Keep(t, row), Clicked, UNCHANGED <<shopState, stored>>,
         NEW waiting, Milder(t, waiting), SlotFree,
         NEW d \in CallRow, d.from = t, d.view = None, call' = [waiting EXCEPT ![Slot] = d],
         row.page = "shop" =>
           /\ d.kind = "list" /\ d.thing = row.asked
           /\ \A j \in Slots : Waiting(j, t) => waiting[j].from # t,
         row.page = "cart" => Shows(t, "cart") /\ waiting = call /\ d.kind \in {"set", "checkout"},
         row.page = "shop" /\ ~row.loading => row.shown \in {None, row.asked},
         row.page = "cart" => row.shown = None \/ row.shown \in had,
         row.busy => d.kind \in EndsBusy \/ (tab[t].busy /\ waiting = call),
         row.loading => d.kind \in EndsLoading \/ (tab[t].loading /\ waiting = call)
  PROVE  PagesInv'
<1>1. /\ tab' = [u \in Tabs |-> IF u = t THEN row ELSE tab[u]]
      /\ UNCHANGED <<offers, cart, had>> /\ clicks' \in 0..MaxClicks /\ stored' \in Tokens \union {None, Stale}
  BY KeepIs, ClickCounts DEF shopState, PagesInv, PagesTypeOK
<1>2. Sent(t, d, waiting)
  BY SentFrom
<1>3. PICK s \in Slots :
        /\ call[s] = None /\ call'[s] = d /\ Waiting(s, t)'
        /\ \A j \in Slots : j # s => call'[j] = waiting[j]
        /\ \A j \in Slots : Waiting(j, t)' => j = s \/ (Waiting(j, t) /\ waiting[j].from = t)
  BY <1>2 DEF Sent
<1>4. ASSUME NEW j \in Slots, Waiting(j, t)'
      PROVE  /\ row.page = "shop" => call'[j].kind = "list" /\ call'[j].thing = row.asked
             /\ row.page = "cart" => call'[j].kind \in {"view", "set", "checkout"}
  <2>1. CASE j = s
    BY <1>3, <2>1
  <2>2. CASE j # s
    <3>1. Waiting(j, t) /\ waiting[j].from = t /\ call'[j] = waiting[j]
      BY <1>3, <1>4, <2>2
    <3> QED BY <3>1 DEF PagesInv, OwnCalls
  <2> QED BY <2>1, <2>2
<1>5. ASSUME NEW kinds, waiting = call, \E j \in Slots : call[j] # None /\ call[j].from = t /\ call[j].kind \in kinds
      PROVE  \E j \in Slots : Waiting(j, t)' /\ call'[j].kind \in kinds
  <2>1. PICK j \in Slots : call[j] # None /\ call[j].from = t /\ call[j].kind \in kinds
    BY <1>5
  <2>2. call'[j] = call[j]
    BY <1>3, <1>5, <2>1
  <2> QED BY <2>1, <2>2 DEF Waiting
<1>6. /\ row.busy => \E j \in Slots : Waiting(j, t)' /\ call'[j].kind \in EndsBusy
      /\ row.loading => \E j \in Slots : Waiting(j, t)' /\ call'[j].kind \in EndsLoading
  BY <1>3, <1>5 DEF PagesInv, WaitsForAnAnswer, Awaited, EndsBusy, EndsLoading
<1>7. Fits(t, row)
  BY <1>4, <1>6 DEF Fits
<1> QED BY <1>1, <1>2, <1>7, TabGoesOn DEF Sent, TabStep

LEMMA TabIsTab ==
  ASSUME PagesInv, NEW t \in Tabs
  PROVE  tab[t] \in Tab /\ stored \in Tokens \union {None, Stale} /\ tab[t].shown \in CallThings
BY DEF PagesInv, PagesTypeOK, Tab, CallThings

LEMMA SearchKeepsPages ==
  ASSUME PagesInv, NEW t \in Tabs, NEW term \in Terms, Search(t, term) PROVE PagesInv'
<1> DEFINE row == [tab[t] EXCEPT !.asked = term, !.loading = TRUE]
           waiting == Abandon(t, {"list"})
           d == Call(t, "list", term, None)
<1>1. tab[t] \in Tab /\ tab[t].page = "shop"
  BY TabIsTab DEF Search, Shows
<1>2. row \in Tab /\ row.page = "shop" /\ row.asked = term /\ row.loading /\ row.busy = tab[t].busy
  BY <1>1 DEF Tab, Things
<1>3. ~tab[t].busy
  BY <1>1 DEF PagesInv, WaitsForAnAnswer, Awaited, OwnCalls, Waiting, Shows
<1>4. Keep(t, row) /\ Clicked /\ UNCHANGED <<shopState, stored>> /\ SlotFree /\ call' = [waiting EXCEPT ![Slot] = d]
  BY DEF Search, Send
<1>5. /\ Milder(t, waiting)
      /\ \A j \in Slots : call[j] # None /\ call[j].from = t =>
           waiting[j] = IF call[j].kind \in {"list"} THEN [call[j] EXCEPT !.from = None] ELSE call[j]
  BY AbandonIsMilder
<1>6. ASSUME NEW j \in Slots, Waiting(j, t) PROVE waiting[j].from # t
  <2>1. call[j].kind = "list" /\ call[j] \in CallRow
    BY <1>1, <1>6 DEF PagesInv, PagesTypeOK, OwnCalls, Shows, Waiting
  <2>2. waiting[j] = [call[j] EXCEPT !.from = None]
    BY <1>5, <1>6, <2>1 DEF Waiting
  <2>3. waiting[j].from = None
    BY <2>1, <2>2 DEF CallRow
  <2> QED BY <2>3, PagesAssumption
<1>7. d \in CallRow /\ d.from = t /\ d.kind = "list" /\ d.thing = term /\ d.view = None
  <2>1. "list" \in AllKinds /\ term \in CallThings
    BY DEF AllKinds, CallThings, Things
  <2> QED BY <2>1, CallIsRow
<1>8. "list" \in EndsLoading
  BY DEF EndsLoading
<1> HIDE DEF row, waiting, d
<1>9. row.page = "shop" => /\ d.kind = "list" /\ d.thing = row.asked
                           /\ \A j \in Slots : Waiting(j, t) => waiting[j].from # t
  BY <1>2, <1>6, <1>7
<1> QED BY <1>2, <1>3, <1>4, <1>5, <1>7, <1>8, <1>9, ClickKeepsPages

LEMMA AddClickedKeepsPages ==
  ASSUME PagesInv, NEW t \in Tabs, AddClicked(t) PROVE PagesInv'
<1> DEFINE row == [tab[t] EXCEPT !.busy = TRUE]
           kind == IF stored = None THEN "create" ELSE "add"
<1>1. PICK v \in Variants : call' = [call EXCEPT ![Slot] = LineCall(t, kind, tab[t].shown, stored, v, 1)]
  BY DEF AddClicked, LineCall
<1> DEFINE d == LineCall(t, kind, tab[t].shown, stored, v, 1)
<1>2. tab[t] \in Tab /\ tab[t].page = "product" /\ stored \in Tokens \union {None, Stale} /\ tab[t].shown \in CallThings
  BY TabIsTab DEF AddClicked, Shows
<1>3. row \in Tab /\ row.page = "product" /\ row.loading = tab[t].loading
  BY <1>2 DEF Tab
<1>4. kind \in AllKinds /\ kind \in EndsBusy /\ 1 \in 0..(MaxStock + 1)
  BY ShopAssumption DEF AllKinds, EndsBusy
<1>5. Keep(t, row) /\ Clicked /\ UNCHANGED <<shopState, stored>> /\ SlotFree
  BY DEF AddClicked
<1> HIDE DEF kind, row
<1>6. d \in CallRow /\ d.from = t /\ d.kind = kind /\ d.view = None
  <2>1. ASSUME NEW thing \in CallThings, NEW qty \in 0..(MaxStock + 1)
        PROVE  /\ LineCall(t, kind, thing, stored, v, qty) \in CallRow
               /\ LineCall(t, kind, thing, stored, v, qty).from = t
               /\ LineCall(t, kind, thing, stored, v, qty).kind = kind
               /\ LineCall(t, kind, thing, stored, v, qty).view = None
    BY <1>2, <1>4, CallOfLine
  <2> QED BY <1>2, <1>4, <2>1
<1>7. call' = [call EXCEPT ![Slot] = d]
  BY <1>1
<1> HIDE DEF d
<1> QED BY <1>3, <1>4, <1>5, <1>6, <1>7, CallIsMilder, ClickKeepsPages

LEMMA ChangeQtyKeepsPages ==
  ASSUME PagesInv, NEW t \in Tabs, NEW v \in Variants, Lined(t, v), NEW qty \in Clickable(t, v), ChangeQty(t, v, qty)
  PROVE  PagesInv'
<1> DEFINE d == LineCall(t, "set", None, stored, v, qty)
<1>1. tab[t] \in Tab /\ tab[t].page = "cart" /\ stored \in Tokens \union {None, Stale}
  BY TabIsTab DEF Lined, Shows
<1>2. qty \in 0..(MaxStock + 1) /\ "set" \in AllKinds /\ None \in CallThings
  BY ShopAssumption DEF Clickable, AllKinds, CallThings
<1>3. d \in CallRow /\ d.from = t /\ d.kind = "set" /\ d.view = None
  BY <1>1, <1>2, CallOfLine
<1>4. Clicked /\ UNCHANGED <<shopState, stored, tab>> /\ SlotFree /\ call' = [call EXCEPT ![Slot] = d]
  BY DEF ChangeQty, LineCall
<1> HIDE DEF d
<1>5. Keep(t, tab[t])
  BY <1>4 DEF Keep, PagesInv, PagesTypeOK
<1>6. tab[t].shown = None \/ tab[t].shown \in had
  BY <1>1 DEF PagesInv, PagesTellTheTruth, Shows
<1> QED BY <1>1, <1>3, <1>4, <1>5, <1>6, CallIsMilder, ClickKeepsPages DEF Shows

LEMMA CheckoutClickedKeepsPages ==
  ASSUME PagesInv, NEW t \in Tabs, CheckoutClicked(t) PROVE PagesInv'
<1> DEFINE row == [tab[t] EXCEPT !.busy = TRUE]
           d == Call(t, "checkout", None, stored)
<1>1. tab[t] \in Tab /\ tab[t].page = "cart" /\ stored \in Tokens \union {None, Stale}
  BY TabIsTab DEF CheckoutClicked, Lined, Shows
<1>2. row \in Tab /\ row.page = "cart" /\ row.loading = tab[t].loading /\ row.shown = tab[t].shown
  BY <1>1 DEF Tab
<1>3. "checkout" \in AllKinds /\ "checkout" \in EndsBusy /\ None \in CallThings
  BY DEF AllKinds, EndsBusy, CallThings
<1>4. d \in CallRow /\ d.from = t /\ d.kind = "checkout" /\ d.view = None
  BY <1>1, <1>3, CallIsRow
<1>5. Keep(t, row) /\ Clicked /\ UNCHANGED <<shopState, stored>> /\ SlotFree /\ call' = [call EXCEPT ![Slot] = d]
  BY DEF CheckoutClicked, Send
<1>6. tab[t].shown = None \/ tab[t].shown \in had
  BY <1>1 DEF PagesInv, PagesTellTheTruth, Shows
<1> HIDE DEF d, row
<1> QED BY <1>1, <1>2, <1>3, <1>4, <1>5, <1>6, CallIsMilder, ClickKeepsPages DEF Shows

LEMMA LookupKeepsPages ==
  ASSUME PagesInv, NEW t \in Tabs, NEW order \in OrderNumbers, Lookup(t, order) PROVE PagesInv'
<1> DEFINE row == Blank("orders", order, TRUE)
           d == Call(t, "lookup", order, None)
           waiting == [k \in Slots |-> IF call[k] # None /\ call[k].from = t /\ call[k].kind = "return"
                                       THEN [call[k] EXCEPT !.kind = "hidden return"] ELSE call[k]]
<1>1. row \in Tab /\ row.page = "orders" /\ ~row.busy
  BY DEF Blank, Tab, Things
<1>2. "lookup" \in AllKinds /\ "lookup" \in EndsLoading /\ order \in CallThings
  BY DEF AllKinds, EndsLoading, CallThings, Things
<1>3. d \in CallRow /\ d.from = t /\ d.kind = "lookup" /\ d.view = None
  BY <1>2, CallIsRow
<1>4. Keep(t, row) /\ Clicked /\ UNCHANGED <<shopState, stored>> /\ SlotFree /\ call' = [waiting EXCEPT ![Slot] = d]
  BY DEF Lookup, Send
<1>5. Milder(t, waiting)
  <2>1. call \in [Slots -> CallRow \union {None}]
    BY DEF PagesInv, PagesTypeOK
  <2>2. ASSUME NEW c \in CallRow
        PROVE  /\ [c EXCEPT !.kind = "hidden return"] \in CallRow
               /\ [c EXCEPT !.kind = "hidden return"].from = c.from
               /\ [c EXCEPT !.kind = "hidden return"].view = c.view
    BY DEF CallRow, AllKinds
  <2>3. \A j \in Slots : waiting[j] = IF call[j] # None /\ call[j].from = t /\ call[j].kind = "return"
                                      THEN [call[j] EXCEPT !.kind = "hidden return"] ELSE call[j]
    OBVIOUS
  <2>4. waiting \in [Slots -> CallRow \union {None}]
    BY <2>1, <2>2
  <2> HIDE DEF waiting
  <2>5. \A j \in Slots : ~Waiting(j, t) => waiting[j] = call[j]
    BY <2>3 DEF Waiting
  <2>6. ASSUME NEW j \in Slots, Waiting(j, t)
        PROVE  waiting[j] # None /\ waiting[j].from \in {t, None} /\ waiting[j].view = call[j].view
    <3>1. call[j] \in CallRow /\ call[j] # None /\ call[j].from = t
      BY <2>1, <2>6 DEF Waiting
    <3>2. CASE call[j].kind = "return"
      BY <2>2, <2>3, <3>1, <3>2, PagesAssumption
    <3>3. CASE call[j].kind # "return"
      BY <2>3, <3>1, <3>3
    <3> QED BY <3>2, <3>3
  <2> QED BY <2>4, <2>5, <2>6 DEF Milder
<1> HIDE DEF d, row, waiting
<1> QED BY <1>1, <1>2, <1>3, <1>4, <1>5, ClickKeepsPages

LEMMA AskReturnKeepsPages ==
  ASSUME PagesInv, NEW t \in Tabs, NEW typed \in OrderNumbers, AskReturn(t, typed) PROVE PagesInv'
<1> DEFINE row == [tab[t] EXCEPT !.busy = TRUE]
           d == Call(t, "return", typed, None)
<1>1. tab[t] \in Tab /\ tab[t].page = "orders"
  BY TabIsTab DEF AskReturn, Shows
<1>2. row \in Tab /\ row.page = "orders" /\ row.loading = tab[t].loading
  BY <1>1 DEF Tab
<1>3. "return" \in AllKinds /\ "return" \in EndsBusy /\ typed \in CallThings
  BY DEF AllKinds, EndsBusy, CallThings, Things
<1>4. d \in CallRow /\ d.from = t /\ d.kind = "return" /\ d.view = None
  BY <1>3, CallIsRow
<1>5. Keep(t, row) /\ Clicked /\ UNCHANGED <<shopState, stored>> /\ SlotFree /\ call' = [call EXCEPT ![Slot] = d]
  BY DEF AskReturn, Send
<1> HIDE DEF d, row
<1> QED BY <1>2, <1>3, <1>4, <1>5, CallIsMilder, ClickKeepsPages

LEMMA PaidAndBackKeepsPages ==
  ASSUME PagesInv, NEW t \in Tabs, PaidAndBack(t) PROVE PagesInv'
<1> DEFINE row == Blank("success", None, FALSE)
<1>1. row \in Tab /\ row.page = "success" /\ ~row.busy /\ ~row.loading
  BY DEF Blank, Tab
<1>2. Keep(t, row) /\ Clicked /\ stored' = None /\ UNCHANGED <<shopState, call>>
  BY DEF PaidAndBack
<1> HIDE DEF row
<1>3. tab' = [u \in Tabs |-> IF u = t THEN row ELSE tab[u]] /\ clicks' \in 0..MaxClicks
  BY <1>2, KeepIs, ClickCounts
<1>4. Fits(t, row)
  BY <1>1 DEF Fits
<1>5. OthersWait(t)
  BY <1>2 DEF OthersWait, Waiting, SameCall
<1>6. /\ UNCHANGED <<offers, cart, had>> /\ call' \in [Slots -> CallRow \union {None}]
      /\ \A j \in Slots : call'[j] # None => call'[j].view \in had \union {None}
  BY <1>2 DEF shopState, PagesInv, PagesTypeOK, ViewsAreRecorded
<1> QED BY <1>2, <1>3, <1>4, <1>5, <1>6, TabGoesOn DEF TabStep

LEMMA UserKeepsPages ==
  ASSUME PagesInv, NEW t \in Tabs, UserStep(t) PROVE PagesInv'
BY OpenKeepsPages, SearchKeepsPages, LookupKeepsPages, AskReturnKeepsPages, PaidAndBackKeepsPages,
   AddClickedKeepsPages, CheckoutClickedKeepsPages, ChangeQtyKeepsPages DEF UserStep
-----------------------------------------------------------------------------
(* Answers.                                                                 *)

\* Call k is over, or goes on as d; the tab that waits for it shows row.
LEMMA AnswerKeepsPages ==
  ASSUME PagesInv, NEW k \in Slots, call[k] # None, NEW row, NEW d,
         tab' = [u \in Tabs |-> IF u = call[k].from THEN row ELSE tab[u]],
         UNCHANGED <<offers, cart, had, clicks>>, stored' \in Tokens \union {None, Stale},
         call' = [call EXCEPT ![k] = d],
         d # None => d \in CallRow /\ d.from = call[k].from /\ d.view \in had \union {None},
         call[k].from \in Tabs =>
           LET old == tab[call[k].from] IN
           /\ row \in Tab
           /\ row.page \in {"shop", "cart"} => row.page = old.page /\ row.asked = old.asked /\ d = None
           /\ row.page = "shop" /\ ~row.loading => row.shown \in {None, row.asked}
           /\ row.page = "cart" => row.shown = None \/ row.shown \in had
           /\ row.busy => old.busy /\ (call[k].kind \notin EndsBusy \/ (d # None /\ d.kind \in EndsBusy))
           /\ row.loading => \/ d # None /\ d.kind \in EndsLoading
                             \/ old.loading /\ call[k].kind \notin EndsLoading
  PROVE  PagesInv'
<1> PICK t : t = call[k].from
  OBVIOUS
<1>1. call \in [Slots -> CallRow \union {None}] /\ call' \in [Slots -> CallRow \union {None}]
  BY DEF PagesInv, PagesTypeOK
<1>2. call'[k] = d /\ \A j \in Slots : j # k => call'[j] = call[j]
  BY <1>1
<1>3. \A j \in Slots : call'[j] # None => call'[j].view \in had \union {None}
  BY <1>2 DEF PagesInv, ViewsAreRecorded
<1>4. OthersWait(t)
  <2> SUFFICES ASSUME NEW u \in Tabs, NEW j \in Slots, u # t
               PROVE  /\ Waiting(j, u)' <=> Waiting(j, u)
                      /\ Waiting(j, u) => SameCall(call[j], call'[j])
    BY DEF OthersWait
  <2>1. CASE j = k
    BY <1>2, <2>1 DEF Waiting
  <2>2. CASE j # k
    BY <1>2, <2>2 DEF Waiting, SameCall
  <2> QED BY <2>1, <2>2
<1>5. clicks' \in 0..MaxClicks
  BY DEF PagesInv, PagesTypeOK
<1>6. ASSUME t \in Tabs PROVE Fits(t, row)
  <2>1. \A j \in Slots : j # k => (Waiting(j, t)' <=> Waiting(j, t))
    BY <1>2 DEF Waiting
  <2>2. ASSUME NEW j \in Slots, Waiting(j, t)', row.page \in {"shop", "cart"}
        PROVE  /\ row.page = "shop" => call'[j].kind = "list" /\ call'[j].thing = row.asked
               /\ row.page = "cart" => call'[j].kind \in {"view", "set", "checkout"}
    <3>1. j # k
      BY <1>2, <1>6, <2>2 DEF Waiting
    <3>2. Waiting(j, t) /\ call'[j] = call[j]
      BY <1>2, <2>1, <2>2, <3>1
    <3>3. Shows(t, row.page) /\ row.asked = tab[t].asked
      BY <1>6, <2>2 DEF Shows
    <3> QED BY <1>6, <3>2, <3>3 DEF PagesInv, OwnCalls
  <2>3. ASSUME NEW kinds, call[k].kind \notin kinds,
               \E j \in Slots : call[j] # None /\ call[j].from = t /\ call[j].kind \in kinds
        PROVE  \E j \in Slots : Waiting(j, t)' /\ call'[j].kind \in kinds
    <3>1. PICK j \in Slots : call[j] # None /\ call[j].from = t /\ call[j].kind \in kinds
      BY <2>3
    <3>2. call'[j] = call[j]
      BY <1>2, <2>3, <3>1
    <3> QED BY <3>1, <3>2 DEF Waiting
  <2>4. ASSUME d # None PROVE Waiting(k, t)' /\ call'[k] = d
    BY <1>2, <2>4 DEF Waiting
  <2>5. row.busy => \E j \in Slots : Waiting(j, t)' /\ call'[j].kind \in EndsBusy
    <3>1. tab[t].busy => \E j \in Slots : call[j] # None /\ call[j].from = t /\ call[j].kind \in EndsBusy
      BY <1>6 DEF PagesInv, WaitsForAnAnswer, Awaited, EndsBusy
    <3> QED BY <1>6, <2>3, <2>4, <3>1
  <2>6. row.loading => \E j \in Slots : Waiting(j, t)' /\ call'[j].kind \in EndsLoading
    <3>1. tab[t].loading => \E j \in Slots : call[j] # None /\ call[j].from = t /\ call[j].kind \in EndsLoading
      BY <1>6 DEF PagesInv, WaitsForAnAnswer, Awaited, EndsLoading
    <3> QED BY <1>6, <2>3, <2>4, <3>1
  <2> QED BY <1>6, <2>2, <2>5, <2>6 DEF Fits
<1>7. tab' = [u \in Tabs |-> IF u = t THEN row ELSE tab[u]]
  OBVIOUS
<1> QED BY <1>1, <1>3, <1>4, <1>5, <1>6, <1>7, TabGoesOn DEF TabStep

\* What a tab that waits for k looks like.
LEMMA WhoWaits ==
  ASSUME PagesInv, NEW k \in Slots, call[k] # None
  PROVE  /\ call[k] \in CallRow
         /\ call[k].from \in Tabs =>
              LET old == tab[call[k].from] IN
              /\ old \in Tab
              /\ old.page = "shop" => call[k].kind = "list" /\ call[k].thing = old.asked
              /\ old.page = "cart" => call[k].kind \in {"view", "set", "checkout"}
              /\ old.page = "shop" /\ ~old.loading => old.shown \in {None, old.asked}
              /\ old.page = "cart" => old.shown = None \/ old.shown \in had
BY DEF PagesInv, PagesTypeOK, OwnCalls, Waiting, Shows, PagesTellTheTruth

\* An answer that ends its call and changes the row of the tab to row.
LEMMA EndKeepsPages ==
  ASSUME PagesInv, NEW k \in Slots, call[k] # None, NEW row,
         tab' = [u \in Tabs |-> IF u = call[k].from THEN row ELSE tab[u]],
         UNCHANGED <<shopState, clicks>>, stored' \in Tokens \union {None, Stale}, call' = Done(k),
         call[k].from \in Tabs =>
           LET old == tab[call[k].from] IN
           /\ row \in Tab
           /\ row.page \in {"shop", "cart"} => row.page = old.page /\ row.asked = old.asked
           /\ row.page = "shop" /\ ~row.loading => row.shown \in {None, row.asked}
           /\ row.page = "cart" => row.shown = None \/ row.shown \in had
           /\ row.busy => old.busy /\ call[k].kind \notin EndsBusy
           /\ row.loading => old.loading /\ call[k].kind \notin EndsLoading
  PROVE  PagesInv'
BY AnswerKeepsPages DEF Done, shopState
\* The pages' answers, one after the other.
LEMMA EndingsKeepPages ==
  ASSUME PagesInv, NEW k \in Slots,
         Loaded(k) \/ LookedUp(k) \/ CartLoaded(k) \/ QtyChanged(k) \/ Added(k) \/ CheckedOut(k)
  PROVE  PagesInv'
<1> DEFINE c == call[k]
           old == tab[c.from]
<1>1. c # None /\ call' = Done(k) /\ UNCHANGED <<shopState, clicks>> /\ stored' \in Tokens \union {None, Stale}
  BY DEF Loaded, LookedUp, CartLoaded, QtyChanged, Added, CheckedOut, At, PagesInv, PagesTypeOK
<1>2. c \in CallRow /\ c.view \in had \union {None}
  BY <1>1 DEF PagesInv, PagesTypeOK, ViewsAreRecorded
<1>3. c.from \in Tabs =>
        /\ old \in Tab
        /\ old.page = "shop" => c.kind = "list" /\ c.thing = old.asked
        /\ old.page = "cart" => c.kind \in {"view", "set", "checkout"}
        /\ old.page = "shop" /\ ~old.loading => old.shown \in {None, old.asked}
        /\ old.page = "cart" => old.shown = None \/ old.shown \in had
  BY <1>1, WhoWaits
<1>4. c.thing \in Things \union {None} \union Lines /\ c.view \in Lines \union {None}
  BY <1>2 DEF CallRow, CallThings
<1>5. CASE Loaded(k)
  <2> DEFINE row == [old EXCEPT !.loading = FALSE, !.shown = IF c.why = "ok" THEN c.thing ELSE None]
  <2>1. tab' = [u \in Tabs |-> IF u = c.from THEN row ELSE tab[u]] /\ c.kind \in {"list", "product"}
    BY <1>5 DEF Loaded, Shown, At
  <2>2. c.from \in Tabs =>
          /\ row \in Tab /\ row.page = old.page /\ row.asked = old.asked /\ row.busy = old.busy /\ ~row.loading
          /\ row.shown \in {c.thing, None}
    BY <1>3, <1>4 DEF Tab
  <2> HIDE DEF row
  <2>3. c.kind \notin EndsBusy
    BY <2>1 DEF EndsBusy
  <2> QED BY <1>1, <1>3, <2>1, <2>2, <2>3, EndKeepsPages
<1>6. CASE LookedUp(k)
  <2> DEFINE row == [old EXCEPT !.loading = FALSE, !.shown = IF c.why = "ok" THEN c.thing ELSE @]
  <2>1. tab' = [u \in Tabs |-> IF u = c.from THEN row ELSE tab[u]] /\ c.kind = "lookup"
    BY <1>6 DEF LookedUp, Shown, At
  <2>2. c.from \in Tabs =>
          row \in Tab /\ row.page = old.page /\ row.asked = old.asked /\ row.busy = old.busy /\ ~row.loading
    BY <1>3, <1>4 DEF Tab
  <2> HIDE DEF row
  <2>3. c.kind \notin EndsBusy
    BY <2>1 DEF EndsBusy
  <2> QED BY <1>1, <1>3, <2>1, <2>2, <2>3, EndKeepsPages
<1>7. CASE CartLoaded(k)
  <2> DEFINE row == [old EXCEPT !.loading = FALSE, !.shown = c.view]
  <2>1. tab' = [u \in Tabs |-> IF u = c.from THEN row ELSE tab[u]] /\ c.kind = "view"
    BY <1>7 DEF CartLoaded, Shown, At
  <2>2. c.from \in Tabs =>
          /\ row \in Tab /\ row.page = old.page /\ row.asked = old.asked /\ row.busy = old.busy /\ ~row.loading
          /\ row.shown = c.view
    BY <1>3, <1>4 DEF Tab
  <2> HIDE DEF row
  <2>3. c.kind \notin EndsBusy
    BY <2>1 DEF EndsBusy
  <2> QED BY <1>1, <1>2, <1>3, <2>1, <2>2, <2>3, EndKeepsPages
<1>8. CASE QtyChanged(k)
  <2> DEFINE row == IF c.why = "ok" THEN [old EXCEPT !.shown = c.view] ELSE old
  <2>1. tab' = [u \in Tabs |-> IF u = c.from THEN row ELSE tab[u]] /\ c.kind = "set"
    BY <1>8 DEF QtyChanged, Shown, At
  <2>2. c.from \in Tabs =>
          /\ row \in Tab /\ row.page = old.page /\ row.asked = old.asked
          /\ row.busy = old.busy /\ row.loading = old.loading
          /\ row.shown \in {c.view, old.shown}
    BY <1>3, <1>4 DEF Tab
  <2> HIDE DEF row
  <2>3. c.kind \notin EndsBusy /\ c.kind \notin EndsLoading
    BY <2>1 DEF EndsBusy, EndsLoading
  <2> QED BY <1>1, <1>2, <1>3, <2>1, <2>2, <2>3, EndKeepsPages
<1>9. CASE Added(k)
  <2> DEFINE row == [old EXCEPT !.busy = FALSE]
  <2>1. tab' = [u \in Tabs |-> IF u = c.from THEN row ELSE tab[u]] /\ c.kind \in {"add", "create"}
    BY <1>9 DEF Added, Shown, At, Ready
  <2>2. c.from \in Tabs =>
          row \in Tab /\ row.page = old.page /\ row.asked = old.asked /\ ~row.busy /\ row.loading = old.loading
    BY <1>3 DEF Tab
  <2> HIDE DEF row
  <2>3. c.kind \notin EndsLoading
    BY <2>1 DEF EndsLoading
  <2> QED BY <1>1, <1>3, <2>1, <2>2, <2>3, EndKeepsPages
<1>10. CASE CheckedOut(k)
  <2> DEFINE row == IF c.why = "ok" THEN Blank("away", None, FALSE) ELSE [old EXCEPT !.busy = FALSE]
  <2>1. tab' = [u \in Tabs |-> IF u = c.from THEN row ELSE tab[u]] /\ c.kind = "checkout"
    BY <1>10 DEF CheckedOut, Shown, At, Ready
  <2>2. c.from \in Tabs =>
          /\ row \in Tab /\ ~row.busy
          /\ \/ row.page = "away" /\ ~row.loading
             \/ row.page = old.page /\ row.asked = old.asked /\ row.loading = old.loading /\ row.shown = old.shown
    BY <1>3 DEF Tab, Blank
  <2> HIDE DEF row
  <2>3. c.kind \notin EndsLoading
    BY <2>1 DEF EndsLoading
  <2> QED BY <1>1, <1>3, <2>1, <2>2, <2>3, EndKeepsPages
<1> QED BY <1>5, <1>6, <1>7, <1>8, <1>9, <1>10

\* Answers after which there is more to ask.
LEMMA FollowUpsKeepPages ==
  ASSUME PagesInv, NEW k \in Slots, CartCreated(k) \/ AddAgain(k) \/ Returned(k)
  PROVE  PagesInv'
<1> DEFINE c == call[k]
           old == tab[c.from]
<1>1. c # None /\ c \in CallRow /\ c.view \in had \union {None} /\ stored \in Tokens \union {None, Stale}
  BY DEF CartCreated, AddAgain, Returned, At, PagesInv, PagesTypeOK, ViewsAreRecorded
<1>2. c.kind \in {"create", "add", "return", "hidden return"}
  BY DEF CartCreated, AddAgain, Returned, At
<1>3. c.from \in Tabs => old \in Tab /\ old.page \notin {"shop", "cart"}
  BY <1>1, <1>2, WhoWaits
<1>4. ASSUME NEW d \in CallRow, d.from = c.from, d.kind \in {"create", "add"}, d.view = c.view,
             c.kind \in {"create", "add"}, UNCHANGED <<shopState, tab, clicks>>,
             stored' \in Tokens \union {None, Stale}, call' = [call EXCEPT ![k] = d]
      PROVE  PagesInv'
  <2>1. PICK row : row = old
    OBVIOUS
  <2>2. tab' = [u \in Tabs |-> IF u = c.from THEN row ELSE tab[u]]
    BY <1>4, <2>1 DEF PagesInv, PagesTypeOK
  <2>3. d.kind \in EndsBusy /\ c.kind \notin EndsLoading /\ d # None
    BY <1>4, PagesAssumption DEF EndsBusy, EndsLoading
  <2>4. UNCHANGED <<offers, cart, had, clicks>> /\ d.view \in had \union {None}
    BY <1>1, <1>4 DEF shopState
  <2>5. c.from \in Tabs =>
          /\ row \in Tab
          /\ row.page \in {"shop", "cart"} => row.page = old.page /\ row.asked = old.asked /\ d = None
          /\ row.page = "shop" /\ ~row.loading => row.shown \in {None, row.asked}
          /\ row.page = "cart" => row.shown = None \/ row.shown \in had
          /\ row.busy => old.busy /\ (c.kind \notin EndsBusy \/ (d # None /\ d.kind \in EndsBusy))
          /\ row.loading => \/ d # None /\ d.kind \in EndsLoading
                            \/ old.loading /\ c.kind \notin EndsLoading
    BY <1>3, <2>1, <2>3
  <2>6. d # None => d \in CallRow /\ d.from = c.from /\ d.view \in had \union {None}
    BY <1>4, <2>4
  <2>7. c # None /\ stored' \in Tokens \union {None, Stale} /\ call' = [call EXCEPT ![k] = d]
    BY <1>1, <1>4
  <2>8. UNCHANGED <<offers, cart, had, clicks>>
    BY <2>4
  <2> QED BY <2>2, <2>5, <2>6, <2>7, <2>8, AnswerKeepsPages
<1>5. CASE CartCreated(k)
  <2> DEFINE d == [c EXCEPT !.kind = "add", !.pc = "sent", !.why = None]
  <2>1. "add" \in AllKinds /\ "sent" \in CallPC
    BY DEF AllKinds, CallPC
  <2>2. d \in CallRow /\ d.from = c.from /\ d.kind = "add" /\ d.view = c.view
    BY <1>1, <2>1 DEF CallRow
  <2>3. c.kind = "create" /\ UNCHANGED <<shopState, tab, clicks>> /\ stored' = c.token
    BY <1>5 DEF CartCreated, At
  <2>4. c.token \in Tokens \union {None, Stale}
    BY <1>1 DEF CallRow
  <2>5. call' = [call EXCEPT ![k] = d]
    BY <1>1, <1>5 DEF CartCreated, PagesInv, PagesTypeOK
  <2> HIDE DEF d
  <2> QED BY <1>4, <2>2, <2>3, <2>4, <2>5
<1>6. CASE AddAgain(k)
  <2> DEFINE d == [c EXCEPT !.kind = "create", !.pc = "sent", !.why = None, !.again = TRUE]
  <2>1. "create" \in AllKinds /\ "sent" \in CallPC
    BY DEF AllKinds, CallPC
  <2>2. d \in CallRow /\ d.from = c.from /\ d.kind = "create" /\ d.view = c.view
    BY <1>1, <2>1 DEF CallRow
  <2>3. c.kind = "add" /\ UNCHANGED <<shopState, stored, tab, clicks>>
    BY <1>6 DEF AddAgain, At
  <2>4. call' = [call EXCEPT ![k] = d]
    BY <1>1, <1>6 DEF AddAgain, PagesInv, PagesTypeOK
  <2> HIDE DEF d
  <2> QED BY <1>1, <1>4, <2>2, <2>3, <2>4
<1>7. CASE Returned(k)
  <2> DEFINE row == [old EXCEPT !.busy = (c.kind = "hidden return" /\ @), !.loading = (c.why = "ok" \/ @)]
             d == IF c.why = "ok" THEN Call(c.from, "lookup", c.thing, None) ELSE None
  <2>1. /\ tab' = [u \in Tabs |-> IF u = c.from THEN row ELSE tab[u]] /\ call' = [call EXCEPT ![k] = d]
        /\ UNCHANGED <<shopState, stored, clicks>>
    BY <1>7 DEF Returned, Shown
  <2>2. c.from \in Tabs => /\ row \in Tab /\ row.page = old.page
                           /\ row.busy => old.busy /\ c.kind = "hidden return"
                           /\ row.loading => old.loading \/ c.why = "ok"
    BY <1>3 DEF Tab
  <2>3. c.why = "ok" => d \in CallRow /\ d.from = c.from /\ d.kind = "lookup" /\ d.view = None
    <3>1. c.from \in Tabs \union {None} /\ c.thing \in CallThings
      BY <1>1 DEF CallRow
    <3>2. "lookup" \in AllKinds
      BY DEF AllKinds
    <3> QED BY <3>1, <3>2, CallIsRow
  <2>4. c.why # "ok" => d = None
    OBVIOUS
  <2> HIDE DEF row, d
  <2>5. c.kind \in {"return", "hidden return"}
    BY <1>7 DEF Returned, At
  <2>6. c.kind \notin EndsLoading /\ (c.kind = "hidden return" => c.kind \notin EndsBusy) /\ "lookup" \in EndsLoading
    BY <2>5 DEF EndsLoading, EndsBusy
  <2>7. c.why = "ok" => d # None
    BY <2>3, PagesAssumption
  <2> QED BY <1>1, <1>3, <2>1, <2>2, <2>3, <2>4, <2>6, <2>7, AnswerKeepsPages DEF shopState
<1> QED BY <1>5, <1>6, <1>7

-----------------------------------------------------------------------------
(* The theorems about pages.                                                *)

LEMMA PagesBegin ==
  ASSUME Init, LinesInv PROVE PagesInv
<1>1. call = [k \in Slots |-> None] /\ had = {NoLines} \union {cart[token].lines : token \in {x \in Tokens : cart[x] # None}}
  BY DEF Init, ServiceInit
<1>2. cart \in [Tokens -> Cart \union {None}] /\ NoLines \in Lines
  BY DEF LinesInv, CartsInv, NoLines, Lines
<1>3. tab = [t \in Tabs |-> Blank("home", None, FALSE)] /\ clicks = 0 /\ offers = 0
  BY DEF Init, PagesInit, OffersInit
<1>4. stored \in Tokens \union {None, Stale}
  <2>1. (CHOOSE x \in Tokens : TRUE) \in Tokens
    BY PagesAssumption
  <2>2. stored \in {None, Stale} \/ stored = CHOOSE x \in Tokens : TRUE
    BY DEF Init, PagesInit
  <2> QED BY <2>1, <2>2
<1>5. had \subseteq Lines /\ CartsAreRecorded
  BY <1>1, <1>2 DEF CartsAreRecorded, Cart
<1>6. Blank("home", None, FALSE) \in Tab /\ Blank("home", None, FALSE).page = "home"
      /\ ~Blank("home", None, FALSE).busy /\ ~Blank("home", None, FALSE).loading
  BY DEF Blank, Tab
<1>7. PagesTypeOK
  <2>1. offers \in 0..MaxOffers /\ clicks \in 0..MaxClicks
    BY <1>3, PagesAssumption
  <2>2. tab \in [Tabs -> Tab]
    BY <1>3, <1>6
  <2>3. call \in [Slots -> CallRow \union {None}]
    BY <1>1
  <2> QED BY <1>4, <1>5, <2>1, <2>2, <2>3 DEF PagesTypeOK
<1>8. ViewsAreRecorded /\ OwnCalls
  BY <1>1 DEF ViewsAreRecorded, OwnCalls, Waiting
<1>9. PagesTellTheTruth /\ WaitsForAnAnswer
  BY <1>3, <1>6 DEF PagesTellTheTruth, WaitsForAnAnswer, Shows
<1> QED BY <1>5, <1>7, <1>8, <1>9 DEF PagesInv
LEMMA PagesStep ==
  ASSUME LinesInv, PagesInv, [Next]_vars PROVE PagesInv'
<1>1. CASE UNCHANGED vars
  <2>1. CallsGoOn
    BY <1>1, PagesAssumption DEF vars, CallsGoOn, PagesInv, PagesTypeOK, SameCall
  <2>2. UNCHANGED pageVars /\ UNCHANGED <<cart, had>> /\ offers' \in 0..MaxOffers
    BY <1>1 DEF vars, shopState, PagesInv, PagesTypeOK
  <2> QED BY <2>1, <2>2, HadStays, GoOn
<1>2. CASE (ShopChanges \/ CartIsPaid) /\ UNCHANGED pageVars
  BY <1>2, ServiceKeepsPages
<1>3. CASE \E k \in Slots : ServerStep(k) /\ UNCHANGED pageVars
  BY <1>3, ServiceKeepsPages
<1>4. ASSUME NEW k \in Slots, Arrive(k) PROVE PagesInv'
  BY <1>4, EndingsKeepPages, FollowUpsKeepPages DEF Arrive
<1>5. ASSUME NEW t \in Tabs, UserStep(t) PROVE PagesInv'
  BY <1>5, UserKeepsPages
<1> QED BY <1>1, <1>2, <1>3, <1>4, <1>5 DEF Next

THEOREM PagesHold == Spec => [](LinesInv /\ PagesInv)
<1>1. Init => LinesInv /\ PagesInv
  BY LinesInit, PagesBegin
<1>2. LinesInv /\ PagesInv /\ [Next]_vars => (LinesInv /\ PagesInv)'
  BY LinesStep, PagesStep
<1> QED BY <1>1, <1>2, PTL DEF Spec

\* The type invariant of the shop: calls, carts, offers and pages.
THEOREM TypeCorrect == Spec => []TypeOK
BY PagesHold, PagesTyped, PTL

\* Whatever answers are late, given up or follow one another, a list that has
\* loaded is the one asked for last, and a cart that is shown was one (the
\* cancelled effect of the shop page, cart/page.tsx).
THEOREM PagesAreTrue == Spec => []PagesTellTheTruth
<1>1. PagesInv => PagesTellTheTruth
  BY DEF PagesInv
<1> QED BY <1>1, PagesHold, PTL

\* No page is left busy or loading without an answer to come that ends it,
\* through retries with a new cart, refusals and calls given up.
THEOREM NoPageIsStuck == Spec => []WaitsForAnAnswer
<1>1. PagesInv => WaitsForAnAnswer
  BY DEF PagesInv
<1> QED BY <1>1, PagesHold, PTL
=============================================================================
