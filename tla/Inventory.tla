------------------------------ MODULE Inventory ------------------------------
(***************************************************************************)
(* InventoryService.create and adjust.  An adjustment checks the level it   *)
(* read and then increments the row: one transaction, two statements, so    *)
(* other transactions can commit in between.                                *)
(***************************************************************************)
EXTENDS CommerceState

CONSTANTS
  Keepers,      \* concurrent stock requests
  Deltas,       \* the adjustments keepers make
  Types,        \* the movement types they use
  MaxRequests   \* bound on the stock requests made in all

\* RECEIVE stands for every movement type that may not drive stock negative.
ASSUME InventoryAssumption ==
  /\ Types \subseteq {"RECEIVE", "ADJUSTMENT"}
  /\ Deltas \subseteq Int
  /\ MaxRequests \in Nat

VARIABLES
  keeper,       \* each request: pc, location, delta
  stockRequests \* requests made so far

inventoryVars == <<keeper, stockRequests>>

KeeperPC == {"idle", "write"}

NegativeAllowed == {"ADJUSTMENT"}

Off == [pc |-> "idle", loc |-> None, delta |-> 0, new |-> FALSE]

\* A request has looked for the location's item and found it, or not (new).
Requests(x, l, delta) ==
  /\ keeper[x].pc = "idle"
  /\ stockRequests < MaxRequests
  /\ stockRequests' = stockRequests + 1
  /\ keeper' = [keeper EXCEPT ![x] =
                  [pc |-> "write", loc |-> l, delta |-> delta, new |-> l \notin items]]
  /\ UNCHANGED sharedVars

\* create: a location that already has an item is refused.
ReadItemForCreate(x, l, level) ==
  l \notin items /\ level >= 0 /\ Requests(x, l, level)

\* adjust: refused if it would take the level read (0 for a new item) below 0,
\* unless the movement type permits it.
ReadItemForAdjust(x, l, delta, type) ==
  LET level == IF l \in items THEN onHand[l] ELSE 0 IN
  /\ delta # 0
  /\ level + delta < 0 => type \in NegativeAllowed
  /\ Requests(x, l, delta)

\* The relative increment and its movement.  (Mutant: a new item's opening
\* level gets no movement.)
MoveUnledgered(l, delta) ==
  /\ items' = items \cup {l}
  /\ onHand' = [onHand EXCEPT ![l] = @ + delta]
  /\ ledger' = IF l \in items THEN [ledger EXCEPT ![l] = @ + delta] ELSE ledger
Move(l, delta) ==
  /\ items' = items \cup {l}
  /\ onHand' = [onHand EXCEPT ![l] = @ + delta]
  /\ ledger' = [ledger EXCEPT ![l] = @ + delta]

\* The new item if there is one, the movement and the relative increment.  A
\* new item that has been created meanwhile violates unique(variantId,
\* locationId), which fails the transaction.
WriteItem(x) ==
  LET l == keeper[x].loc IN
  /\ keeper[x].pc = "write"
  /\ keeper' = [keeper EXCEPT ![x] = Off]
  /\ \/ /\ keeper[x].new /\ l \in items
        /\ UNCHANGED <<items, onHand, ledger>>
     \/ /\ keeper[x].new => l \notin items
        /\ Move(l, keeper[x].delta)
  /\ UNCHANGED <<orderVars, moneyVars, carts, sold, stripeVars, stockRequests>>

InventoryNext ==
  \E x \in Keepers :
    \/ \E l \in Locations, delta \in Deltas :
         \/ ReadItemForCreate(x, l, delta)
         \/ \E type \in Types : ReadItemForAdjust(x, l, delta, type)
    \/ WriteItem(x)

InventoryInit ==
  /\ keeper = [x \in Keepers |-> Off]
  /\ stockRequests = 0

InventoryTypeOK ==
  /\ keeper \in [Keepers -> [pc : KeeperPC, loc : Locations \cup {None},
                            delta : Int, new : BOOLEAN]]
  /\ \A x \in Keepers : keeper[x].pc # "idle" => keeper[x].loc \in Locations
  /\ stockRequests \in 0 .. MaxRequests
=============================================================================
