----------------------------- MODULE ConsoleState -----------------------------
(***************************************************************************)
(* The merchant's console: one admin page at a time, the rows it shows, and *)
(* the calls it has in flight.  A handler runs until its first await; the   *)
(* rest runs when the answer arrives, with the variables it closed over.    *)
(***************************************************************************)
EXTENDS Integers, Sequences, FiniteSets

CONSTANTS
  None,
  Order,       \* rows of the page's table, in the order of the list; the last is yet to be created
  Slots,       \* bound on the calls in flight
  Filters,     \* what the status or search box holds
  Sizes,       \* rows per page
  MaxClicks,   \* page -> bound on what the user does
  MaxWrites,   \* bound on what others write
  MaxFaults    \* bound on the calls that fail for no reason of their own

VARIABLES
  page,        \* the page that is open
  row,         \* row -> its status in the database, "new" before it exists, None once it is deleted
  shipment,    \* row -> the status of its order's last shipment, or None
  version,     \* how often the rows were written
  win,         \* what the page holds (React state)
  call,        \* calls in flight
  clicks, faults, others

Rows == {Order[i] : i \in DOMAIN Order}
New == Order[Len(Order)]
consoleVars == <<page, row, shipment, version, win, call, clicks, faults, others>>

\* The pages whose effect ignores the answer of an effect that was cleaned up.
Guarded == {"products", "product", "new product", "brands", "categories"}
Unguarded == {"inventory", "locations", "orders", "returns", "privacy", "extraction", "connect"}
PageNames == Guarded \union Unguarded \union {"imports"}

Statuses ==
  CASE page = "orders" -> <<"PAID", "REFUNDED">>
    [] page = "returns" -> <<"REQUESTED", "APPROVED", "REJECTED", "REFUNDED">>
    [] page = "extraction" -> <<"QUEUED", "AWAITING_REVIEW">>
    [] page \in {"products", "product", "new product", "imports"} -> <<"DRAFT", "ACTIVE">>
    [] OTHER -> <<"LISTED">>

\* Buttons that are disabled by a state of their own.
Flags == {"row", "start", "upload", "panel", "barcode", "section", "save"}

FirstQuery == [filter |-> CHOOSE f \in Filters : TRUE, page |-> 1, size |-> CHOOSE n \in Sizes : TRUE]

FirstWindow ==
  [query |-> FirstQuery, list |-> None, loading |-> page # "imports", failed |-> FALSE, busy |-> [f \in Flags |-> None],
   panel |-> None, section |-> None, form |-> None, mine |-> 0, raced |-> FALSE, here |-> TRUE]

\* row is what the call is about, sets what it makes of it, back the query its
\* handler closed over, flag the button it will release, lists whether the
\* handler will set the list.
Call(kind, r, sets, back, flag, lists) ==
  [kind |-> kind, row |-> r, sets |-> sets, back |-> back, flag |-> flag, lists |-> lists,
   pc |-> "sent", ok |-> FALSE, got |-> None]

-----------------------------------------------------------------------------
(* Types.                                                                   *)

\* What a row's status, an answer and the page's state may be.
RowStatus == {"PAID", "REFUNDED", "REQUESTED", "APPROVED", "REJECTED", "QUEUED", "AWAITING_REVIEW", "DRAFT", "ACTIVE",
              "LISTED", "new", None}
ParcelStatus == {"PENDING", "IN_TRANSIT", None}
Queries == [filter : Filters, page : Int, size : Sizes]
Lists == [query : Queries, total : Nat, version : Nat, rows : UNION {[rows -> RowStatus] : rows \in SUBSET Rows}]
Glances == [of : Rows, status : RowStatus \union ParcelStatus]

Reads == {"load", "open", "section"}
Steps == {"presign", "put", "confirm"}
Parcels == {"ship", "new shipment"}
RowWrites ==
  {"publish", "delete", "delete last", "delete shown", "adjust", "create", "refund", "approve", "reject", "refund return",
   "save", "add variant", "drop variant", "account", "accept", "barcode"}

CallRow ==
  [kind : Reads \union Steps \union Parcels \union RowWrites, row : Rows \union {None},
   sets : RowStatus \union ParcelStatus \union {"same"}, back : Queries \union Rows \union {None},
   flag : Flags \union {None}, lists : BOOLEAN, pc : {"sent", "answered"}, ok : BOOLEAN,
   got : Lists \union Glances \union {None}]

Window ==
  [query : Queries, list : Lists \union {None}, loading : BOOLEAN, failed : BOOLEAN,
   busy : [Flags -> Rows \union {None, "on"}], panel : Glances \union {None}, section : Glances \union {None},
   form : [kind : {"adjust", "new"}, of : Rows \union {None}] \union {None},
   mine : Nat, raced : BOOLEAN, here : BOOLEAN]

ASSUME ConsoleAssumption ==
  /\ Order \in Seq(Rows) /\ Order # <<>>
  /\ Slots # {} /\ Filters # {} /\ Sizes # {} /\ Sizes \subseteq Nat
  /\ MaxClicks \in [PageNames -> Nat] /\ MaxFaults \in Nat /\ MaxWrites \in Nat
  /\ None \notin CallRow /\ None \notin Lists /\ None \notin Flags /\ None \notin Rows
  /\ None \notin [kind : {"adjust", "new"}, of : Rows \union {None}]

-----------------------------------------------------------------------------
(* The start.                                                               *)

GetList(q, flag) == Call("load", None, None, q, flag, TRUE)

ConsoleInit ==
  /\ page \in PageNames
  /\ row = [r \in Rows |-> IF r = New \/ page = "connect" \/ (page = "extraction" /\ r # Order[1]) THEN "new"
                           ELSE Statuses[1]]
  /\ shipment = [r \in Rows |-> None]
  /\ version = 0
  /\ win = FirstWindow
  /\ LET first == CHOOSE k \in Slots : TRUE IN
     call = [k \in Slots |-> IF k = first /\ win.loading THEN GetList(FirstQuery, None) ELSE None]
  /\ clicks = 0 /\ faults = 0 /\ others = 0

serverVars == <<page, row, shipment, version, faults, others>>

-----------------------------------------------------------------------------
(* What the API answers.                                                    *)

Present(status) == status \notin {None, "new"}
Existing(table) == {i \in DOMAIN Order : Present(table[Order[i]])}
OnPage(q, table) ==
  {i \in Existing(table) : LET n == Cardinality({j \in Existing(table) : j <= i}) IN
                            (q.page - 1) * q.size < n /\ n <= q.page * q.size}

\* A list; which rows a filter selects makes no difference to the page.
Found(q, table, at) ==
  [query |-> q, total |-> Cardinality(Existing(table)), version |-> at,
   rows |-> [r \in IF page = "product" THEN {Order[1]} ELSE {Order[i] : i \in OnPage(q, table)} |-> table[r]]]

\* The statuses a row may have for a call to be accepted.
Takes(kind) ==
  CASE kind \in {"approve", "reject"} -> {"REQUESTED"}
    [] kind = "refund return" -> {"APPROVED"}
    [] kind = "refund" -> {"PAID"}
    [] kind = "create" -> {"new"}
    [] kind = "account" -> {"new", "LISTED"}
    [] OTHER -> {Statuses[i] : i \in DOMAIN Statuses}

Sent(k) == call[k] # None /\ call[k].pc = "sent"
Answer(k, ok, got) == call' = [call EXCEPT ![k] = [@ EXCEPT !.pc = "answered", !.ok = ok, !.got = got]]

\* A GET; a page below 1, or a row that is gone, is refused.
Read(k) ==
  LET c == call[k] IN
  /\ Sent(k) /\ c.kind \in Reads
  /\ CASE c.kind = "load" -> LET ok == c.back.page > 0 /\ (page = "product" => Present(row[Order[1]]))
                             IN Answer(k, ok, IF ok THEN Found(c.back, row, version) ELSE None)
       [] c.kind = "open" -> Answer(k, Present(row[c.row]), [of |-> c.row, status |-> row[c.row]])
       [] c.kind = "section" -> Answer(k, TRUE, [of |-> c.row, status |-> shipment[c.row]])
  /\ UNCHANGED <<serverVars, win, clicks>>

\* A request that writes a row, if the row allows it.
Writes(k) ==
  LET c == call[k] IN
  /\ Sent(k) /\ c.kind \notin Reads \union Steps \union Parcels
  /\ row[c.row] \in Takes(c.kind)
  /\ row' = [row EXCEPT ![c.row] = IF c.sets = "same" THEN @ ELSE c.sets]
  /\ version' = version + 1

Write(k) ==
  /\ Writes(k)
  /\ Answer(k, TRUE, Found(call[k].back, row', version'))
  /\ UNCHANGED <<page, shipment, faults, others, win, clicks>>

\* Presigning, uploading and confirming change no row; shipments are rows of their own.
Handle(k) ==
  LET c == call[k] IN
  /\ Sent(k) /\ c.kind \in Steps \union Parcels
  /\ shipment' = IF c.kind \in Parcels THEN [shipment EXCEPT ![c.row] = c.sets] ELSE shipment
  /\ Answer(k, TRUE, None)
  /\ UNCHANGED <<page, row, version, faults, others, win, clicks>>

Refuse(k) ==
  /\ Sent(k) /\ call[k].kind \notin Reads \union Steps \union Parcels
  /\ row[call[k].row] \notin Takes(call[k].kind)
  /\ Answer(k, FALSE, None)
  /\ UNCHANGED <<serverVars, win, clicks>>

\* A call fails, or its answer is lost after it was carried out.
Fault(k) ==
  /\ faults < MaxFaults /\ faults' = faults + 1
  /\ Sent(k)
  /\ Writes(k) \/ UNCHANGED <<row, version>>
  /\ Answer(k, FALSE, None)
  /\ UNCHANGED <<page, shipment, others, win, clicks>>

\* A customer, a worker or another member of the team.
Elsewhere(r) ==
  /\ others < MaxWrites /\ others' = others + 1
  /\ Present(row[r])
  /\ \E s \in {Statuses[i] : i \in DOMAIN Statuses} \union {None} :
       /\ s # row[r]
       /\ page = "extraction" => s # "QUEUED"
       /\ row' = [row EXCEPT ![r] = s]
  /\ version' = version + 1
  /\ UNCHANGED <<page, shipment, win, call, clicks, faults>>

-----------------------------------------------------------------------------
(* What every page does.                                                    *)

Clicked == win.here /\ clicks < MaxClicks[page] /\ clicks' = clicks + 1
FreeIn(calls) == {k \in Slots : calls[k] = None}
FirstIn(slots) == CHOOSE k \in slots : TRUE   \* they are all alike
Without(k) == [call EXCEPT ![k] = None]
Release(w, flag) == [w EXCEPT !.busy = [f \in Flags |-> IF f = flag THEN None ELSE w.busy[f]]]

\* Calls whose answer would be ignored from now on.
Cancelled(calls, kinds) == [k \in Slots |-> IF calls[k] # None /\ calls[k].kind \in kinds THEN None ELSE calls[k]]

\* A part of the page is gone: what its handlers would set no longer exists.
Detached(calls, flags) ==
  [k \in Slots |-> IF calls[k] # None /\ calls[k].flag \in flags THEN [calls[k] EXCEPT !.flag = None] ELSE calls[k]]

ListsLater(calls) == \E k \in Slots : calls[k] # None /\ calls[k].lists

\* The list is loaded, in slot k, while w is the state: resumed when the
\* handler that loads had begun before.  win.raced says that another answer
\* may set the list as well.
LoadIn(k, w, calls, q, flag, resumed) ==
  /\ win' = [w EXCEPT !.loading = TRUE, !.raced = ListsLater(calls) \/ (resumed /\ @)]
  /\ call' = [calls EXCEPT ![k] = GetList(q, flag)]

\* Mutant of Begun: the effect before is not cleaned up.
BegunUncancelled(calls) == calls

\* The calls left when an effect loads anew.
Begun(calls) == IF page \in Guarded THEN Cancelled(calls, {"load"}) ELSE calls

Load(w) ==
  /\ FreeIn(Begun(call)) # {}
  /\ LoadIn(FirstIn(FreeIn(Begun(call))), w, Begun(call), w.query, None, FALSE)
ReloadIn(k, w) == LoadIn(k, w, Begun(Without(k)), w.query, None, TRUE)

ChangeQuery(q) == Clicked /\ q # win.query /\ Load([win EXCEPT !.query = q]) /\ UNCHANGED serverVars

\* The boxes work while the list loads, the page buttons do not.
Refilter == \E f \in Filters : ChangeQuery([win.query EXCEPT !.filter = f, !.page = 1])
Resize == \E n \in Sizes : ChangeQuery([win.query EXCEPT !.size = n, !.page = 1])
PageBefore(q) == [q EXCEPT !.page = @ - 1]

TurnPage ==
  /\ ~win.loading
  /\ \/ win.query.page > 1 /\ ChangeQuery(PageBefore(win.query))
     \/ /\ win.list # None /\ win.query.page * win.query.size < win.list.total
        /\ ChangeQuery([win.query EXCEPT !.page = @ + 1])

Shows(r) == ~win.loading /\ win.list # None /\ r \in DOMAIN win.list.rows

\* A handler disables its button and sends its request.
Send(w, flag, thing, c) ==
  /\ Clicked
  /\ FreeIn(call) # {} /\ call' = [call EXCEPT ![FirstIn(FreeIn(call))] = c]
  /\ win' = [w EXCEPT !.busy = [@ EXCEPT ![flag] = thing],
                      !.raced = @ \/ (page \in {"product", "connect"} /\ c.lists /\ ListsLater(call))]
  /\ UNCHANGED serverVars

At(k, kinds) == call[k] # None /\ call[k].pc = "answered" /\ call[k].ok /\ call[k].kind \in kinds

\* What the handler wrote is acknowledged.
Acknowledged(k) == [win EXCEPT !.mine = IF call[k].got.version > @ THEN call[k].got.version ELSE @]

ListArrives(k) ==
  /\ At(k, {"load"})
  /\ win' = [Release(win, call[k].flag) EXCEPT !.list = call[k].got, !.loading = FALSE, !.failed = FALSE]
  /\ call' = Without(k)
  /\ UNCHANGED <<serverVars, clicks>>

\* openJob says so itself: a handler that waits for it goes on.
Failed(k) == call[k] # None /\ call[k].pc = "answered" /\ ~call[k].ok /\ ~(call[k].kind = "open" /\ call[k].lists)

\* Mutant of FailureArrives: the handler has no finally.
FailureStays(k) ==
  LET c == call[k] IN
  /\ Failed(k)
  /\ win' = IF c.kind = "load" THEN [win EXCEPT !.loading = FALSE, !.failed = TRUE] ELSE win
  /\ call' = Without(k)
  /\ UNCHANGED <<serverVars, clicks>>

\* Every handler catches, says so and enables its button again.
FailureArrives(k) ==
  LET c == call[k]
      w == Release(win, c.flag)
  IN /\ Failed(k)
     /\ win' = IF c.kind = "load" THEN [w EXCEPT !.loading = FALSE, !.failed = TRUE] ELSE w
     /\ call' = Without(k)
     /\ UNCHANGED <<serverVars, clicks>>
=============================================================================
